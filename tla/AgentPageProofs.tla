-------------------------- MODULE AgentPageProofs --------------------------
(***************************************************************************)
(* Safety of the Agents page for every set of agents and items, any number *)
(* of handlers and any number of clicks: updates do not mix up the names   *)
(* of agents, and what the tabs show is what the server holds.             *)
(***************************************************************************)
EXTENDS AgentPage, FiniteSetTheorems, WellFoundedInduction, TLAPS

-----------------------------------------------------------------------------
(* Types.                                                                  *)

\* Functions on a part of the ids: records that come and go.
Partial(S, T) == UNION {[R -> T] : R \in SUBSET S}

Urls == Agents \cup {None}
SavedForms == {f \in Forms : f.name # Blank}
ItemSets == [plugins : SUBSET Items, topics : SUBSET Items]

\* What an update may write to an agent that was there at first: its own name, or what
\* the user typed.
Meant(a, form) == a \in Initially => form.name \in {a, Typed}

\* Records of the server.  An id is given once, and only agents have items.
GoodDb(d) ==
    /\ d \in [agents : Partial(Agents, SavedForms), links : [Panels -> SUBSET (Agents \X Items)],
              given : SUBSET Agents]
    /\ Initially \cup DOMAIN d.agents \subseteq d.given
    /\ \A a \in DOMAIN d.agents : Meant(a, d.agents[a])
    /\ \A kind \in Panels : \A l \in d.links[kind] : l[1] \in DOMAIN d.agents

\* The states of the tabs.  When the agent that is selected was there at first, the form
\* holds its name or what the user typed.
DetailsType == [agents : SUBSET Agents, selected : Ids, temp : BOOLEAN, form : Forms,
                loading : BOOLEAN, confirm : Ids]
GoodDetails(d) == d \in DetailsType /\ Meant(d.selected, d.form)
PanelType == [agents : SUBSET Agents, agent : Urls, assigned : SUBSET Items, available : SUBSET Items,
              loading : BOOLEAN, confirm : Items \cup {None}, form : BOOLEAN, submitting : BOOLEAN]

\* The awaits of the handlers: those that turn the spinner of each tab, and the others.
DetailsPlaces == {"load", "loadAgent", "save", "refresh", "delete", "unlink", "drop", "relist"}
PanelPlaces == {"panelList", "panelLoad", "add", "remove", "refetch"}
FormPlaces == {"topicSaved", "topicListed"}
Places == DetailsPlaces \cup PanelPlaces \cup FormPlaces \cup {"show", "credentials"}

\* The requests a handler has made at each of its awaits.
Asks(at, arg, q) ==
    \/ at = "load" /\ arg \in [id : Urls, temp : BOOLEAN] /\ q = {getAllAgents}
    \/ at = "loadAgent" /\ arg \in [id : Agents, temp : BOOLEAN] /\ q = {getAgentById(arg.id)}
    \/ at = "show" /\ arg \in Agents \cup {Temp} /\ q = {getAgentById(arg)}
    \/ /\ at = "save" /\ arg \in [temp : BOOLEAN]
       /\ \E f \in SavedForms :
            \/ arg.temp /\ q = {createAgent(f)}
            \/ ~arg.temp /\ \E a \in Agents \cup {Temp} : Meant(a, f) /\ q = {updateAgent(a, f)}
    \/ at = "refresh" /\ \E id \in Urls : q \in {{getAllAgents}, {getAllAgents, getAgentById(id)}}
    \/ at = "delete" /\ arg \in [id : Agents \cup {Temp}] /\ q = {getAgentById(arg.id)}
    \/ /\ at \in {"unlink", "drop"} /\ {"id", "left"} \subseteq DOMAIN arg /\ arg.left \in ItemSets
       /\ \/ at = "drop" /\ q = {dropAgent(arg.id)}
          \/ at = "unlink" /\ \E kind \in Panels, i \in Items : q = {removeItem(kind, arg.id, i)}
    \/ at = "relist" /\ q = {getAllAgents}
    \/ at = "panelList" /\ arg \in [kind : Panels, id : {None}] /\ q = {getAllAgents}
    \/ /\ at = "panelLoad" /\ arg \in [kind : Panels, id : Agents]
       /\ q = {getAllAgents, getAgentById(arg.id), assignedItems(arg.kind, arg.id)}
    \/ /\ at = "add" /\ arg \in [kind : Panels, id : Agents]
       /\ \E i \in Items : q = {addItem(arg.kind, arg.id, i)}
    \/ /\ at = "remove" /\ arg \in [kind : Panels, id : Agents]
       /\ \E i \in Items : q = {removeItem(arg.kind, arg.id, i)}
    \/ /\ at = "refetch" /\ {"kind", "id", "adds"} \subseteq DOMAIN arg
       /\ arg.kind \in Panels /\ arg.id \in Agents /\ arg.adds \in BOOLEAN
       /\ q = {assignedItems(arg.kind, arg.id)}
    \/ at = "topicSaved" /\ arg \in [kind : {"topics"}, id : Urls] /\ q = {getAvailableTopics}
    \/ at = "topicListed" /\ arg \in [kind : {"topics"}, id : Agents] /\ q = {getAgentTopics(arg.id)}
    \/ at = "credentials" /\ arg \in [id : Agents] /\ q = {getAgentById(arg.id)}

\* What the answer to a request can be.
Tells(r, data) ==
    /\ r[1] = "getAllAgents" => data \in SUBSET Agents
    /\ r[1] = "getAgentById" => /\ r[2] \in Agents /\ data.id = r[2]
                                /\ FormOf(data) \in SavedForms /\ Meant(r[2], FormOf(data))
                                /\ data.plugins \in SUBSET Items /\ data.topics \in SUBSET Items
    /\ r[1] = "createAgent" => data \in Agents
    /\ r[1] = "updateAgent" => data = None
    /\ r[1] \in {"assigned", "available"} => data \in SUBSET Items
GoodAnswer(r, a) == a = Failure \/ (a = Ok(a.data) /\ Tells(r, a.data))

GoodTask(t) ==
    \/ t = Idle
    \/ /\ t = [at |-> t.at, arg |-> t.arg, sent |-> t.sent, got |-> t.got, live |-> t.live]
       /\ t.live \in BOOLEAN
       /\ t.sent \cap DOMAIN t.got = {}
       /\ Asks(t.at, t.arg, t.sent \cup DOMAIN t.got)
       /\ \A r \in DOMAIN t.got : GoodAnswer(r, t.got[r])
GoodTasks(ts) == DOMAIN ts = Slots /\ \A k \in Slots : GoodTask(ts[k])

TypeInv ==
    /\ GoodDb(db) /\ url \in Urls /\ tab \in Tabs
    /\ GoodDetails(details) /\ panel \in PanelType
    /\ GoodTasks(tasks)

-----------------------------------------------------------------------------
(* The invariants.                                                         *)

\* A spinner turns as long as a handler that will stop it runs.
Turns(ts, places) == \E k \in Slots : ts[k].at \in places /\ ts[k].live
Spins(t, d, p, ts) ==
    /\ t = "Agents" /\ d.loading => Turns(ts, DetailsPlaces)
    /\ t \in Panels /\ p.loading => Turns(ts, PanelPlaces)
    /\ p.submitting => t = "topics" /\ Turns(ts, FormPlaces)
SpinInv == Spins(tab, details, panel, tasks)

\* Of a user who waits, while no request fails: the handlers are those of the tab, and
\* only those that read overlap.
PlacesOf(t) == IF t = "Agents" THEN DetailsPlaces \cup {"show"}
               ELSE IF t = "credentials" THEN {"credentials"} ELSE PanelPlaces \cup FormPlaces
MayOverlap == {"load", "loadAgent", "show", "refresh", "relist"}
Single(t, u, ts) ==
    /\ \A k \in Slots : ts[k].at # "idle" =>
          /\ ts[k].at \in PlacesOf(t) /\ ts[k].live
          /\ t \in Panels => ts[k].arg.kind = t /\ ts[k].arg.id = u
    /\ \A j, k \in Slots : ts[j].at \notin MayOverlap \cup {"idle"} /\ ts[k].at # "idle" => j = k

\* The items of an agent, as the server has them.
ItemsIn(d, kind, a) == {i \in Items : <<a, i>> \in d.links[kind]}

\* An answer that waits to be read is still so, and one that was refused had no agent.
StillSo(d, r, a) ==
    /\ r[1] = "getAllAgents" => a = Ok(DOMAIN d.agents)
    /\ r[1] = "getAgentById" => (a.ok <=> r[2] \in DOMAIN d.agents)
    /\ r[1] = "assigned" => (a.ok <=> r[3] \in DOMAIN d.agents) /\ (a.ok => a.data = ItemsIn(d, r[2], r[3]))
    /\ r[1] = "createAgent" => a.ok
Fresh(d, ts) == \A k \in Slots : \A r \in DOMAIN ts[k].got : StillSo(d, r, ts[k].got[r])

\* What is shown is so, unless a handler runs that will show it.
Succeeded(t) == \E r \in DOMAIN t.got : t.got[r].ok
Lists(ts) == \E k \in Slots : \/ ts[k].at \in {"load", "refresh", "relist"}
                              \/ ts[k].at \in {"save", "drop"} /\ Succeeded(ts[k])
Assigns(ts) == \E k \in Slots : \/ ts[k].at \in {"panelLoad", "refetch"}
                                \/ ts[k].at \in {"add", "remove"} /\ Succeeded(ts[k])
Chosen(d, t, s, ts) ==
    t = "Agents" => \/ s.selected \in DOMAIN d.agents \cup {None, Temp}
                    \/ \E k \in Slots : ts[k].at = "drop" /\ Succeeded(ts[k])
Current(d, t, u, s, p, ts) ==
    /\ t = "Agents" /\ ~Lists(ts) => s.agents = DOMAIN d.agents
    /\ t \in Panels /\ u \in DOMAIN d.agents =>
          /\ p.agent = u \/ \E k \in Slots : ts[k].at = "panelLoad"
          /\ p.assigned = ItemsIn(d, t, u) \/ Assigns(ts)

\* While an agent is saved the form is blocked, and each draft is created once.
New(d) == d.given \ Initially
Counted(d, s, ts, n) ==
    /\ n \in Nat /\ IsFiniteSet(New(d)) /\ Cardinality(New(d)) <= n
    /\ s.temp /\ (\A k \in Slots : ts[k].at = "save" => DOMAIN ts[k].got = {}) => Cardinality(New(d)) + 1 <= n
    /\ \A k \in Slots : ts[k].at = "save" => s.loading /\ s.temp = ts[k].arg.temp

Calm(d, t, u, s, p, ts, n) ==
    Single(t, u, ts) /\ Fresh(d, ts) /\ Chosen(d, t, s, ts) /\ Current(d, t, u, s, p, ts) /\ Counted(d, s, ts, n)
CalmInv == ~hasty /\ ~failed => Calm(db, tab, url, details, panel, tasks, drafts)

PageInv == TypeInv /\ SpinInv /\ CalmInv

-----------------------------------------------------------------------------
(* Records that come and go, and the handlers of the page.                 *)

\* What is in Partial(S, T).
LEMMA PartialIs ==
    ASSUME NEW S, NEW T, NEW f
    PROVE  f \in Partial(S, T) <=> /\ f = [x \in DOMAIN f |-> f[x]]
                                   /\ DOMAIN f \subseteq S
                                   /\ \A x \in DOMAIN f : f[x] \in T
<1>1. ASSUME f \in Partial(S, T)
      PROVE  f = [x \in DOMAIN f |-> f[x]] /\ DOMAIN f \subseteq S /\ \A x \in DOMAIN f : f[x] \in T
  <2>1. PICK R \in SUBSET S : f \in [R -> T]
    BY <1>1 DEF Partial
  <2>2. QED
    BY <2>1
<1>2. ASSUME f = [x \in DOMAIN f |-> f[x]], DOMAIN f \subseteq S, \A x \in DOMAIN f : f[x] \in T
      PROVE  f \in Partial(S, T)
  <2>1. f \in [DOMAIN f -> T]
    BY <1>2
  <2>2. DOMAIN f \in SUBSET S
    BY <1>2
  <2>3. QED
    BY <2>1, <2>2 DEF Partial
<1>3. QED
  BY <1>1, <1>2

\* Creating, changing and deleting a record.
LEMMA PartialKept ==
    ASSUME NEW S, NEW T, NEW f \in Partial(S, T), NEW x \in S, NEW v \in T
    PROVE  /\ With(f, x, v) \in Partial(S, T)
           /\ x \in DOMAIN f => [f EXCEPT ![x] = v] \in Partial(S, T)
           /\ [y \in DOMAIN f \ {x} |-> f[y]] \in Partial(S, T)
<1>1. DOMAIN f \subseteq S /\ \A y \in DOMAIN f : f[y] \in T
  BY PartialIs
<1>2. With(f, x, v) \in Partial(S, T)
  <2> DEFINE g == With(f, x, v)
  <2>1. /\ g = [y \in DOMAIN g |-> g[y]]
        /\ DOMAIN g = DOMAIN f \cup {x}
        /\ \A y \in DOMAIN g : g[y] = IF y = x THEN v ELSE f[y]
    BY DEF With
  <2> HIDE DEF g
  <2>2. QED
    BY <1>1, <2>1, PartialIs DEF g
<1>3. ASSUME x \in DOMAIN f PROVE [f EXCEPT ![x] = v] \in Partial(S, T)
  <2> DEFINE g == [f EXCEPT ![x] = v]
  <2>1. /\ g = [y \in DOMAIN g |-> g[y]]
        /\ DOMAIN g = DOMAIN f
        /\ \A y \in DOMAIN g : g[y] = IF y = x THEN v ELSE f[y]
    OBVIOUS
  <2> HIDE DEF g
  <2>2. QED
    BY <1>1, <2>1, PartialIs DEF g
<1>4. [y \in DOMAIN f \ {x} |-> f[y]] \in Partial(S, T)
  <2> DEFINE g == [y \in DOMAIN f \ {x} |-> f[y]]
  <2>1. /\ g = [y \in DOMAIN g |-> g[y]]
        /\ DOMAIN g = DOMAIN f \ {x}
        /\ \A y \in DOMAIN g : g[y] = f[y]
    OBVIOUS
  <2> HIDE DEF g
  <2>2. QED
    BY <1>1, <2>1, PartialIs DEF g
<1>5. QED
  BY <1>2, <1>3, <1>4

\* A handler that begins takes one free slot.
LEMMA BeginIs ==
    ASSUME NEW ts, DOMAIN ts = Slots, HasRoom(ts), NEW e
    PROVE  \E i \in Slots : /\ ts[i].at = "idle"
                            /\ DOMAIN Begin(ts, e) = Slots
                            /\ \A k \in Slots : Begin(ts, e)[k] = IF k = i THEN e ELSE ts[k]
<1>1. Free(ts) \in SUBSET Nat /\ Free(ts) # {} /\ \A k \in Free(ts) : k \in Slots /\ ts[k].at = "idle"
  BY MaxTasksAssumption DEF HasRoom, Free, Running, Slots
<1>2. PICK i \in Free(ts) : Begin(ts, e) = [ts EXCEPT ![i] = e]
  <2>1. \E k \in Free(ts) : \A j \in Free(ts) : k <= j
    <3>1. PICK k \in Free(ts) : \A j \in Free(ts) : ~(<<j, k>> \in OpToRel(<, Nat))
      BY <1>1, NatLessThanWellFounded, WFMin
    <3>2. \A m, n \in Nat : m < n => <<m, n>> \in OpToRel(<, Nat)
      BY DEF OpToRel
    <3>3. \A j \in Free(ts) : j \in Nat /\ k \in Nat /\ ~(j < k)
      BY <1>1, <3>1, <3>2
    <3>4. QED
      BY <3>3
  <2>2. (CHOOSE k \in Free(ts) : \A j \in Free(ts) : k <= j) \in Free(ts)
    BY <2>1
  <2>3. QED
    BY <2>2 DEF Begin
<1>3. QED
  BY <1>1, <1>2

\* A handler that runs is not idle.
LEMMA AsksIs ==
    ASSUME NEW at, NEW arg, NEW q, Asks(at, arg, q)
    PROVE  at \in Places /\ at # "idle"
  BY DEF Asks, Places, DetailsPlaces, PanelPlaces, FormPlaces

\* A handler that has sent its requests, when it begins or goes on.
Handler(at, arg, q, live) == [at |-> at, arg |-> arg, sent |-> q, got |-> <<>>, live |-> live]
LEMMA NewTask ==
    ASSUME NEW at, NEW arg, NEW q, NEW live \in BOOLEAN, Asks(at, arg, q)
    PROVE  GoodTask(Handler(at, arg, q, live))
<1> DEFINE t == Handler(at, arg, q, live)
<1>1. /\ t = [at |-> t.at, arg |-> t.arg, sent |-> t.sent, got |-> t.got, live |-> t.live]
      /\ t.at = at /\ t.arg = arg /\ t.sent = q /\ t.got = <<>> /\ t.live = live
  BY DEF Handler
<1>2. DOMAIN <<>> = {}
  OBVIOUS
<1> HIDE DEF t
<1>3. t.sent \cup DOMAIN t.got = q
  BY <1>1, <1>2
<1>4. GoodTask(t)
  BY <1>1, <1>2, <1>3 DEF GoodTask
<1>5. QED
  BY <1>4 DEF t

\* A handler that runs.
LEMMA BusyIs ==
    ASSUME NEW t, GoodTask(t), t.at # "idle" \/ t.sent # {} \/ DOMAIN t.got # {} \/ t.live
    PROVE  /\ t = [at |-> t.at, arg |-> t.arg, sent |-> t.sent, got |-> t.got, live |-> t.live]
           /\ t.live \in BOOLEAN /\ t.sent \cap DOMAIN t.got = {}
           /\ Asks(t.at, t.arg, t.sent \cup DOMAIN t.got) /\ t.at \in Places /\ t.at # "idle"
           /\ \A r \in DOMAIN t.got : GoodAnswer(r, t.got[r])
<1>1. Idle.at = "idle" /\ Idle.sent = {} /\ Idle.got = <<>> /\ ~Idle.live /\ DOMAIN <<>> = {}
  BY DEF Idle
<1>2. t # Idle
  BY <1>1
<1>3. QED
  BY <1>2, AsksIs DEF GoodTask

\* A slot without a handler.
LEMMA IdleIs ==
    /\ GoodTask(Idle) /\ Idle.at = "idle" /\ Idle.sent = {} /\ DOMAIN Idle.got = {} /\ ~Idle.live
    /\ \A t : GoodTask(t) /\ t.at = "idle" => t = Idle
<1>1. DOMAIN <<>> = {}
  OBVIOUS
<1>2. QED
  BY <1>1, AsksIs DEF GoodTask, Idle

\* A handler whose requests have all been answered with data.
LEMMA Answers ==
    ASSUME NEW t, GoodTask(t), t.at # "idle", t.sent = {}
    PROVE  /\ Asks(t.at, t.arg, DOMAIN t.got)
           /\ ~Threw(t) => \A r \in DOMAIN t.got : t.got[r].ok /\ Tells(r, Data(t, r))
<1>1. Asks(t.at, t.arg, t.sent \cup DOMAIN t.got) /\ \A r \in DOMAIN t.got : GoodAnswer(r, t.got[r])
  BY BusyIs
<1>2. ~Failure.ok
  BY DEF Failure
<1>3. QED
  BY <1>1, <1>2 DEF Threw, Data, GoodAnswer

\* A handler that goes on after an await.
LEMMA GoesOnAs ==
    ASSUME NEW t, t = [at |-> t.at, arg |-> t.arg, sent |-> t.sent, got |-> t.got, live |-> t.live],
           NEW at, NEW q
    PROVE  [t EXCEPT !.at = at, !.sent = q, !.got = <<>>] = Handler(at, t.arg, q, t.live)
<1> DEFINE a == [t EXCEPT !.at = at]
           b == [a EXCEPT !.sent = q]
<1>1. a = [at |-> at, arg |-> t.arg, sent |-> t.sent, got |-> t.got, live |-> t.live]
  OBVIOUS
<1> HIDE DEF a
<1>2. b = [at |-> at, arg |-> t.arg, sent |-> q, got |-> t.got, live |-> t.live]
  BY <1>1
<1> HIDE DEF b
<1>3. [b EXCEPT !.got = <<>>] = [at |-> at, arg |-> t.arg, sent |-> q, got |-> <<>>, live |-> t.live]
  BY <1>2
<1>4. QED
  BY <1>3, Zenon DEF a, b, Handler

\* A handler that goes on changes nothing but its own slot.
LEMMA GoesOn ==
    ASSUME NEW ts, GoodTasks(ts), NEW k \in Slots, ts[k].at # "idle", NEW at, NEW q
    PROVE  Goto(ts, k, at, q) = [ts EXCEPT ![k] = Handler(at, ts[k].arg, q, ts[k].live)]
<1>1. PICK t : t = ts[k]
  OBVIOUS
<1>2. t = [at |-> t.at, arg |-> t.arg, sent |-> t.sent, got |-> t.got, live |-> t.live]
  BY <1>1, BusyIs DEF GoodTasks
<1>3. [t EXCEPT !.at = at, !.sent = q, !.got = <<>>] = Handler(at, t.arg, q, t.live)
  BY <1>2, GoesOnAs, Zenon
<1>4. QED
  BY <1>1, <1>3, Zenon DEF Goto

\* What the effect of tab t begins with agent u in the URL.
LEMMA EffectIs ==
    ASSUME NEW t \in Tabs, NEW u \in Urls, NEW temp \in BOOLEAN, NEW e, e = EffectOf(t, u, temp)
    PROVE  /\ GoodTask(e) /\ (e = Idle <=> t = "credentials" /\ u = None)
           /\ e # Idle => e.live /\ DOMAIN e.got = {} /\ e.at # "idle" /\ e.at \in PlacesOf(t)
           /\ t = "Agents" => e.at = "load"
           /\ t \in Panels => e.at \in PanelPlaces /\ e.arg.kind = t /\ e.arg.id = u
           /\ t \in Panels /\ u # None => e.at = "panelLoad"
<1>1. ASSUME NEW at, NEW arg, NEW q, e = Task(at, arg, q), Asks(at, arg, q)
      PROVE  GoodTask(e) /\ e # Idle /\ e.live /\ DOMAIN e.got = {} /\ e.at = at /\ e.at # "idle" /\ e.arg = arg
  <2>1. e = Handler(at, arg, q, TRUE) /\ at # "idle" /\ TRUE \in BOOLEAN
    BY <1>1, AsksIs DEF Task, Handler
  <2>2. GoodTask(e)
    BY <1>1, <2>1, NewTask
  <2>3. e.live /\ e.got = <<>> /\ e.at = at /\ e.arg = arg /\ DOMAIN <<>> = {}
    BY <2>1 DEF Handler
  <2>4. QED
    BY <2>1, <2>2, <2>3, IdleIs
<1>2. CASE t = "Agents"
  <2> DEFINE arg == [id |-> u, temp |-> temp]
  <2>1. e = Task("load", arg, {getAllAgents})
    BY <1>2 DEF EffectOf, DetailsLoad
  <2>2. Asks("load", arg, {getAllAgents})
    BY DEF Asks
  <2>3. QED
    BY <1>1, <1>2, <2>1, <2>2 DEF PlacesOf, DetailsPlaces, Panels
<1>3. CASE t \in Panels
  <2> DEFINE arg == [kind |-> t, id |-> u]
  <2>1. e = PanelLoad(t, u)
    BY <1>3 DEF EffectOf, Panels, PluginsLoad, TopicsLoad
  <2>2. CASE u = None
    <3>1. e = Task("panelList", arg, {getAllAgents})
      BY <2>1, <2>2 DEF PanelLoad
    <3>2. Asks("panelList", arg, {getAllAgents})
      BY <1>3, <2>2 DEF Asks
    <3>3. QED
      BY <1>1, <1>3, <2>2, <3>1, <3>2 DEF PlacesOf, PanelPlaces, Panels
  <2>3. CASE u # None
    <3> DEFINE q == {getAllAgents, getAgentById(u), assignedItems(t, u)}
    <3>1. e = Task("panelLoad", arg, q)
      BY <2>1, <2>3 DEF PanelLoad
    <3>2. Asks("panelLoad", arg, q)
      BY <1>3, <2>3 DEF Asks, Urls
    <3> HIDE DEF q
    <3>3. QED
      BY <1>1, <1>3, <2>3, <3>1, <3>2 DEF PlacesOf, PanelPlaces, Panels
  <2>4. QED
    BY <2>2, <2>3
<1>4. CASE t = "credentials"
  <2>1. CASE u = None
    BY <1>4, <2>1, IdleIs DEF EffectOf, Panels
  <2>2. CASE u # None
    <3>1. e = Task("credentials", [id |-> u], {getAgentById(u)})
      BY <1>4, <2>2 DEF EffectOf, CredentialsLoad
    <3>2. Asks("credentials", [id |-> u], {getAgentById(u)})
      BY <2>2 DEF Asks, Urls
    <3>3. QED
      BY <1>1, <1>4, <2>2, <3>1, <3>2 DEF PlacesOf, Panels
  <2>3. QED
    BY <2>1, <2>2
<1>5. QED
  BY <1>2, <1>3, <1>4 DEF Tabs

-----------------------------------------------------------------------------
(* Rendering.                                                              *)

\* A tab that goes takes its readers with it; its other handlers go on.
LEMMA UnmountedIs ==
    ASSUME NEW ts, GoodTasks(ts)
    PROVE  /\ GoodTasks(Unmounted(ts))
           /\ \A k \in Slots : ts[k].at = "idle" => Unmounted(ts)[k] = Idle
<1>1. ASSUME NEW k \in Slots
      PROVE  GoodTask(Unmounted(ts)[k]) /\ (ts[k].at = "idle" => Unmounted(ts)[k] = Idle)
  <2> DEFINE t == Unmounted(ts)[k]
             o == ts[k]
  <2>1. t = IF o.at \in OnlyReads THEN Idle ELSE [o EXCEPT !.live = FALSE]
    BY DEF Unmounted
  <2>2. GoodTask(o)
    BY DEF GoodTasks
  <2> HIDE DEF t, o
  <2>3. CASE o.at \in OnlyReads
    BY <2>1, <2>3, IdleIs DEF OnlyReads, o, t
  <2>4. CASE o.at = "idle"
    <3>1. o = Idle /\ t = [o EXCEPT !.live = FALSE]
      BY <2>1, <2>2, <2>4, IdleIs DEF OnlyReads
    <3>2. t = Idle
      BY <3>1 DEF Idle
    <3>3. QED
      BY <3>2, IdleIs DEF t
  <2>5. CASE o.at \notin OnlyReads /\ o.at # "idle"
    <3>1. /\ o = [at |-> o.at, arg |-> o.arg, sent |-> o.sent, got |-> o.got, live |-> o.live]
          /\ o.sent \cap DOMAIN o.got = {}
          /\ Asks(o.at, o.arg, o.sent \cup DOMAIN o.got)
          /\ \A r \in DOMAIN o.got : GoodAnswer(r, o.got[r])
      BY <2>2, <2>5, BusyIs
    <3>2. /\ t = [at |-> t.at, arg |-> t.arg, sent |-> t.sent, got |-> t.got, live |-> t.live]
          /\ t.at = o.at /\ t.arg = o.arg /\ t.sent = o.sent /\ t.got = o.got /\ t.live = FALSE
      BY <2>1, <2>5, <3>1
    <3>3. GoodTask(t)
      BY <3>1, <3>2 DEF GoodTask
    <3>4. QED
      BY <2>5, <3>3 DEF o, t
  <2>6. QED
    BY <2>3, <2>4, <2>5
<1>2. DOMAIN Unmounted(ts) = Slots
  BY DEF Unmounted
<1>3. QED
  BY <1>1, <1>2 DEF GoodTasks

\* Whether the effect of the tab runs when the page is rendered with details s and the
\* agent u in the URL, and the handlers ts that go on then.
Reloads(s, u) == u # url \/ (tab = "Agents" /\ s.temp # details.temp)
Kept(s, u, ts) == IF Reloads(s, u) /\ tab = "credentials" THEN Unmounted(ts) ELSE ts

\* The page after rendering.
LEMMA RenderIs ==
    ASSUME tab \in Tabs, NEW d, GoodDetails(d), NEW p \in PanelType, NEW u \in Urls, NEW ts, GoodTasks(ts),
           Render(d, p, u, ts), NEW e, e = EffectOf(tab, u, d.temp)
    PROVE  /\ url' = u
           /\ details' = [agents |-> d.agents, selected |-> d.selected, temp |-> d.temp, form |-> d.form,
                          loading |-> d.loading \/ (Reloads(d, u) /\ tab = "Agents"), confirm |-> d.confirm]
           /\ panel' = [agents |-> p.agents, agent |-> p.agent, assigned |-> p.assigned, available |-> p.available,
                        loading |-> p.loading \/ (Reloads(d, u) /\ tab \in Panels), confirm |-> p.confirm,
                        form |-> p.form, submitting |-> p.submitting]
           /\ GoodDetails(details') /\ panel' \in PanelType /\ GoodTasks(tasks')
           /\ \E i \in Slots \cup {0} :
                 /\ i = 0 <=> ~Reloads(d, u) \/ e = Idle
                 /\ \A k \in Slots : tasks'[k] = IF k = i THEN e ELSE Kept(d, u, ts)[k]
                 /\ \A k \in Slots : k = i => Kept(d, u, ts)[k].at = "idle"
<1> DEFINE R == Reloads(d, u)
           kept == Kept(d, u, ts)
<1>1. d \in DetailsType /\ Meant(d.selected, d.form)
  BY DEF GoodDetails
<1>2. url' = u /\ details' = [d EXCEPT !.loading = @ \/ (R /\ tab = "Agents")]
      /\ panel' = [p EXCEPT !.loading = @ \/ (R /\ tab \in Panels)]
  BY DEF Render, Reloads
<1>3. /\ R /\ e # Idle => HasRoom(kept) /\ tasks' = Begin(kept, e)
      /\ ~R \/ e = Idle => tasks' = kept
  BY DEF Render, Reloads, Kept
<1>4. GoodTasks(kept)
  BY UnmountedIs DEF Kept
<1>5. GoodTask(e)
  BY <1>1, EffectIs DEF DetailsType
<1> HIDE DEF R, kept
<1>6. PICK b \in BOOLEAN : b = (d.loading \/ (R /\ tab = "Agents"))
  OBVIOUS
<1>7. details' = [agents |-> d.agents, selected |-> d.selected, temp |-> d.temp, form |-> d.form,
                  loading |-> b, confirm |-> d.confirm]
  BY <1>1, <1>2, <1>6 DEF DetailsType
<1>8. PICK c \in BOOLEAN : c = (p.loading \/ (R /\ tab \in Panels))
  OBVIOUS
<1>9. panel' = [agents |-> p.agents, agent |-> p.agent, assigned |-> p.assigned, available |-> p.available,
                loading |-> c, confirm |-> p.confirm, form |-> p.form, submitting |-> p.submitting]
  BY <1>2, <1>8 DEF PanelType
<1>10. GoodDetails(details') /\ panel' \in PanelType
  BY <1>1, <1>7, <1>9 DEF GoodDetails, DetailsType, PanelType
<1>11. PICK i \in Slots \cup {0} :
          /\ i = 0 <=> ~R \/ e = Idle
          /\ DOMAIN tasks' = Slots
          /\ \A k \in Slots : tasks'[k] = IF k = i THEN e ELSE kept[k]
          /\ \A k \in Slots : k = i => kept[k].at = "idle"
  <2>1. 0 \notin Slots /\ DOMAIN kept = Slots
    BY <1>4 DEF Slots, GoodTasks
  <2>2. CASE ~R \/ e = Idle
    BY <1>3, <2>1, <2>2
  <2>3. CASE R /\ e # Idle
    <3>1. HasRoom(kept) /\ tasks' = Begin(kept, e)
      BY <1>3, <2>3
    <3>2. PICK i \in Slots : /\ kept[i].at = "idle" /\ DOMAIN Begin(kept, e) = Slots
                             /\ \A k \in Slots : Begin(kept, e)[k] = IF k = i THEN e ELSE kept[k]
      BY <2>1, <3>1, BeginIs
    <3>3. QED
      BY <2>1, <2>3, <3>1, <3>2
  <2>4. QED
    BY <2>2, <2>3
<1>12. GoodTasks(tasks')
  BY <1>4, <1>5, <1>11 DEF GoodTasks
<1>13. QED
  BY <1>2, <1>6, <1>7, <1>8, <1>9, <1>10, <1>11, <1>12, Zenon DEF R, kept

\* Spinners go on turning, and those of the fetch begin.
LEMMA RenderSpins ==
    ASSUME tab \in Tabs, NEW d, GoodDetails(d), NEW p \in PanelType, NEW u \in Urls, NEW ts, GoodTasks(ts),
           Render(d, p, u, ts), Spins(tab, d, p, ts)
    PROVE  Spins(tab, details', panel', tasks')
<1> DEFINE e == EffectOf(tab, u, d.temp)
           R == Reloads(d, u)
<1>1. /\ details'.loading = (d.loading \/ (R /\ tab = "Agents"))
      /\ panel'.loading = (p.loading \/ (R /\ tab \in Panels)) /\ panel'.submitting = p.submitting
  BY RenderIs
<1>2. PICK i \in Slots \cup {0} :
          /\ i = 0 <=> ~R \/ e = Idle
          /\ \A k \in Slots : tasks'[k] = IF k = i THEN e ELSE Kept(d, u, ts)[k]
          /\ \A k \in Slots : k = i => Kept(d, u, ts)[k].at = "idle"
  BY RenderIs
<1>3. d.temp \in BOOLEAN
  BY DEF GoodDetails, DetailsType
<1>4. /\ e = Idle <=> tab = "credentials" /\ u = None
      /\ e # Idle => e.live
      /\ tab = "Agents" => e.at = "load"
      /\ tab \in Panels => e.at \in PanelPlaces
  BY <1>3, EffectIs
<1> HIDE DEF e, R
<1>5. ASSUME NEW places, "idle" \notin places, Turns(ts, places), tab # "credentials" PROVE Turns(tasks', places)
  <2>1. PICK k \in Slots : ts[k].at \in places /\ ts[k].live
    BY <1>5 DEF Turns
  <2>2. Kept(d, u, ts) = ts
    BY <1>5 DEF Kept
  <2>3. tasks'[k] = ts[k]
    BY <1>2, <1>5, <2>1, <2>2
  <2>4. QED
    BY <2>1, <2>3 DEF Turns
<1>6. R /\ tab # "credentials" => i \in Slots /\ tasks'[i] = e /\ e.live
  BY <1>2, <1>4
<1>7. ASSUME tab = "Agents", details'.loading PROVE Turns(tasks', DetailsPlaces)
  <2>1. CASE d.loading
    <3>1. Turns(ts, DetailsPlaces) /\ "idle" \notin DetailsPlaces
      BY <1>7, <2>1 DEF Spins, DetailsPlaces
    <3>2. QED
      BY <1>5, <1>7, <3>1
  <2>2. CASE R
    BY <1>4, <1>6, <1>7, <2>2 DEF Turns, DetailsPlaces
  <2>3. QED
    BY <1>1, <1>7, <2>1, <2>2
<1>8. ASSUME tab \in Panels, panel'.loading PROVE Turns(tasks', PanelPlaces)
  <2>1. tab # "credentials"
    BY <1>8 DEF Panels
  <2>2. CASE p.loading
    <3>1. Turns(ts, PanelPlaces) /\ "idle" \notin PanelPlaces
      BY <1>8, <2>2 DEF Spins, PanelPlaces
    <3>2. QED
      BY <1>5, <2>1, <3>1
  <2>3. CASE R
    BY <1>4, <1>6, <1>8, <2>1, <2>3 DEF Turns
  <2>4. QED
    BY <1>1, <1>8, <2>2, <2>3
<1>9. ASSUME panel'.submitting PROVE tab = "topics" /\ Turns(tasks', FormPlaces)
  <2>1. tab = "topics" /\ Turns(ts, FormPlaces) /\ "idle" \notin FormPlaces
    BY <1>1, <1>9 DEF Spins, FormPlaces
  <2>2. QED
    BY <1>5, <2>1
<1>10. QED
  BY <1>7, <1>8, <1>9 DEF Spins

\* What a patient user may rely on before details s and panel p are rendered with handlers
\* ts: where the effect of the tab does not run again, what is shown is so already.
Ready(s, p, u, ts) ==
    /\ Single(tab, u, ts) /\ Fresh(db, ts) /\ Chosen(db, tab, s, ts) /\ Counted(db, s, ts, drafts')
    /\ IF Reloads(s, u) THEN \A k \in Slots : ts[k].at # "idle" => tab = "Agents" /\ ts[k].at \in MayOverlap
       ELSE Current(db, tab, u, s, p, ts)

\* Rendering keeps what a patient user sees.
LEMMA RenderCalm ==
    ASSUME tab \in Tabs, GoodDb(db), NEW d, GoodDetails(d), NEW p \in PanelType, NEW u \in Urls, NEW ts, GoodTasks(ts),
           Render(d, p, u, ts), Ready(d, p, u, ts), UNCHANGED <<db, tab>>
    PROVE  Calm(db, tab, url, details, panel, tasks, drafts)'
<1> DEFINE e == EffectOf(tab, u, d.temp)
           R == Reloads(d, u)
<1>1. /\ url' = u /\ details'.agents = d.agents /\ details'.selected = d.selected /\ details'.temp = d.temp
      /\ d.loading => details'.loading
      /\ panel'.agent = p.agent /\ panel'.assigned = p.assigned
  <2>1. PICK b : details' = [agents |-> d.agents, selected |-> d.selected, temp |-> d.temp, form |-> d.form,
                             loading |-> d.loading \/ b, confirm |-> d.confirm]
    BY RenderIs
  <2>2. PICK c : panel' = [agents |-> p.agents, agent |-> p.agent, assigned |-> p.assigned, available |-> p.available,
                           loading |-> p.loading \/ c, confirm |-> p.confirm,
                           form |-> p.form, submitting |-> p.submitting]
    BY RenderIs
  <2>3. url' = u
    BY RenderIs
  <2>4. QED
    BY <2>1, <2>2, <2>3
<1>2. PICK i \in Slots \cup {0} :
          /\ i = 0 <=> ~R \/ e = Idle
          /\ \A k \in Slots : tasks'[k] = IF k = i THEN e ELSE Kept(d, u, ts)[k]
          /\ \A k \in Slots : k = i => Kept(d, u, ts)[k].at = "idle"
  BY RenderIs
<1>3. d.temp \in BOOLEAN
  BY DEF GoodDetails, DetailsType
<1>4. /\ e = Idle <=> tab = "credentials" /\ u = None
      /\ e # Idle => e.live /\ DOMAIN e.got = {} /\ e.at # "idle" /\ e.at \in PlacesOf(tab)
      /\ tab = "Agents" => e.at = "load"
      /\ tab \in Panels => e.at \in PanelPlaces /\ e.arg.kind = tab /\ e.arg.id = u
      /\ tab \in Panels /\ u # None => e.at = "panelLoad"
  BY <1>3, EffectIs
<1>5. i \in Slots => e # Idle /\ R
  BY <1>2 DEF Slots
<1> HIDE DEF e, R
<1>6. /\ Single(tab, u, ts) /\ Fresh(db, ts) /\ Chosen(db, tab, d, ts) /\ Counted(db, d, ts, drafts')
      /\ R => \A k \in Slots : ts[k].at # "idle" => tab = "Agents" /\ ts[k].at \in MayOverlap
      /\ ~R => Current(db, tab, u, d, p, ts)
  BY DEF Ready, R
\* The handlers go on, but for the one that begins.
<1>7. ASSUME NEW k \in Slots, k # i PROVE tasks'[k] = ts[k]
  <2>1. tasks'[k] = Kept(d, u, ts)[k]
    BY <1>2, <1>7
  <2>2. CASE R /\ tab = "credentials"
    <3>1. ts[k].at = "idle"
      BY <1>6, <2>2
    <3>2. ts[k] = Idle /\ Unmounted(ts)[k] = Idle
      BY <3>1, UnmountedIs, IdleIs DEF GoodTasks
    <3>3. QED
      BY <2>1, <2>2, <3>2 DEF Kept, R
  <2>3. CASE ~(R /\ tab = "credentials")
    BY <2>1, <2>3 DEF Kept, R
  <2>4. QED
    BY <2>2, <2>3
<1>8. i \in Slots => tasks'[i] = e
  BY <1>2
<1>9. ASSUME NEW k \in Slots, ts[k].at # "idle" PROVE tasks'[k] = ts[k]
  <2>1. CASE k # i
    BY <1>7, <2>1
  <2>2. CASE k = i
    <3>1. Kept(d, u, ts)[k].at = "idle"
      BY <1>2, <2>2
    <3>2. tab = "Agents"
      BY <1>5, <1>6, <1>9, <2>2
    <3>3. Kept(d, u, ts) = ts
      BY <3>2 DEF Kept
    <3>4. QED
      BY <1>9, <3>1, <3>3
  <2>3. QED
    BY <2>1, <2>2
<1>10. Single(tab, u, tasks')
  <2>1. ASSUME NEW k \in Slots, tasks'[k].at # "idle"
        PROVE  /\ tasks'[k].at \in PlacesOf(tab) /\ tasks'[k].live
               /\ tab \in Panels => tasks'[k].arg.kind = tab /\ tasks'[k].arg.id = u
    <3>1. CASE k = i
      BY <1>4, <1>5, <1>8, <3>1
    <3>2. CASE k # i
      BY <1>6, <1>7, <2>1, <3>2 DEF Single
    <3>3. QED
      BY <3>1, <3>2
  <2>2. ASSUME NEW j \in Slots, NEW k \in Slots,
               tasks'[j].at \notin MayOverlap \cup {"idle"}, tasks'[k].at # "idle"
        PROVE  j = k
    <3>1. CASE R
      <4>1. ASSUME NEW l \in Slots, l # i PROVE tasks'[l].at = "idle" \/ (tab = "Agents" /\ tasks'[l].at \in MayOverlap)
        BY <1>6, <1>7, <3>1, <4>1
      <4>2. j = i
        BY <2>2, <4>1
      <4>3. tab # "Agents"
        BY <1>4, <1>8, <2>2, <4>2 DEF MayOverlap
      <4>4. k = i
        BY <2>2, <4>1, <4>3
      <4>5. QED
        BY <4>2, <4>4
    <3>2. CASE ~R
      <4>1. j # i /\ k # i
        BY <1>5, <3>2
      <4>2. QED
        BY <1>6, <1>7, <2>2, <4>1 DEF Single
    <3>3. QED
      BY <3>1, <3>2
  <2>3. QED
    BY <2>1, <2>2 DEF Single
<1>11. Fresh(db, tasks')
  <2>1. ASSUME NEW k \in Slots, NEW r \in DOMAIN tasks'[k].got PROVE tasks'[k] = ts[k]
    BY <1>4, <1>5, <1>7, <1>8
  <2>2. QED
    BY <1>6, <2>1, Zenon DEF Fresh
<1>12. Chosen(db, tab, details', tasks')
  <2>1. \A k \in Slots : ts[k].at = "drop" => tasks'[k] = ts[k]
    BY <1>9
  <2>2. QED
    BY <1>1, <1>6, <2>1 DEF Chosen
<1>13. Current(db, tab, u, details', panel', tasks')
  <2>1. CASE ~R
    <3>1. \A k \in Slots : tasks'[k] = ts[k]
      BY <1>5, <1>7, <2>1
    <3>2. Lists(tasks') = Lists(ts) /\ Assigns(tasks') = Assigns(ts)
      BY <3>1 DEF Lists, Assigns
    <3>3. QED
      BY <1>1, <1>6, <2>1, <3>1, <3>2 DEF Current
  <2>2. CASE R /\ tab = "Agents"
    <3>1. i \in Slots
      BY <1>2, <1>4, <2>2
    <3>2. Lists(tasks')
      BY <1>4, <1>8, <2>2, <3>1 DEF Lists
    <3>3. tab \notin Panels
      BY <2>2 DEF Panels
    <3>4. QED
      BY <3>2, <3>3 DEF Current
  <2>3. CASE R /\ tab \in Panels
    <3>1. i \in Slots /\ tab # "Agents"
      BY <1>2, <1>4, <2>3 DEF Panels
    <3>2. u \in DOMAIN db.agents => u # None
      <4>1. DOMAIN db.agents \subseteq Agents
        BY PartialIs DEF GoodDb
      <4>2. QED
        BY <4>1, AgentsAssumption
    <3>3. u # None => Assigns(tasks') /\ \E k \in Slots : tasks'[k].at = "panelLoad"
      BY <1>4, <1>8, <2>3, <3>1 DEF Assigns
    <3>4. QED
      BY <3>1, <3>2, <3>3 DEF Current
  <2>4. CASE tab = "credentials"
    BY <2>4 DEF Current, Panels
  <2>5. QED
    BY <2>1, <2>2, <2>3, <2>4 DEF Tabs
<1>14. Counted(db, details', tasks', drafts')
  <2>1. ASSUME NEW k \in Slots, tasks'[k].at = "save" PROVE tasks'[k] = ts[k] /\ ~R
    <3>1. k # i
      <4>1. CASE tab = "Agents"
        BY <1>4, <1>8, <2>1, <4>1
      <4>2. CASE tab # "Agents"
        <5>1. "save" \notin PlacesOf(tab)
          BY <4>2 DEF PlacesOf, PanelPlaces, FormPlaces
        <5>2. QED
          BY <1>4, <1>5, <1>8, <2>1, <5>1
      <4>3. QED
        BY <4>1, <4>2
    <3>2. tasks'[k] = ts[k]
      BY <1>7, <3>1
    <3>3. QED
      BY <1>6, <2>1, <3>2 DEF MayOverlap
  <2>2. \A k \in Slots : ts[k].at = "save" => tasks'[k] = ts[k]
    BY <1>9
  <2>3. QED
    BY <1>1, <1>6, <2>1, <2>2 DEF Counted
<1>15. QED
  BY <1>1, <1>10, <1>11, <1>12, <1>13, <1>14 DEF Calm

\* A step that renders the page keeps the invariant.
LEMMA RenderKeeps ==
    ASSUME PageInv, NEW d, GoodDetails(d), NEW p \in PanelType, NEW u \in Urls, NEW ts, GoodTasks(ts),
           Render(d, p, u, ts), UNCHANGED <<db, tab, failed>>, Spins(tab, d, p, ts),
           ~hasty' /\ ~failed => Ready(d, p, u, ts)
    PROVE  PageInv'
<1>1. tab \in Tabs /\ GoodDb(db)
  BY DEF PageInv, TypeInv
<1>2. GoodDetails(details') /\ panel' \in PanelType /\ GoodTasks(tasks') /\ url' = u
  BY <1>1, RenderIs
<1>3. TypeInv'
  <2>1. GoodDb(db') /\ url' \in Urls /\ tab' \in Tabs
    BY <1>1, <1>2
  <2>2. QED
    BY <1>2, <2>1 DEF TypeInv, GoodDb, GoodDetails, GoodTasks
<1>4. SpinInv'
  BY <1>1, RenderSpins DEF SpinInv
<1>5. CalmInv'
  BY <1>1, RenderCalm DEF CalmInv
<1>6. QED
  BY <1>3, <1>4, <1>5 DEF PageInv

-----------------------------------------------------------------------------
(* Clicks.                                                                 *)

\* The tabs as they are mounted.
LEMMA EmptyTabs ==
    /\ GoodDetails(NoDetails) /\ NoDetails.temp = FALSE /\ NoDetails.selected = None
    /\ NoPanel \in PanelType /\ ~NoPanel.submitting
<1>1. Blank \notin Initially /\ None \notin Initially
  BY AgentsAssumption
<1>2. NoDetails \in DetailsType /\ Meant(NoDetails.selected, NoDetails.form)
  BY <1>1 DEF NoDetails, EmptyForm, DetailsType, Forms, Ids, Meant
<1>3. QED
  BY <1>2 DEF NoDetails, NoPanel, PanelType, GoodDetails, Urls

\* Another tab begins with its fetch.
LEMMA MountKeeps ==
    ASSUME PageInv, NEW t \in Tabs, NEW u \in Urls, Mount(t, u), UNCHANGED <<db, failed, drafts>>,
           ~hasty' => ~hasty /\ Running(tasks) = {}
    PROVE  PageInv'
<1> DEFINE e == EffectOf(t, u, FALSE)
           kept == Unmounted(tasks)
<1>1. /\ e # Idle => HasRoom(kept) /\ tasks' = Begin(kept, e)
      /\ e = Idle => tasks' = kept
      /\ tab' = t /\ url' = u /\ details' = NoDetails /\ panel' = NoPanel
  BY DEF Mount
<1>2. /\ GoodTask(e) /\ (e = Idle <=> t = "credentials" /\ u = None)
      /\ e # Idle => e.live /\ DOMAIN e.got = {} /\ e.at # "idle" /\ e.at \in PlacesOf(t)
      /\ t = "Agents" => e.at = "load"
      /\ t \in Panels => e.at \in PanelPlaces /\ e.arg.kind = t /\ e.arg.id = u
      /\ t \in Panels /\ u # None => e.at = "panelLoad"
  <2>1. PICK b \in BOOLEAN : b = FALSE
    OBVIOUS
  <2>2. e = EffectOf(t, u, b)
    BY <2>1, Zenon
  <2> HIDE DEF e
  <2>3. QED
    BY <2>2, EffectIs
<1>3. GoodTasks(kept) /\ \A k \in Slots : tasks[k].at = "idle" => kept[k] = Idle
  BY UnmountedIs DEF PageInv, TypeInv
<1> HIDE DEF e, kept
<1>4. PICK i \in Slots \cup {0} :
          /\ i = 0 <=> e = Idle
          /\ DOMAIN tasks' = Slots
          /\ \A k \in Slots : tasks'[k] = IF k = i THEN e ELSE kept[k]
  <2>1. 0 \notin Slots /\ DOMAIN kept = Slots
    BY <1>3 DEF Slots, GoodTasks
  <2>2. CASE e = Idle
    BY <1>1, <2>1, <2>2
  <2>3. CASE e # Idle
    <3>1. HasRoom(kept) /\ tasks' = Begin(kept, e)
      BY <1>1, <2>3
    <3>2. PICK i \in Slots : /\ kept[i].at = "idle" /\ DOMAIN Begin(kept, e) = Slots
                             /\ \A k \in Slots : Begin(kept, e)[k] = IF k = i THEN e ELSE kept[k]
      BY <2>1, <3>1, BeginIs
    <3>3. QED
      BY <2>1, <2>3, <3>1, <3>2
  <2>4. QED
    BY <2>2, <2>3
<1>5. e # Idle => i \in Slots /\ tasks'[i] = e
  BY <1>4
<1>6. TypeInv'
  <2>1. GoodTasks(tasks')
    BY <1>2, <1>3, <1>4 DEF GoodTasks
  <2>2. GoodDb(db')
    BY DEF PageInv, TypeInv
  <2>3. QED
    BY <1>1, <2>1, <2>2, EmptyTabs DEF TypeInv, GoodDb, GoodTasks, GoodDetails
<1>7. SpinInv'
  <2>1. t = "Agents" => Turns(tasks', DetailsPlaces)
    BY <1>2, <1>5 DEF Turns, DetailsPlaces
  <2>2. t \in Panels => Turns(tasks', PanelPlaces)
    BY <1>2, <1>5 DEF Turns, Panels
  <2>3. QED
    BY <1>1, <2>1, <2>2, EmptyTabs DEF SpinInv, Spins
<1>8. CalmInv'
  <2> SUFFICES ASSUME ~hasty', ~failed' PROVE Calm(db, tab, url, details, panel, tasks, drafts)'
    BY DEF CalmInv
  <2>1. Calm(db, tab, url, details, panel, tasks, drafts)
    BY DEF PageInv, CalmInv
  <2>2. \A k \in Slots : kept[k] = Idle
    BY <1>3 DEF Running
  <2>3. \A k \in Slots : tasks'[k].at = "idle" \/ k = i
    BY <1>4, <2>2, IdleIs
  <2>4. \A k \in Slots : tasks'[k].at # "idle" => tasks'[k] = e /\ e # Idle
    BY <1>4, <2>2, <2>3, IdleIs DEF Slots
  <2>5. \A k \in Slots : DOMAIN tasks'[k].got = {}
    BY <1>2, <1>4, <2>2, IdleIs
  <2>6. Single(t, u, tasks')
    BY <1>2, <2>3, <2>4 DEF Single
  <2>7. Fresh(db, tasks')
    BY <2>5 DEF Fresh
  <2>8. Chosen(db, t, NoDetails, tasks')
    BY EmptyTabs DEF Chosen
  <2>9. Current(db, t, u, NoDetails, NoPanel, tasks')
    <3>1. t = "Agents" => Lists(tasks')
      BY <1>2, <1>5 DEF Lists
    <3>2. u \in DOMAIN db.agents => u # None
      <4>1. DOMAIN db.agents \subseteq Agents
        BY PartialIs DEF PageInv, TypeInv, GoodDb
      <4>2. QED
        BY <4>1, AgentsAssumption
    <3>3. t \in Panels /\ u # None => Assigns(tasks') /\ \E k \in Slots : tasks'[k].at = "panelLoad"
      BY <1>2, <1>5 DEF Assigns, Panels
    <3>4. QED
      BY <3>1, <3>2, <3>3 DEF Current
  <2>10. Counted(db, NoDetails, tasks', drafts)
    <3>1. \A k \in Slots : tasks'[k].at # "save"
      <4>1. e # Idle => e.at # "save"
        BY <1>2 DEF PlacesOf, PanelPlaces, FormPlaces
      <4>2. QED
        BY <2>4, <4>1
    <3>2. QED
      BY <2>1, <3>1, EmptyTabs DEF Calm, Counted
  <2>11. QED
    BY <1>1, <2>6, <2>7, <2>8, <2>9, <2>10 DEF Calm
<1>9. QED
  BY <1>6, <1>7, <1>8 DEF PageInv

\* A patient user who may click at all does so when no handler runs.
LEMMA PatientClick ==
    ASSUME PageInv, ~hasty', ~failed, Stays \/ MovesOn, tab = "Agents" => ~details.loading \/ MovesOn
    PROVE  Calm(db, tab, url, details, panel, tasks, drafts) /\ \A k \in Slots : tasks[k] = Idle
<1>1. ~hasty
  BY DEF Stays, MovesOn
<1>2. Calm(db, tab, url, details, panel, tasks, drafts)
  BY <1>1 DEF PageInv, CalmInv
<1>3. ASSUME NEW k \in Slots PROVE tasks[k].at = "idle"
  <2>1. CASE MovesOn
    BY <2>1 DEF MovesOn, Running
  <2>2. CASE Stays /\ ~MovesOn
    <3>1. tasks[k].at = "idle" \/ tasks[k].at = "save"
      BY <2>2 DEF Stays, Running
    <3>2. tasks[k].at = "save" => tab = "Agents" /\ details.loading
      BY <1>2 DEF Calm, Single, Counted, PlacesOf, PanelPlaces, FormPlaces
    <3>3. QED
      BY <2>2, <3>1, <3>2
  <2>3. QED
    BY <2>1, <2>2
<1>4. QED
  BY <1>2, <1>3, IdleIs DEF PageInv, TypeInv, GoodTasks

\* The user goes to another agent of the open tab.
LEMMA GoesTo ==
    ASSUME PageInv, NEW u \in Urls, u # url, Render(details, panel, u, tasks), MovesOn,
           UNCHANGED <<db, tab, failed, drafts>>
    PROVE  PageInv'
<1>1. GoodDetails(details) /\ panel \in PanelType /\ GoodTasks(tasks) /\ Spins(tab, details, panel, tasks)
  BY DEF PageInv, TypeInv, SpinInv
<1>2. ASSUME ~hasty', ~failed PROVE Ready(details, panel, u, tasks)
  <2>1. Calm(db, tab, url, details, panel, tasks, drafts) /\ \A k \in Slots : tasks[k] = Idle
    BY <1>2, PatientClick
  <2>2. \A k \in Slots : tasks[k].at = "idle"
    BY <2>1, IdleIs
  <2>3. Reloads(details, u)
    BY DEF Reloads
  <2>4. Single(tab, u, tasks)
    BY <2>2 DEF Single
  <2>5. QED
    BY <2>1, <2>2, <2>3, <2>4 DEF Ready, Calm
<1>3. QED
  BY <1>1, <1>2, RenderKeeps

\* What a click opens, closes or types on the open tab.
LEMMA ClickKeeps ==
    ASSUME PageInv, NEW d, GoodDetails(d), NEW p \in PanelType, Render(d, p, url, tasks),
           Stays \/ MovesOn, tab = "Agents" => ~details.loading, UNCHANGED <<db, tab, failed, drafts>>,
           d.agents = details.agents, d.selected = details.selected, d.temp = details.temp,
           d.loading => details.loading,
           p.agent = panel.agent, p.assigned = panel.assigned,
           p.loading => panel.loading, p.submitting => panel.submitting
    PROVE  PageInv'
<1>1. GoodTasks(tasks) /\ url \in Urls
  BY DEF PageInv, TypeInv
<1>2. Spins(tab, d, p, tasks)
  BY DEF PageInv, SpinInv, Spins
<1>3. ASSUME ~hasty', ~failed PROVE Ready(d, p, url, tasks)
  <2>1. Calm(db, tab, url, details, panel, tasks, drafts) /\ \A k \in Slots : tasks[k] = Idle
    BY <1>3, PatientClick
  <2>2. \A k \in Slots : tasks[k].at = "idle"
    BY <2>1, IdleIs
  <2>3. ~Reloads(d, url)
    BY DEF Reloads
  <2>4. Chosen(db, tab, d, tasks) /\ Current(db, tab, url, d, p, tasks)
    BY <2>1 DEF Calm, Chosen, Current
  <2>5. Counted(db, d, tasks, drafts')
    BY <2>1, <2>2 DEF Calm, Counted
  <2>6. QED
    BY <2>1, <2>3, <2>4, <2>5 DEF Ready, Calm
<1>4. QED
  BY <1>1, <1>2, <1>3, RenderKeeps

\* A click that begins a handler of the open tab.
LEMMA WriterKeeps ==
    ASSUME PageInv, NEW d, GoodDetails(d), NEW p \in PanelType, HasRoom(tasks),
           NEW at, NEW arg, NEW q, Asks(at, arg, q), Render(d, p, url, Begin(tasks, Task(at, arg, q))),
           Stays \/ MovesOn, tab = "Agents" => ~details.loading \/ MovesOn,
           UNCHANGED <<db, tab, failed, drafts>>,
           d.agents = details.agents, d.selected = details.selected,
           d.temp = details.temp \/ (tab = "Agents" /\ at \in MayOverlap /\ d.temp = FALSE),
           p.agent = panel.agent, p.assigned = panel.assigned,
           at \in PlacesOf(tab), tab \in Panels => arg.kind = tab /\ arg.id = url,
           tab = "Agents" /\ d.loading => details.loading \/ at \in DetailsPlaces,
           tab \in Panels /\ p.loading => panel.loading \/ at \in PanelPlaces,
           p.submitting => panel.submitting \/ (tab = "topics" /\ at \in FormPlaces),
           at = "save" => d.loading /\ arg.temp = d.temp
    PROVE  PageInv'
<1> DEFINE t == Task(at, arg, q)
           ts == Begin(tasks, t)
<1>1. t = Handler(at, arg, q, TRUE) /\ t.at = at /\ t.arg = arg /\ t.live /\ t.got = <<>> /\ DOMAIN <<>> = {}
  BY DEF Task, Handler
<1>2. GoodTask(t) /\ at # "idle"
  <2>1. TRUE \in BOOLEAN
    OBVIOUS
  <2>2. QED
    BY <1>1, <2>1, NewTask, AsksIs
<1>3. GoodTasks(tasks) /\ url \in Urls /\ DOMAIN tasks = Slots
  BY DEF PageInv, TypeInv, GoodTasks
<1> HIDE DEF t
<1>4. PICK i \in Slots : /\ tasks[i].at = "idle"
                         /\ DOMAIN ts = Slots
                         /\ \A k \in Slots : ts[k] = IF k = i THEN t ELSE tasks[k]
  BY <1>3, BeginIs
<1>5. Render(d, p, url, ts)
  BY DEF t
<1> HIDE DEF ts
<1>6. GoodTasks(ts)
  BY <1>2, <1>3, <1>4 DEF GoodTasks
<1>7. Spins(tab, d, p, ts)
  <2>1. \A places : "idle" \notin places /\ Turns(tasks, places) => Turns(ts, places)
    BY <1>4 DEF Turns
  <2>2. \A places : at \in places => Turns(ts, places)
    BY <1>1, <1>4 DEF Turns
  <2>3. Spins(tab, details, panel, tasks)
    BY DEF PageInv, SpinInv
  <2>4. "idle" \notin DetailsPlaces /\ "idle" \notin PanelPlaces /\ "idle" \notin FormPlaces
    BY DEF DetailsPlaces, PanelPlaces, FormPlaces
  <2>5. tab = "Agents" /\ d.loading => Turns(ts, DetailsPlaces)
    BY <2>1, <2>2, <2>3, <2>4 DEF Spins
  <2>6. tab \in Panels /\ p.loading => Turns(ts, PanelPlaces)
    BY <2>1, <2>2, <2>3, <2>4 DEF Spins
  <2>7. p.submitting => tab = "topics" /\ Turns(ts, FormPlaces)
    BY <2>1, <2>2, <2>3, <2>4 DEF Spins
  <2>8. QED
    BY <2>5, <2>6, <2>7 DEF Spins
<1>8. ASSUME ~hasty', ~failed PROVE Ready(d, p, url, ts)
  <2>1. Calm(db, tab, url, details, panel, tasks, drafts) /\ \A k \in Slots : tasks[k] = Idle
    BY <1>8, PatientClick
  <2>2. \A k \in Slots : tasks[k].at = "idle"
    BY <2>1, IdleIs
  <2>3. \A k \in Slots : k # i => ts[k].at = "idle" /\ DOMAIN ts[k].got = {}
    BY <1>4, <2>1, IdleIs
  <2>4. ts[i] = t
    BY <1>4
  <2>5. Single(tab, url, ts)
    BY <1>1, <2>3, <2>4 DEF Single
  <2>6. Fresh(db, ts)
    BY <1>1, <2>3, <2>4 DEF Fresh
  <2>7. Chosen(db, tab, d, ts)
    BY <2>1, <2>2 DEF Calm, Chosen
  <2>8. Counted(db, d, ts, drafts')
    <3>1. \A k \in Slots : ts[k].at = "save" => d.loading /\ d.temp = ts[k].arg.temp
      BY <1>1, <2>3, <2>4
    <3>2. d.temp => details.temp
      OBVIOUS
    <3>3. QED
      BY <2>1, <2>2, <3>1, <3>2 DEF Calm, Counted
  <2>9. CASE Reloads(d, url)
    <3>1. tab = "Agents" /\ at \in MayOverlap
      BY <2>9 DEF Reloads
    <3>2. \A k \in Slots : ts[k].at # "idle" => tab = "Agents" /\ ts[k].at \in MayOverlap
      BY <1>1, <2>3, <2>4, <3>1
    <3>3. QED
      BY <2>5, <2>6, <2>7, <2>8, <2>9, <3>2 DEF Ready
  <2>10. CASE ~Reloads(d, url)
    <3>1. ~Lists(tasks) /\ ~Assigns(tasks) /\ \A k \in Slots : tasks[k].at # "panelLoad"
      BY <2>2 DEF Lists, Assigns
    <3>2. Current(db, tab, url, d, p, ts)
      BY <2>1, <3>1 DEF Calm, Current
    <3>3. QED
      BY <2>5, <2>6, <2>7, <2>8, <2>10, <3>2 DEF Ready
  <2>11. QED
    BY <2>9, <2>10
<1>9. QED
  BY <1>3, <1>5, <1>6, <1>7, <1>8, RenderKeeps

\* The clicks of the tab of agents that send nothing.
LEMMA DetailsClicks ==
    ASSUME PageInv, TypeName(Typed) \/ SaveNameless \/ Delete \/ CancelDelete
    PROVE  PageInv'
<1>1. /\ tab = "Agents" /\ UNCHANGED <<db, tab, failed, drafts>> /\ Stays /\ ~details.loading
  BY DEF TypeName, SaveNameless, Delete, CancelDelete, ClickOn, Click, FormOpen
<1>2. details \in DetailsType /\ Meant(details.selected, details.form) /\ panel \in PanelType
  BY DEF PageInv, TypeInv, GoodDetails
<1>3. PICK d : /\ Render(d, panel, url, tasks)
               /\ \/ d = [details EXCEPT !.form.name = Typed]
                  \/ d = [details EXCEPT !.loading = FALSE]
                  \/ d = [details EXCEPT !.confirm = details.selected]
                  \/ d = [details EXCEPT !.confirm = None]
  BY DEF TypeName, SaveNameless, Delete, CancelDelete
<1>4. /\ GoodDetails(d) /\ d.agents = details.agents /\ d.selected = details.selected /\ d.temp = details.temp
      /\ d.loading => details.loading
  <2>1. CASE d = [details EXCEPT !.form.name = Typed]
    <3>1. [details.form EXCEPT !.name = Typed] \in Forms /\ [details.form EXCEPT !.name = Typed].name = Typed
      BY <1>2 DEF DetailsType, Forms
    <3>2. d = [details EXCEPT !.form = [details.form EXCEPT !.name = Typed]]
      BY <1>2, <2>1 DEF DetailsType
    <3> DEFINE f == [details.form EXCEPT !.name = Typed]
    <3> HIDE DEF f
    <3>3. f \in Forms /\ f.name = Typed /\ d = [details EXCEPT !.form = f]
      BY <3>1, <3>2 DEF f
    <3>4. d \in DetailsType /\ d.form = f /\ d.selected = details.selected
      BY <1>2, <3>3 DEF DetailsType
    <3>5. QED
      BY <1>2, <3>3, <3>4 DEF DetailsType, GoodDetails, Meant
  <2>2. CASE d = [details EXCEPT !.loading = FALSE]
    BY <1>2, <2>2 DEF DetailsType, GoodDetails
  <2>3. CASE d = [details EXCEPT !.confirm = details.selected]
    BY <1>2, <2>3 DEF DetailsType, GoodDetails
  <2>4. CASE d = [details EXCEPT !.confirm = None]
    BY <1>2, <2>4 DEF DetailsType, GoodDetails, Ids
  <2>5. QED
    BY <1>3, <2>1, <2>2, <2>3, <2>4
<1>5. QED
  BY <1>1, <1>2, <1>3, <1>4, ClickKeeps

\* Selecting an agent, saving one and confirming that one is deleted.
LEMMA SelectKeeps ==
    ASSUME PageInv, NEW a \in Agents \cup {Temp}, SelectAgent(a)
    PROVE  PageInv'
<1> DEFINE d == [details EXCEPT !.temp = FALSE]
<1>1. details \in DetailsType /\ Meant(details.selected, details.form) /\ panel \in PanelType
  BY DEF PageInv, TypeInv, GoodDetails
<1>2. /\ GoodDetails(d) /\ d.agents = details.agents /\ d.selected = details.selected
      /\ d.loading = details.loading /\ d.temp = FALSE
  BY <1>1 DEF GoodDetails, DetailsType
<1>3. /\ tab = "Agents" /\ HasRoom(tasks) /\ MovesOn /\ UNCHANGED <<db, tab, failed, drafts>>
      /\ Render(d, panel, url, Begin(tasks, Task("show", a, {getAgentById(a)})))
  BY DEF SelectAgent, ClickOn, Click
<1>4. Asks("show", a, {getAgentById(a)})
  BY DEF Asks
<1>5. "show" \in PlacesOf(tab) /\ "show" \in MayOverlap /\ tab \notin Panels
  BY <1>3 DEF PlacesOf, MayOverlap, Panels
<1> HIDE DEF d
<1>6. QED
  BY <1>1, <1>2, <1>3, <1>4, <1>5, WriterKeeps

\* The clicks that save and delete an agent.
LEMMA SaveKeeps ==
    ASSUME PageInv, Save \/ ConfirmDelete
    PROVE  PageInv'
<1> DEFINE d == [details EXCEPT !.loading = TRUE]
<1>1. details \in DetailsType /\ Meant(details.selected, details.form) /\ panel \in PanelType
  BY DEF PageInv, TypeInv, GoodDetails
<1>2. /\ GoodDetails(d) /\ d.agents = details.agents /\ d.selected = details.selected
      /\ d.loading /\ d.temp = details.temp
  BY <1>1 DEF GoodDetails, DetailsType
<1>3. PICK at, arg, q :
        /\ at \in {"save", "delete"} /\ Asks(at, arg, q) /\ Render(d, panel, url, Begin(tasks, Task(at, arg, q)))
        /\ at = "save" => arg.temp = details.temp
  <2>1. CASE Save
    <3> DEFINE update == details.selected # None /\ ~details.temp
               request == IF update THEN updateAgent(details.selected, details.form)
                          ELSE createAgent(details.form)
               arg == [temp |-> details.temp]
    <3>1. Render(d, panel, url, Begin(tasks, Task("save", arg, {request})))
      BY <2>1 DEF Save
    <3>2. details.form \in SavedForms /\ (details.selected # None \/ details.temp)
      BY <1>1, <2>1 DEF Save, FormOpen, DetailsType, SavedForms
    <3>3. arg \in [temp : BOOLEAN] /\ arg.temp = details.temp
      BY <1>1 DEF DetailsType
    <3>4. CASE update
      <4>1. details.selected \in Agents \cup {Temp} /\ ~details.temp
        BY <1>1, <3>4 DEF DetailsType, Ids
      <4>2. request = updateAgent(details.selected, details.form)
        BY <3>4
      <4> HIDE DEF request, arg
      <4>3. Asks("save", arg, {request})
        BY <1>1, <3>2, <3>3, <4>1, <4>2 DEF Asks
      <4>4. QED
        BY <3>1, <3>3, <4>3
    <3>5. CASE ~update
      <4>1. request = createAgent(details.form) /\ details.temp
        BY <3>2, <3>5
      <4> HIDE DEF request, arg
      <4>2. Asks("save", arg, {request})
        BY <3>2, <3>3, <4>1 DEF Asks
      <4>3. QED
        BY <3>1, <3>3, <4>2
    <3>6. QED
      BY <3>4, <3>5
  <2>2. CASE ConfirmDelete
    <3> DEFINE arg == [id |-> details.selected]
    <3>1. Render(d, panel, url, Begin(tasks, Task("delete", arg, {getAgentById(details.selected)})))
      BY <2>2 DEF ConfirmDelete
    <3>2. details.selected \in Agents \cup {Temp}
      BY <1>1, <2>2 DEF ConfirmDelete, DetailsType, Ids
    <3>3. Asks("delete", arg, {getAgentById(details.selected)})
      BY <3>2 DEF Asks
    <3> HIDE DEF arg
    <3>4. QED
      BY <3>1, <3>3
  <2>3. QED
    BY <2>1, <2>2
<1>4. /\ tab = "Agents" /\ HasRoom(tasks) /\ Stays /\ ~details.loading /\ UNCHANGED <<db, tab, failed, drafts>>
  BY DEF Save, ConfirmDelete, ClickOn, Click, FormOpen
<1>5. at \in PlacesOf(tab) /\ at \in DetailsPlaces /\ tab \notin Panels
  BY <1>3, <1>4 DEF PlacesOf, DetailsPlaces, Panels
<1> HIDE DEF d
<1>6. QED
  BY <1>1, <1>2, <1>3, <1>4, <1>5, WriterKeeps

\* Three fields of the tab's state at once.
Redraft(s, x, a, form) ==
    [agents |-> s.agents, selected |-> a, temp |-> x, form |-> form, loading |-> s.loading, confirm |-> s.confirm]
LEMMA Redrafted ==
    ASSUME NEW s, s \in DetailsType, NEW x, NEW a, NEW form,
           NEW d, d = [s EXCEPT !.temp = x, !.selected = a, !.form = form]
    PROVE  d = Redraft(s, x, a, form)
<1> DEFINE b == [s EXCEPT !.temp = x]
           c == [b EXCEPT !.selected = a]
<1>1. s = [agents |-> s.agents, selected |-> s.selected, temp |-> s.temp, form |-> s.form,
           loading |-> s.loading, confirm |-> s.confirm]
  BY DEF DetailsType
<1>2. b = [agents |-> s.agents, selected |-> s.selected, temp |-> x, form |-> s.form,
           loading |-> s.loading, confirm |-> s.confirm]
  BY <1>1
<1> HIDE DEF b
<1>3. c = [agents |-> s.agents, selected |-> a, temp |-> x, form |-> s.form,
           loading |-> s.loading, confirm |-> s.confirm]
  BY <1>2
<1> HIDE DEF c
<1>4. [c EXCEPT !.form = form]
        = [agents |-> s.agents, selected |-> a, temp |-> x, form |-> form,
           loading |-> s.loading, confirm |-> s.confirm]
  BY <1>3
<1>5. QED
  BY <1>4, Zenon DEF b, c, Redraft

\* A new agent is begun.
LEMMA NewAgentKeeps ==
    ASSUME PageInv, NewAgent
    PROVE  PageInv'
<1>0. PICK d : d = [details EXCEPT !.temp = TRUE, !.selected = Temp, !.form = EmptyForm]
  OBVIOUS
<1>1. /\ tab = "Agents" /\ ~details.temp /\ Render(d, panel, None, tasks) /\ drafts' = drafts + 1
      /\ MovesOn /\ UNCHANGED <<db, tab, failed>>
  BY <1>0, Zenon DEF NewAgent, Click
<1>2. details \in DetailsType /\ panel \in PanelType /\ GoodTasks(tasks) /\ None \in Urls
  BY DEF PageInv, TypeInv, GoodDetails, Urls
<1>3. EmptyForm \in Forms /\ Temp \in Ids /\ Temp \notin Initially
  BY AgentsAssumption DEF EmptyForm, Forms, Ids
<1>4. d = Redraft(details, TRUE, Temp, EmptyForm)
  BY <1>0, <1>2, Redrafted, Zenon
<1>5. GoodDetails(d) /\ d.temp = TRUE /\ d.selected = Temp /\ d.loading = details.loading
  BY <1>2, <1>3, <1>4 DEF GoodDetails, DetailsType, Meant, Redraft
<1>6. Spins(tab, d, panel, tasks)
  BY <1>5 DEF PageInv, SpinInv, Spins
<1>7. ASSUME ~hasty', ~failed PROVE Ready(d, panel, None, tasks)
  <2>1. Calm(db, tab, url, details, panel, tasks, drafts) /\ \A k \in Slots : tasks[k] = Idle
    BY <1>1, <1>7, PatientClick
  <2>2. \A k \in Slots : tasks[k].at = "idle"
    BY <2>1, IdleIs
  <2>3. Reloads(d, None)
    BY <1>1, <1>5 DEF Reloads
  <2>4. Single(tab, None, tasks)
    BY <2>2 DEF Single
  <2>5. Chosen(db, tab, d, tasks)
    BY <1>5 DEF Chosen
  <2>6. Counted(db, d, tasks, drafts')
    <3>1. drafts \in Nat /\ IsFiniteSet(New(db)) /\ Cardinality(New(db)) <= drafts
      BY <2>1 DEF Calm, Counted
    <3>2. Cardinality(New(db)) \in Nat
      BY <3>1, FS_CardinalityType
    <3>3. drafts' \in Nat /\ Cardinality(New(db)) <= drafts' /\ Cardinality(New(db)) + 1 <= drafts'
      BY <1>1, <3>1, <3>2
    <3>4. QED
      BY <2>2, <3>1, <3>3 DEF Counted
  <2>7. QED
    BY <2>1, <2>2, <2>3, <2>4, <2>5, <2>6 DEF Ready, Calm
<1>8. QED
  BY <1>1, <1>2, <1>5, <1>6, <1>7, RenderKeeps

\* The clicks of the tabs of items that send nothing.
LEMMA PanelClicks ==
    ASSUME PageInv, ClickOn("plugins") \/ ClickOn("topics"), Stays,
           NEW x \in Items \cup {None}, NEW b \in BOOLEAN, NEW p,
           p = [panel EXCEPT !.confirm = x] \/ p = [panel EXCEPT !.form = b],
           Render(details, p, url, tasks)
    PROVE  PageInv'
<1>1. GoodDetails(details) /\ panel \in PanelType
  BY DEF PageInv, TypeInv
<1>2. tab # "Agents" /\ UNCHANGED <<db, tab, failed, drafts>>
  BY DEF ClickOn, Click
<1>3. /\ p \in PanelType /\ p.agent = panel.agent /\ p.assigned = panel.assigned
      /\ p.loading = panel.loading /\ p.submitting = panel.submitting
  BY <1>1 DEF PanelType
<1>4. QED
  BY <1>1, <1>2, <1>3, ClickKeeps

\* The clicks of a panel that send nothing.
LEMMA OpenKeeps ==
    ASSUME PageInv, NEW kind \in Panels, CancelRemove(kind) \/ OpenTopicForm \/ CancelTopicForm
    PROVE  PageInv'
<1>1. kind = "plugins" \/ kind = "topics"
  BY DEF Panels
<1>2. CASE CancelRemove(kind)
  BY <1>1, <1>2, PanelClicks DEF CancelRemove
<1>3. CASE OpenTopicForm \/ CancelTopicForm
  <2>1. PICK b \in BOOLEAN : Render(details, [panel EXCEPT !.form = b], url, tasks)
    BY <1>3 DEF OpenTopicForm, CancelTopicForm
  <2>2. ClickOn("topics") /\ Stays
    BY <1>3 DEF OpenTopicForm, CancelTopicForm
  <2>3. QED
    BY <2>1, <2>2, PanelClicks
<1>4. QED
  BY <1>2, <1>3

\* The clicks that add and remove an item.
LEMMA ItemKeeps ==
    ASSUME PageInv, NEW kind \in Panels, url # None,
           \/ \E i \in Items : Toggle(kind, i)
           \/ ConfirmRemove(kind)
    PROVE  PageInv'
<1>1. GoodDetails(details) /\ panel \in PanelType /\ url \in Agents
  BY DEF PageInv, TypeInv, Urls
<1>2. kind = "plugins" \/ kind = "topics"
  BY DEF Panels
<1>3. /\ ClickOn(kind) /\ Stays
      /\ tab = kind /\ tab \in Panels /\ tab # "Agents" /\ UNCHANGED <<db, tab, failed, drafts>>
  BY <1>2 DEF Toggle, ConfirmRemove, ClickOn, Click
<1> DEFINE p == [panel EXCEPT !.loading = TRUE]
           arg == [kind |-> kind, id |-> url]
<1>4. p \in PanelType /\ p.agent = panel.agent /\ p.assigned = panel.assigned /\ p.submitting = panel.submitting
  BY <1>1 DEF PanelType
<1>5. arg \in [kind : Panels, id : Agents] /\ arg.kind = kind /\ arg.id = url
  BY <1>1
<1>6. ASSUME NEW at \in {"add", "remove"}, NEW q, Asks(at, arg, q), HasRoom(tasks),
             Render(details, p, url, Begin(tasks, Task(at, arg, q)))
      PROVE  PageInv'
  <2>1. at \in PlacesOf(tab) /\ at \in PanelPlaces /\ at # "save"
    BY <1>3, <1>6 DEF PlacesOf, PanelPlaces, Panels
  <2> HIDE DEF p, arg
  <2>2. QED
    BY <1>1, <1>3, <1>4, <1>5, <1>6, <2>1, WriterKeeps
<1>7. ASSUME NEW i \in Items, Toggle(kind, i), i \in panel.assigned PROVE PageInv'
  <2>1. Render(details, [panel EXCEPT !.confirm = i], url, tasks)
    BY <1>7 DEF Toggle
  <2>2. QED
    BY <1>2, <1>3, <1>7, <2>1, PanelClicks
<1>8. ASSUME NEW i \in Items, Toggle(kind, i), i \notin panel.assigned PROVE PageInv'
  <2>1. HasRoom(tasks) /\ Render(details, p, url, Begin(tasks, Task("add", arg, {addItem(kind, url, i)})))
    BY <1>8 DEF Toggle
  <2>2. Asks("add", arg, {addItem(kind, url, i)})
    BY <1>5 DEF Asks
  <2> HIDE DEF p, arg
  <2>3. QED
    BY <1>6, <2>1, <2>2
<1>9. ASSUME ConfirmRemove(kind) PROVE PageInv'
  <2>1. HasRoom(tasks) /\ Render(details, p, url, Begin(tasks, Task("remove", arg, {removeItem(kind, url, panel.confirm)})))
    BY <1>9 DEF ConfirmRemove
  <2>2. panel.confirm \in Items
    BY <1>1, <1>9 DEF ConfirmRemove, PanelType
  <2>3. Asks("remove", arg, {removeItem(kind, url, panel.confirm)})
    BY <1>5, <2>2 DEF Asks
  <2> HIDE DEF p, arg
  <2>4. QED
    BY <1>6, <2>1, <2>3
<1>10. QED
  BY <1>7, <1>8, <1>9

\* Saving the topic form, which sends nothing of the topic.
LEMMA SaveTopicKeeps ==
    ASSUME PageInv, SaveTopic
    PROVE  PageInv'
<1>0. PICK p : p = [panel EXCEPT !.form = FALSE, !.submitting = TRUE]
  OBVIOUS
<1> DEFINE arg == [kind |-> "topics", id |-> url]
<1>1. GoodDetails(details) /\ panel \in PanelType /\ url \in Urls
  BY DEF PageInv, TypeInv
<1>2. /\ tab = "topics" /\ tab \in Panels /\ MovesOn /\ HasRoom(tasks) /\ UNCHANGED <<db, tab, failed, drafts>>
      /\ Render(details, p, url, Begin(tasks, Task("topicSaved", arg, {getAvailableTopics})))
  BY <1>0, Zenon DEF SaveTopic, ClickOn, Click, Panels
<1>3. p \in PanelType /\ p.agent = panel.agent /\ p.assigned = panel.assigned /\ p.loading = panel.loading
  BY <1>0, <1>1 DEF PanelType
<1>4. arg \in [kind : {"topics"}, id : Urls] /\ arg.kind = tab /\ arg.id = url
  BY <1>1, <1>2
<1>5. "topicSaved" \in PlacesOf(tab) /\ "topicSaved" \in FormPlaces
  BY <1>2 DEF PlacesOf, FormPlaces
<1> HIDE DEF arg
<1>6. Asks("topicSaved", arg, {getAvailableTopics})
  BY <1>4 DEF Asks
<1>7. QED
  BY <1>1, <1>2, <1>3, <1>4, <1>5, <1>6, WriterKeeps

\* The clicks of the page.
LEMMA ClicksKeep ==
    ASSUME PageInv, ClickStep
    PROVE  PageInv'
<1>1. url \in Urls /\ None \in Urls /\ db.given \subseteq Agents
  BY DEF PageInv, TypeInv, Urls, GoodDb
<1>2. ASSUME NEW t \in Tabs, ChangeTab(t) PROVE PageInv'
  <2>1. Mount(t, url) /\ UNCHANGED <<db, failed, drafts>> /\ MovesOn
    BY <1>2 DEF ChangeTab, Click
  <2>2. QED
    BY <1>1, <2>1, MountKeeps DEF MovesOn
<1>3. ASSUME CreateInPanel PROVE PageInv'
  <2>1. Mount("Agents", None) /\ UNCHANGED <<db, failed, drafts>> /\ MovesOn /\ "Agents" \in Tabs
    BY <1>3 DEF CreateInPanel, Click, Tabs
  <2>2. QED
    BY <1>1, <2>1, MountKeeps DEF MovesOn
<1>4. ASSUME NEW a \in Agents \cup {Temp}, SelectInPanel(a) PROVE PageInv'
  <2>1. Render(details, panel, a, tasks) /\ MovesOn /\ a # url /\ a \in Urls /\ UNCHANGED <<db, tab, failed, drafts>>
    BY <1>4 DEF SelectInPanel, ClickOn, Click, PageInv, TypeInv, PanelType, Urls
  <2>2. QED
    BY <2>1, GoesTo
<1>5. ASSUME NEW i \in Items, handleTogglePlugin(i) \/ handleToggleTopic(i) PROVE PageInv'
  <2>1. PICK kind \in Panels : url # None /\ Toggle(kind, i)
    BY <1>5 DEF handleTogglePlugin, handleToggleTopic, PluginCards, TopicCards, Panels
  <2>2. QED
    BY <2>1, ItemKeeps
<1>6. ASSUME handleRemovePlugin \/ handleRemoveTopic PROVE PageInv'
  <2>1. PICK kind \in Panels : url # None /\ ConfirmRemove(kind)
    BY <1>6 DEF handleRemovePlugin, handleRemoveTopic, ConfirmRemove, Panels
  <2>2. QED
    BY <2>1, ItemKeeps
<1>7. ASSUME closePluginConfirmation \/ closeTopicConfirmation \/ OpenTopicForm \/ CancelTopicForm PROVE PageInv'
  BY <1>7, OpenKeeps DEF closePluginConfirmation, closeTopicConfirmation, Panels
<1>8. QED
  BY <1>2, <1>3, <1>4, <1>5, <1>6, <1>7, SelectKeeps, NewAgentKeeps, DetailsClicks, SaveKeeps, SaveTopicKeeps
  DEF ClickStep

\* Steps in the browser's history.
LEMMA BackKeeps ==
    ASSUME PageInv, NEW u \in db.given \cup {None}, NEW t \in Tabs, Back(u, t)
    PROVE  PageInv'
<1>1. u \in Urls /\ MovesOn /\ UNCHANGED <<db, failed, drafts>>
  BY DEF PageInv, TypeInv, GoodDb, Urls, Back
<1>2. CASE Mount(t, u)
  BY <1>1, <1>2, MountKeeps DEF MovesOn
<1>3. CASE u # url /\ Render(details, panel, u, tasks) /\ UNCHANGED tab
  BY <1>1, <1>3, GoesTo
<1>4. QED
  BY <1>2, <1>3 DEF Back

-----------------------------------------------------------------------------
(* Handlers after their awaits.                                            *)

\* What handler k may become: it ends, or goes on in the same tab.
Becomes(k, t) ==
    /\ GoodTask(t) /\ t.at \notin {"save", "show", "credentials"}
    /\ t.at # "idle" =>
          /\ t.live = tasks[k].live
          /\ \A places \in {DetailsPlaces, PanelPlaces, FormPlaces} : t.at \in places <=> tasks[k].at \in places
          /\ tasks[k].at \in MayOverlap => t.at \in MayOverlap
          /\ tasks[k].at \in PanelPlaces \cup FormPlaces =>
                t.arg.kind = tasks[k].arg.kind /\ t.arg.id = tasks[k].arg.id
    /\ \A r \in DOMAIN t.got : r \in DOMAIN tasks[k].got /\ t.got[r] = tasks[k].got[r]

\* The handlers of a user who waits, when handler k becomes t.
LEMMA PatientHandler ==
    ASSUME Calm(db, tab, url, details, panel, tasks, drafts), GoodTasks(tasks),
           NEW k \in Slots, tasks[k].at # "idle", NEW t, Becomes(k, t), NEW u, tab = "Agents" \/ u = url,
           NEW ts, ts = [tasks EXCEPT ![k] = t]
    PROVE  /\ Single(tab, u, ts) /\ Fresh(db, ts)
           /\ \A j \in Slots : ts[j].at # "save"
           /\ t.at \in MayOverlap \cup {"idle"} => \A j \in Slots : ts[j].at # "idle" => ts[j].at \in MayOverlap
<1>1. ts[k] = t /\ \A j \in Slots : j # k => ts[j] = tasks[j]
  BY DEF GoodTasks
<1>2. /\ \A j \in Slots : tasks[j].at # "idle" =>
            /\ tasks[j].at \in PlacesOf(tab) /\ tasks[j].live
            /\ tab \in Panels => tasks[j].arg.kind = tab /\ tasks[j].arg.id = url
      /\ \A i, j \in Slots : tasks[i].at \notin MayOverlap \cup {"idle"} /\ tasks[j].at # "idle" => i = j
  BY DEF Calm, Single
<1>3. t.at # "idle" =>
          /\ t.live = tasks[k].live
          /\ \A places \in {DetailsPlaces, PanelPlaces, FormPlaces} : t.at \in places <=> tasks[k].at \in places
          /\ tasks[k].at \in MayOverlap => t.at \in MayOverlap
          /\ tasks[k].at \in PanelPlaces \cup FormPlaces =>
                t.arg.kind = tasks[k].arg.kind /\ t.arg.id = tasks[k].arg.id
  BY DEF Becomes
<1>4. t.at # "idle" => t.at \in PlacesOf(tab) /\ (tab \in Panels => t.arg.kind = tab /\ t.arg.id = u)
  <2>1. CASE tab = "Agents"
    <3>1. tab \notin Panels /\ PlacesOf(tab) = DetailsPlaces \cup {"show"}
      BY <2>1 DEF PlacesOf, Panels
    <3>2. tasks[k].at # "show" => tasks[k].at \in DetailsPlaces
      BY <1>2, <3>1
    <3>3. t.at # "idle" /\ tasks[k].at = "show" => t.at \in {"show"} \cup DetailsPlaces
      <4>1. "show" \in MayOverlap /\ MayOverlap \subseteq {"show"} \cup DetailsPlaces
        BY DEF MayOverlap, DetailsPlaces
      <4>2. QED
        BY <1>3, <4>1
    <3>4. QED
      BY <1>3, <3>1, <3>2, <3>3
  <2>2. CASE tab = "credentials"
    <3>1. tasks[k].at = "credentials" /\ tab \notin Panels
      BY <1>2, <2>2 DEF PlacesOf, Panels
    <3>2. "credentials" \notin DetailsPlaces \cup PanelPlaces \cup FormPlaces
      BY DEF DetailsPlaces, PanelPlaces, FormPlaces
    <3>3. t.at # "idle" => t.at \in Places
      BY BusyIs DEF Becomes
    <3>4. t.at = "idle"
      BY <1>3, <3>1, <3>2, <3>3 DEF Places, Becomes
    <3>5. QED
      BY <3>1, <3>2, <3>4
  <2>3. CASE tab \notin {"Agents", "credentials"}
    <3>1. PlacesOf(tab) = PanelPlaces \cup FormPlaces
      BY <2>3 DEF PlacesOf
    <3>2. QED
      BY <1>2, <1>3, <2>3, <3>1
  <2>4. QED
    BY <2>1, <2>2, <2>3
<1>5. Single(tab, u, ts)
  <2>1. ASSUME NEW j \in Slots, ts[j].at # "idle"
        PROVE  /\ ts[j].at \in PlacesOf(tab) /\ ts[j].live
               /\ tab \in Panels => ts[j].arg.kind = tab /\ ts[j].arg.id = u
    BY <1>1, <1>2, <1>3, <1>4, <2>1 DEF Panels
  <2>2. ASSUME NEW i \in Slots, NEW j \in Slots, ts[i].at \notin MayOverlap \cup {"idle"}, ts[j].at # "idle"
        PROVE  i = j
    BY <1>1, <1>2, <1>3, <2>2
  <2>3. QED
    BY <2>1, <2>2 DEF Single
<1>6. Fresh(db, ts)
  BY <1>1 DEF Becomes, Calm, Fresh
<1>7. \A j \in Slots : ts[j].at # "save"
  BY <1>1, <1>2 DEF Becomes, MayOverlap
<1>8. t.at \in MayOverlap \cup {"idle"} => \A j \in Slots : ts[j].at # "idle" => ts[j].at \in MayOverlap
  BY <1>1, <1>2
<1>9. QED
  BY <1>5, <1>6, <1>7, <1>8

\* Handler k becomes t, and shows d, p and u.
LEMMA HandlerKeeps ==
    ASSUME PageInv, NEW k \in Slots, tasks[k].at # "idle", NEW t, Becomes(k, t),
           NEW d, GoodDetails(d), NEW p \in PanelType, NEW u \in Urls,
           NEW ts, ts = [tasks EXCEPT ![k] = t], Render(d, p, u, ts), Stay,
           d.loading => details.loading \/ t.at \in DetailsPlaces,
           tasks[k].live /\ tasks[k].at \in DetailsPlaces /\ t.at = "idle" => ~d.loading,
           d.loading /\ ~details.loading => tasks[k].live,
           p.loading => panel.loading,
           tasks[k].live /\ tasks[k].at \in PanelPlaces /\ t.at = "idle" => ~p.loading,
           p.submitting => panel.submitting,
           tasks[k].at \in FormPlaces /\ t.at = "idle" => ~p.submitting,
           Calm(db, tab, url, details, panel, tasks, drafts) =>
              /\ (tab = "Agents" /\ t.at \in MayOverlap \cup {"idle"}) \/ ~Reloads(d, u)
              /\ d.temp => details.temp /\ tasks[k].at # "save"
              /\ Chosen(db, tab, d, ts)
              /\ Reloads(d, u) \/ Current(db, tab, u, d, p, ts)
    PROVE  PageInv'
<1>1. GoodTasks(tasks) /\ ts[k] = t /\ \A j \in Slots : j # k => ts[j] = tasks[j]
  BY DEF PageInv, TypeInv, GoodTasks
<1>2. GoodTasks(ts)
  BY <1>1 DEF GoodTasks, Becomes
<1>3. Spins(tab, d, p, ts)
  <2>1. ASSUME NEW places \in {DetailsPlaces, PanelPlaces, FormPlaces}, Turns(tasks, places),
               ~(tasks[k].live /\ tasks[k].at \in places /\ t.at = "idle")
        PROVE  Turns(ts, places)
    <3>1. PICK j \in Slots : tasks[j].at \in places /\ tasks[j].live
      BY <2>1 DEF Turns
    <3>2. ts[j].at \in places /\ ts[j].live
      <4>1. CASE j # k
        BY <1>1, <3>1, <4>1
      <4>2. CASE j = k
        BY <1>1, <2>1, <3>1, <4>2 DEF Becomes
      <4>3. QED
        BY <4>1, <4>2
    <3>3. QED
      BY <3>2 DEF Turns
  <2>2. Spins(tab, details, panel, tasks)
    BY DEF PageInv, SpinInv
  <2>3. tab = "Agents" /\ d.loading => Turns(ts, DetailsPlaces)
    <3>1. CASE details.loading
      BY <2>1, <2>2, <3>1 DEF Spins
    <3>2. CASE d.loading /\ ~details.loading
      <4>1. t.at # "idle" /\ t.at \in DetailsPlaces /\ t.live
        BY <3>2 DEF Becomes, DetailsPlaces
      <4>2. QED
        BY <1>1, <4>1 DEF Turns
    <3>3. QED
      BY <3>1, <3>2
  <2>4. tab \in Panels /\ p.loading => Turns(ts, PanelPlaces)
    BY <2>1, <2>2 DEF Spins
  <2>5. p.submitting => tab = "topics" /\ Turns(ts, FormPlaces)
    BY <2>1, <2>2 DEF Spins
  <2>6. QED
    BY <2>3, <2>4, <2>5 DEF Spins
<1>4. UNCHANGED <<db, tab, failed, hasty, drafts>>
  BY DEF Stay, counters
<1>5. ASSUME ~hasty', ~failed PROVE Ready(d, p, u, ts)
  <2>1. Calm(db, tab, url, details, panel, tasks, drafts)
    BY <1>4, <1>5 DEF PageInv, CalmInv
  <2>2. tab = "Agents" \/ u = url
    BY <2>1 DEF Reloads
  <2>3. /\ Single(tab, u, ts) /\ Fresh(db, ts)
        /\ \A j \in Slots : ts[j].at # "save"
        /\ t.at \in MayOverlap \cup {"idle"} => \A j \in Slots : ts[j].at # "idle" => ts[j].at \in MayOverlap
    BY <1>1, <2>1, <2>2, PatientHandler
  <2>4. Counted(db, d, ts, drafts')
    <3>1. \A i, j \in Slots : tasks[i].at \notin MayOverlap \cup {"idle"} /\ tasks[j].at # "idle" => i = j
      BY <2>1 DEF Calm, Single
    <3>2. tasks[k].at # "save" => \A j \in Slots : tasks[j].at # "save"
      BY <3>1 DEF MayOverlap
    <3>3. QED
      BY <1>4, <2>1, <2>3, <3>2 DEF Calm, Counted
  <2>5. QED
    BY <2>1, <2>3, <2>4 DEF Ready
<1>6. QED
  BY <1>2, <1>3, <1>4, <1>5, RenderKeeps

\* A handler that ends, and one that goes on.
LEMMA Ends == \A k \in Slots : Becomes(k, Idle)
<1>1. GoodTask(Idle) /\ Idle.at = "idle" /\ DOMAIN Idle.got = {}
  BY IdleIs
<1>2. QED
  BY <1>1 DEF Becomes

MayGoOn(k, at, q) ==
    /\ tasks[k].at # "idle" /\ Asks(at, tasks[k].arg, q)
    /\ at \notin {"save", "show", "credentials"}
    /\ at \in DetailsPlaces <=> tasks[k].at \in DetailsPlaces
    /\ at \in PanelPlaces <=> tasks[k].at \in PanelPlaces
    /\ at \in FormPlaces <=> tasks[k].at \in FormPlaces
    /\ tasks[k].at \in MayOverlap => at \in MayOverlap
LEMMA GoesOnKeeps ==
    ASSUME PageInv, NEW k \in Slots, NEW at, NEW q, MayGoOn(k, at, q),
           NEW t, t = Handler(at, tasks[k].arg, q, tasks[k].live)
    PROVE  /\ Goto(tasks, k, at, q) = [tasks EXCEPT ![k] = t]
           /\ t.at = at /\ t.arg = tasks[k].arg /\ t.live = tasks[k].live /\ DOMAIN t.got = {}
           /\ Becomes(k, t)
<1>1. GoodTasks(tasks) /\ tasks[k].live \in BOOLEAN
  BY BusyIs DEF PageInv, TypeInv, GoodTasks, MayGoOn
<1>2. Goto(tasks, k, at, q) = [tasks EXCEPT ![k] = t]
  BY <1>1, GoesOn, Zenon DEF MayGoOn
<1>3. GoodTask(t)
  BY <1>1, NewTask DEF MayGoOn
<1>4. t.at = at /\ t.arg = tasks[k].arg /\ t.live = tasks[k].live /\ t.got = <<>> /\ DOMAIN <<>> = {}
  BY DEF Handler
<1>5. Becomes(k, t)
  BY <1>3, <1>4 DEF Becomes, MayGoOn
<1>6. QED
  BY <1>2, <1>4, <1>5

\* What a user who waits may expect of a handler.
LEMMA PatientTask ==
    ASSUME tab \in Tabs, Calm(db, tab, url, details, panel, tasks, drafts), NEW k \in Slots, tasks[k].at # "idle"
    PROVE  /\ tasks[k].live /\ tasks[k].at \in PlacesOf(tab)
           /\ tasks[k].at \in DetailsPlaces => tab = "Agents"
           /\ tasks[k].at \in PanelPlaces \cup FormPlaces =>
                 tab \in Panels /\ tasks[k].arg.kind = tab /\ tasks[k].arg.id = url
           /\ tasks[k].at \notin MayOverlap => \A j \in Slots : j # k => tasks[j].at = "idle"
           /\ \A r \in DOMAIN tasks[k].got : StillSo(db, r, tasks[k].got[r])
<1>1. /\ tasks[k].at \in PlacesOf(tab) /\ tasks[k].live
      /\ tab \in Panels => tasks[k].arg.kind = tab /\ tasks[k].arg.id = url
      /\ tasks[k].at \notin MayOverlap => \A j \in Slots : j # k => tasks[j].at = "idle"
  BY DEF Calm, Single
<1>2. tasks[k].at \in DetailsPlaces => tab = "Agents"
  BY <1>1 DEF PlacesOf, DetailsPlaces, PanelPlaces, FormPlaces
<1>3. tasks[k].at \in PanelPlaces => tab \notin {"Agents", "credentials"}
  BY <1>1 DEF PlacesOf, DetailsPlaces, PanelPlaces
<1>4. tasks[k].at \in FormPlaces => tab \notin {"Agents", "credentials"}
  BY <1>1 DEF PlacesOf, DetailsPlaces, FormPlaces
<1>5. \A r \in DOMAIN tasks[k].got : StillSo(db, r, tasks[k].got[r])
  BY DEF Calm, Fresh
<1>6. QED
  BY <1>1, <1>2, <1>3, <1>4, <1>5 DEF Tabs

\* The handlers that will show the list, and the items of an agent.
Listing(t) == t.at \in {"load", "refresh", "relist"} \/ (t.at \in {"save", "drop"} /\ Succeeded(t))
Assigning(t) == t.at \in {"panelLoad", "refetch"} \/ (t.at \in {"add", "remove"} /\ Succeeded(t))

\* What the other handlers will show, when handler k becomes t.
LEMMA KeptShown ==
    ASSUME GoodTasks(tasks), NEW k \in Slots, NEW t, NEW ts, ts = [tasks EXCEPT ![k] = t]
    PROVE  /\ Lists(tasks) /\ ~Listing(tasks[k]) => Lists(ts)
           /\ Assigns(tasks) /\ ~Assigning(tasks[k]) => Assigns(ts)
           /\ \A at : at # tasks[k].at /\ (\E j \in Slots : tasks[j].at = at) => \E j \in Slots : ts[j].at = at
           /\ Listing(t) => Lists(ts)
           /\ Assigning(t) => Assigns(ts)
           /\ \A s : /\ s.selected = details.selected /\ ~(tasks[k].at = "drop" /\ Succeeded(tasks[k]))
                     /\ Chosen(db, tab, details, tasks)
                     => Chosen(db, tab, s, ts)
<1>1. ts[k] = t /\ \A j \in Slots : j # k => ts[j] = tasks[j]
  BY DEF GoodTasks
<1>2. Lists(tasks) /\ ~Listing(tasks[k]) => Lists(ts)
  BY <1>1, Zenon DEF Lists, Listing
<1>3. Assigns(tasks) /\ ~Assigning(tasks[k]) => Assigns(ts)
  BY <1>1, Zenon DEF Assigns, Assigning
<1>4. ASSUME NEW at, at # tasks[k].at, \E j \in Slots : tasks[j].at = at
      PROVE  \E j \in Slots : ts[j].at = at
  BY <1>1, <1>4
<1>5. (Listing(t) => Lists(ts)) /\ (Assigning(t) => Assigns(ts))
  BY <1>1, Zenon DEF Lists, Assigns, Listing, Assigning
<1>6. ASSUME NEW s, s.selected = details.selected, ~(tasks[k].at = "drop" /\ Succeeded(tasks[k])),
             Chosen(db, tab, details, tasks)
      PROVE  Chosen(db, tab, s, ts)
  BY <1>1, <1>6, Zenon DEF Chosen
<1>7. QED
  BY <1>2, <1>3, <1>4, <1>5, <1>6

\* A handler of the tab of agents ends and stops its spinner: a list and a selection it
\* leaves as they were are still to be shown by another, if at all.
LEMMA FinishKeeps ==
    ASSUME PageInv, NEW k \in Slots, tasks[k].at \in DetailsPlaces, NEW d, GoodDetails(d), d.temp = details.temp,
           Finish(k, d, url), Stay,
           Calm(db, tab, url, details, panel, tasks, drafts) =>
              /\ tasks[k].at = "save" => ~details.temp
              /\ \/ d.selected \in DOMAIN db.agents \cup {None, Temp}
                 \/ d.selected = details.selected /\ ~(tasks[k].at = "drop" /\ Succeeded(tasks[k]))
              /\ \/ d.agents = DOMAIN db.agents
                 \/ d.agents = details.agents /\ ~Listing(tasks[k])
    PROVE  PageInv'
<1> DEFINE D == Show(k, [d EXCEPT !.loading = FALSE])
<1>1. /\ GoodDetails(D) /\ D.temp = details.temp /\ (D.loading => details.loading)
      /\ tasks[k].live => D.loading = FALSE /\ D.selected = d.selected /\ D.agents = d.agents
  <2>1. GoodDetails(details) /\ d \in DetailsType
    BY DEF PageInv, TypeInv, GoodDetails
  <2>2. CASE tasks[k].live
    BY <2>1, <2>2 DEF Show, GoodDetails, DetailsType
  <2>3. CASE ~tasks[k].live
    BY <2>1, <2>3 DEF Show
  <2>4. QED
    BY <2>2, <2>3
<1>2. PICK ts : ts = [tasks EXCEPT ![k] = Idle]
  OBVIOUS
<1>3. Render(D, panel, url, ts)
  BY <1>2, Zenon DEF Finish, End
<1> HIDE DEF D
<1>4. /\ Idle.at = "idle" /\ tasks[k].at # "idle" /\ tasks[k].at \notin PanelPlaces /\ tasks[k].at \notin FormPlaces
      /\ Idle.at \in MayOverlap \cup {"idle"}
  BY IdleIs DEF DetailsPlaces, PanelPlaces, FormPlaces
<1>5. panel \in PanelType /\ url \in Urls /\ tab \in Tabs /\ GoodTasks(tasks)
  BY DEF PageInv, TypeInv
<1>6. ASSUME Calm(db, tab, url, details, panel, tasks, drafts)
      PROVE  /\ ~Reloads(D, url)
             /\ D.temp => details.temp /\ tasks[k].at # "save"
             /\ Chosen(db, tab, D, ts) /\ Current(db, tab, url, D, panel, ts)
  <2>1. tasks[k].live /\ tab = "Agents" /\ tab \notin Panels
    BY <1>4, <1>5, <1>6, PatientTask DEF Panels
  <2>2. ~Reloads(D, url)
    BY <1>1 DEF Reloads
  <2>3. Chosen(db, tab, D, ts)
    <3>1. CASE D.selected \in DOMAIN db.agents \cup {None, Temp}
      BY <3>1 DEF Chosen
    <3>2. CASE D.selected = details.selected /\ ~(tasks[k].at = "drop" /\ Succeeded(tasks[k]))
      BY <1>2, <1>5, <1>6, <3>2, KeptShown DEF Calm
    <3>3. QED
      BY <1>1, <1>6, <2>1, <3>1, <3>2
  <2>4. Current(db, tab, url, D, panel, ts)
    <3>1. CASE D.agents = DOMAIN db.agents
      BY <2>1, <3>1 DEF Current
    <3>2. CASE D.agents = details.agents /\ ~Listing(tasks[k])
      <4>1. Lists(tasks) => Lists(ts)
        BY <1>2, <1>5, <3>2, KeptShown
      <4>2. QED
        BY <1>6, <2>1, <3>2, <4>1 DEF Calm, Current
    <3>3. QED
      BY <1>1, <1>6, <2>1, <3>1, <3>2
  <2>5. QED
    BY <1>1, <1>6, <2>2, <2>3, <2>4
<1>7. Becomes(k, Idle)
  BY Ends
<1>8. QED
  BY <1>1, <1>2, <1>3, <1>4, <1>5, <1>6, <1>7, HandlerKeeps

\* Answers, request by request.
LEMMA TellsIs ==
    /\ \A data : Tells(getAllAgents, data) => data \in SUBSET Agents
    /\ \A a, data : Tells(getAgentById(a), data) =>
          /\ a \in Agents /\ data.id = a /\ FormOf(data) \in SavedForms /\ Meant(a, FormOf(data))
          /\ data.plugins \in SUBSET Items /\ data.topics \in SUBSET Items
    /\ \A f, data : Tells(createAgent(f), data) => data \in Agents
    /\ \A a, f, data : Tells(updateAgent(a, f), data) => data = None
    /\ \A kind, a, data : Tells(assignedItems(kind, a), data) => data \in SUBSET Items
    /\ \A data : Tells(getAvailableTopics, data) => data \in SUBSET Items
<1>1. \A data : Tells(getAllAgents, data) => data \in SUBSET Agents
  BY DEF Tells, getAllAgents
<1>2. ASSUME NEW a, NEW data, Tells(getAgentById(a), data)
      PROVE  /\ a \in Agents /\ data.id = a /\ FormOf(data) \in SavedForms /\ Meant(a, FormOf(data))
             /\ data.plugins \in SUBSET Items /\ data.topics \in SUBSET Items
  <2>1. PICK r : r = getAgentById(a)
    OBVIOUS
  <2>2. r[1] = "getAgentById" /\ r[2] = a
    BY <2>1 DEF getAgentById
  <2>3. Tells(r, data)
    BY <1>2, <2>1, Zenon
  <2>4. QED
    BY <2>2, <2>3, Zenon DEF Tells
<1>3. \A f, data : Tells(createAgent(f), data) => data \in Agents
  BY DEF Tells, createAgent
<1>4. \A a, f, data : Tells(updateAgent(a, f), data) => data = None
  BY DEF Tells, updateAgent
<1>5. \A kind, a, data : Tells(assignedItems(kind, a), data) => data \in SUBSET Items
  BY DEF Tells, assignedItems
<1>6. \A data : Tells(getAvailableTopics, data) => data \in SUBSET Items
  BY DEF Tells, getAvailableTopics, availableItems
<1>7. QED
  BY <1>1, <1>2, <1>3, <1>4, <1>5, <1>6

\* What an answer that is still so says of the records.
LEMMA StillSoIs ==
    ASSUME NEW d, NEW a
    PROVE  /\ StillSo(d, getAllAgents, a) => a.ok /\ a.data = DOMAIN d.agents
           /\ \A x : StillSo(d, getAgentById(x), a) => (a.ok <=> x \in DOMAIN d.agents)
           /\ \A kind, x : StillSo(d, assignedItems(kind, x), a) =>
                 (a.ok <=> x \in DOMAIN d.agents) /\ (a.ok => a.data = ItemsIn(d, kind, x))
           /\ \A f : StillSo(d, createAgent(f), a) => a.ok
<1>1. StillSo(d, getAllAgents, a) => a = Ok(DOMAIN d.agents)
  BY DEF StillSo, getAllAgents
<1>2. \A data : Ok(data).ok /\ Ok(data).data = data
  BY DEF Ok
<1>3. \A x : StillSo(d, getAgentById(x), a) => (a.ok <=> x \in DOMAIN d.agents)
  BY DEF StillSo, getAgentById
<1>4. \A kind, x : StillSo(d, assignedItems(kind, x), a) =>
                 (a.ok <=> x \in DOMAIN d.agents) /\ (a.ok => a.data = ItemsIn(d, kind, x))
  BY DEF StillSo, assignedItems
<1>5. \A f : StillSo(d, createAgent(f), a) => a.ok
  BY DEF StillSo, createAgent
<1>6. QED
  BY <1>1, <1>2, <1>3, <1>4, <1>5

\* The details of an agent that has answered are shown.
LEMMA ShownIs ==
    ASSUME GoodDetails(details), NEW a, NEW agent, Tells(getAgentById(a), agent), NEW d, d = Shown(details, agent)
    PROVE  /\ GoodDetails(d) /\ d.selected = a /\ a \in Agents /\ d.agents = details.agents
           /\ d.temp = details.temp /\ d.loading = details.loading
<1>1. a \in Agents /\ agent.id = a /\ FormOf(agent) \in SavedForms /\ Meant(a, FormOf(agent))
  BY TellsIs
<1>2. PICK x, f : x = agent.id /\ f = FormOf(agent)
  OBVIOUS
<1>3. d = [details EXCEPT !.selected = x, !.form = f]
  BY <1>2, Zenon DEF Shown
<1>4. x = a /\ x \in Agents /\ f \in Forms /\ Meant(x, f)
  BY <1>1, <1>2 DEF SavedForms
<1>5. d \in DetailsType /\ d.selected = x /\ d.form = f /\ d.agents = details.agents /\ d.temp = details.temp /\ d.loading = details.loading
  BY <1>3, <1>4 DEF GoodDetails, DetailsType, Ids
<1>6. QED
  BY <1>4, <1>5 DEF GoodDetails

\* The list arrives.
LEMMA ListedIs ==
    ASSUME GoodDetails(details), NEW x \in SUBSET Agents, NEW d, d = [details EXCEPT !.agents = x]
    PROVE  /\ GoodDetails(d) /\ d.agents = x /\ d.selected = details.selected
           /\ d.temp = details.temp /\ d.loading = details.loading
  BY DEF GoodDetails, DetailsType

\* The first load of the tab.
LEMMA LoadKeeps ==
    ASSUME PageInv, NEW k \in Slots, LoadLists(k)
    PROVE  PageInv'
<1> DEFINE arg == tasks[k].arg
           x == Data(tasks[k], getAllAgents)
           d == [details EXCEPT !.agents = x]
<1>1. /\ tasks[k].at = "load" /\ tasks[k].sent = {} /\ ~Threw(tasks[k]) /\ Stay
      /\ IF arg.id # None /\ ~arg.temp
         THEN Render(d, panel, url, Goto(tasks, k, "loadAgent", {getAgentById(arg.id)}))
         ELSE Finish(k, d, url)
  BY Zenon DEF LoadLists, At, Resolved
<1>2. tab \in Tabs /\ GoodTask(tasks[k]) /\ GoodDetails(details) /\ panel \in PanelType /\ url \in Urls
      /\ GoodTasks(tasks)
  BY DEF PageInv, TypeInv, GoodTasks
<1>3. DOMAIN tasks[k].got = {getAllAgents} /\ arg \in [id : Urls, temp : BOOLEAN]
  BY <1>1, <1>2, Answers DEF Asks
<1>4. x \in SUBSET Agents
  BY <1>1, <1>2, <1>3, Answers, TellsIs
<1>5. /\ GoodDetails(d) /\ d.agents = x /\ d.selected = details.selected
      /\ d.temp = details.temp /\ d.loading = details.loading
  BY <1>2, <1>4, ListedIs
<1>6. ASSUME Calm(db, tab, url, details, panel, tasks, drafts)
      PROVE  x = DOMAIN db.agents /\ tab = "Agents"
  BY <1>1, <1>2, <1>3, <1>6, PatientTask, StillSoIs DEF Data, DetailsPlaces
<1> HIDE DEF d, x
<1>7. CASE arg.id # None /\ ~arg.temp
  <2>1. Asks("loadAgent", arg, {getAgentById(arg.id)})
    BY <1>3, <1>7 DEF Asks, Urls
  <2>2. "loadAgent" \in DetailsPlaces /\ "loadAgent" \in MayOverlap /\ "loadAgent" \notin PanelPlaces \cup FormPlaces
        /\ "load" \in DetailsPlaces /\ "load" \notin PanelPlaces \cup FormPlaces
    BY DEF DetailsPlaces, PanelPlaces, FormPlaces, MayOverlap
  <2> HIDE DEF arg
  <2>3. Asks("loadAgent", tasks[k].arg, {getAgentById(arg.id)})
    BY <2>1 DEF arg
  <2>4. PICK t : /\ Goto(tasks, k, "loadAgent", {getAgentById(arg.id)}) = [tasks EXCEPT ![k] = t]
                 /\ t.at = "loadAgent" /\ Becomes(k, t)
    <3>1. PICK at, q : at = "loadAgent" /\ q = {getAgentById(arg.id)}
      OBVIOUS
    <3>2. PICK t : t = Handler(at, tasks[k].arg, q, tasks[k].live)
      OBVIOUS
    <3>3. MayGoOn(k, at, q)
      BY <1>1, <2>2, <2>3, <3>1 DEF MayGoOn
    <3>4. Goto(tasks, k, at, q) = [tasks EXCEPT ![k] = t] /\ t.at = at /\ Becomes(k, t)
      BY <3>2, <3>3, GoesOnKeeps
    <3>5. QED
      BY <3>1, <3>4, Zenon
  <2>5. PICK ts : ts = [tasks EXCEPT ![k] = t] /\ Render(d, panel, url, ts)
    BY <1>1, <1>7, <2>4, Zenon DEF arg
  <2>6. ASSUME Calm(db, tab, url, details, panel, tasks, drafts)
        PROVE  /\ ~Reloads(d, url)
               /\ d.temp => details.temp /\ tasks[k].at # "save"
               /\ Chosen(db, tab, d, ts) /\ Current(db, tab, url, d, panel, ts)
    <3>1. d.agents = DOMAIN db.agents /\ tab \notin Panels
      BY <1>5, <1>6, <2>6 DEF Panels
    <3>2. Current(db, tab, url, d, panel, ts)
      BY <3>1 DEF Current
    <3>3. Chosen(db, tab, d, ts)
      BY <1>1, <1>2, <1>5, <2>5, <2>6, KeptShown DEF Calm
    <3>4. QED
      BY <1>1, <1>5, <3>2, <3>3 DEF Reloads
  <2>7. QED
    BY <1>1, <1>2, <1>5, <2>2, <2>4, <2>5, <2>6, HandlerKeeps
<1>8. CASE ~(arg.id # None /\ ~arg.temp)
  <2>1. Finish(k, d, url) /\ tasks[k].at \in DetailsPlaces
    BY <1>1, <1>8 DEF DetailsPlaces
  <2>2. QED
    BY <1>1, <1>5, <1>6, <2>1, FinishKeeps
<1>9. QED
  BY <1>7, <1>8

\* The agent of the URL is fetched.
LEMMA LoadAgentKeeps ==
    ASSUME PageInv, NEW k \in Slots, LoadAgent(k)
    PROVE  PageInv'
<1> DEFINE a == tasks[k].arg.id
           agent == Data(tasks[k], getAgentById(a))
           d == Shown(details, agent)
<1>1. tasks[k].at = "loadAgent" /\ tasks[k].sent = {} /\ ~Threw(tasks[k]) /\ Stay /\ Finish(k, d, url)
  BY Zenon DEF LoadAgent, At, Resolved
<1>2. tab \in Tabs /\ GoodTask(tasks[k]) /\ GoodDetails(details)
  BY DEF PageInv, TypeInv, GoodTasks
<1>3. DOMAIN tasks[k].got = {getAgentById(a)}
  BY <1>1, <1>2, Answers DEF Asks
<1>4. Tells(getAgentById(a), agent) /\ tasks[k].got[getAgentById(a)].ok
  BY <1>1, <1>2, <1>3, Answers
<1> HIDE DEF agent, a
<1>5. /\ GoodDetails(d) /\ d.selected = a /\ d.agents = details.agents /\ d.temp = details.temp
  BY <1>2, <1>4, ShownIs
<1>6. ASSUME Calm(db, tab, url, details, panel, tasks, drafts)
      PROVE  a \in DOMAIN db.agents
  BY <1>1, <1>2, <1>3, <1>4, <1>6, PatientTask, StillSoIs
<1> HIDE DEF d
<1>7. tasks[k].at \in DetailsPlaces /\ ~Listing(tasks[k])
  BY <1>1 DEF DetailsPlaces, Listing
<1>8. QED
  BY <1>1, <1>5, <1>6, <1>7, FinishKeeps

\* A fetch of the tab of agents fails.
LEMMA LoadFailedKeeps ==
    ASSUME PageInv, NEW k \in Slots, LoadFailed(k)
    PROVE  PageInv'
<1>1. tasks[k].at \in {"load", "loadAgent"} /\ Threw(tasks[k]) /\ Stay /\ Finish(k, details, url)
  BY DEF LoadFailed, At
<1>2. tab \in Tabs /\ GoodTask(tasks[k]) /\ GoodDetails(details)
  BY DEF PageInv, TypeInv, GoodTasks
<1>3. ASSUME Calm(db, tab, url, details, panel, tasks, drafts)
      PROVE  tasks[k].at # "load"
  <2>1. SUFFICES ASSUME tasks[k].at = "load" PROVE FALSE
    OBVIOUS
  <2>2. Asks("load", tasks[k].arg, tasks[k].sent \cup DOMAIN tasks[k].got)
    BY <1>2, <2>1, BusyIs
  <2>3. DOMAIN tasks[k].got \subseteq {getAllAgents}
    BY <2>2 DEF Asks
  <2>4. \A r \in DOMAIN tasks[k].got : tasks[k].got[r].ok
    BY <1>2, <1>3, <2>1, <2>3, PatientTask, StillSoIs
  <2>5. QED
    BY <1>1, <2>4 DEF Threw
<1>4. tasks[k].at = "loadAgent" => ~Listing(tasks[k])
  BY DEF Listing
<1>5. QED
  BY <1>1, <1>2, <1>3, <1>4, FinishKeeps DEF DetailsPlaces

\* An agent the user selected.
LEMMA ShowKeeps ==
    ASSUME PageInv, NEW k \in Slots, ShowAgent(k)
    PROVE  PageInv'
<1> DEFINE a == tasks[k].arg
           agent == Data(tasks[k], getAgentById(a))
<1>1. /\ tasks[k].at = "show" /\ tasks[k].sent = {} /\ Stay
      /\ IF Threw(tasks[k]) THEN Render(details, panel, url, End(tasks, k))
         ELSE Render(Show(k, Shown(details, agent)), panel, a, End(tasks, k))
  BY Zenon DEF ShowAgent, At
<1>2. tab \in Tabs /\ GoodTask(tasks[k]) /\ GoodDetails(details) /\ panel \in PanelType /\ url \in Urls
      /\ GoodTasks(tasks)
  BY DEF PageInv, TypeInv, GoodTasks
<1>3. DOMAIN tasks[k].got = {getAgentById(a)}
  BY <1>1, <1>2, Answers DEF Asks
<1>4. ~Threw(tasks[k]) => Tells(getAgentById(a), agent) /\ tasks[k].got[getAgentById(a)].ok
  BY <1>1, <1>2, <1>3, Answers
<1> HIDE DEF agent, a
<1>5. PICK d, u :
        /\ Render(d, panel, u, [tasks EXCEPT ![k] = Idle])
        /\ GoodDetails(d) /\ u \in Urls /\ d.agents = details.agents /\ d.temp = details.temp
        /\ d.loading = details.loading
        /\ d.selected = details.selected \/ (~Threw(tasks[k]) /\ d.selected = a)
  <2>1. CASE Threw(tasks[k])
    BY <1>1, <1>2, <2>1 DEF End
  <2>2. CASE ~Threw(tasks[k])
    <3>1. PICK d : d = Show(k, Shown(details, agent))
      OBVIOUS
    <3>2. /\ GoodDetails(d) /\ d.agents = details.agents /\ d.temp = details.temp /\ d.loading = details.loading
          /\ d.selected = details.selected \/ d.selected = a
      BY <1>2, <1>4, <2>2, <3>1, ShownIs DEF Show
    <3>3. a \in Urls
      BY <1>2, <1>4, <2>2, TellsIs DEF Urls
    <3>4. Render(d, panel, a, [tasks EXCEPT ![k] = Idle])
      BY <1>1, <2>2, <3>1, Zenon DEF End
    <3>5. QED
      BY <2>2, <3>2, <3>3, <3>4
  <2>3. QED
    BY <2>1, <2>2
<1>6. /\ Idle.at = "idle" /\ "show" \notin DetailsPlaces \cup PanelPlaces \cup FormPlaces
      /\ ~Listing(tasks[k]) /\ tasks[k].at # "drop"
  BY <1>1, IdleIs DEF DetailsPlaces, PanelPlaces, FormPlaces, Listing
<1>7. PICK ts : ts = [tasks EXCEPT ![k] = Idle]
  OBVIOUS
<1>8. ASSUME Calm(db, tab, url, details, panel, tasks, drafts)
      PROVE  /\ tab = "Agents" /\ (d.temp => details.temp)
             /\ Chosen(db, tab, d, ts) /\ Current(db, tab, u, d, panel, ts)
  <2>1. tab = "Agents" /\ tab \notin Panels
    BY <1>1, <1>2, <1>8, PatientTask DEF PlacesOf, PanelPlaces, FormPlaces, Panels
  <2>2. Current(db, tab, u, d, panel, ts)
    <3>1. Lists(tasks) => Lists(ts)
      BY <1>2, <1>6, <1>7, KeptShown
    <3>2. QED
      BY <1>5, <1>8, <2>1, <3>1 DEF Calm, Current
  <2>3. Chosen(db, tab, d, ts)
    <3>1. CASE d.selected = details.selected
      BY <1>2, <1>6, <1>7, <1>8, <3>1, KeptShown DEF Calm
    <3>2. CASE ~Threw(tasks[k]) /\ d.selected = a
      <4>1. a \in DOMAIN db.agents
        BY <1>1, <1>2, <1>3, <1>4, <1>8, <3>2, PatientTask, StillSoIs
      <4>2. QED
        BY <3>2, <4>1 DEF Chosen
    <3>3. QED
      BY <1>5, <3>1, <3>2
  <2>4. QED
    BY <1>5, <2>1, <2>2, <2>3
<1>9. Becomes(k, Idle)
  BY Ends
<1>10. QED
  BY <1>1, <1>2, <1>5, <1>6, <1>7, <1>8, <1>9, HandlerKeeps

\* A handler of the tab of agents goes on.
LEMMA ProceedKeeps ==
    ASSUME PageInv, NEW k \in Slots, tasks[k].at \in DetailsPlaces, NEW t, Becomes(k, t), t.at \in DetailsPlaces,
           NEW d, GoodDetails(d), NEW u \in Urls, NEW ts, ts = [tasks EXCEPT ![k] = t], Render(d, panel, u, ts), Stay,
           d.loading => details.loading \/ tasks[k].live,
           Calm(db, tab, url, details, panel, tasks, drafts) =>
              /\ t.at \in MayOverlap \/ ~Reloads(d, u)
              /\ d.temp => details.temp /\ tasks[k].at # "save"
              /\ \/ d.selected \in DOMAIN db.agents \cup {None, Temp}
                 \/ d.selected = details.selected /\ ~(tasks[k].at = "drop" /\ Succeeded(tasks[k]))
              /\ \/ Listing(t)
                 \/ d.agents = details.agents /\ ~Listing(tasks[k])
    PROVE  PageInv'
<1>1. /\ t.at # "idle" /\ tasks[k].at # "idle" /\ tasks[k].at \notin PanelPlaces /\ tasks[k].at \notin FormPlaces
  BY DEF DetailsPlaces, PanelPlaces, FormPlaces
<1>2. panel \in PanelType /\ tab \in Tabs /\ GoodTasks(tasks)
  BY DEF PageInv, TypeInv
<1>3. ASSUME Calm(db, tab, url, details, panel, tasks, drafts)
      PROVE  /\ tab = "Agents"
             /\ Chosen(db, tab, d, ts) /\ Current(db, tab, u, d, panel, ts)
  <2>1. tasks[k].live /\ tab = "Agents" /\ tab \notin Panels
    BY <1>1, <1>2, <1>3, PatientTask DEF Panels
  <2>2. Chosen(db, tab, d, ts)
    <3>1. CASE d.selected \in DOMAIN db.agents \cup {None, Temp}
      BY <3>1 DEF Chosen
    <3>2. CASE d.selected = details.selected /\ ~(tasks[k].at = "drop" /\ Succeeded(tasks[k]))
      BY <1>2, <1>3, <3>2, KeptShown DEF Calm
    <3>3. QED
      BY <1>3, <3>1, <3>2
  <2>3. Current(db, tab, u, d, panel, ts)
    <3>1. CASE Listing(t)
      <4>1. Lists(ts)
        BY <1>2, <3>1, KeptShown
      <4>2. QED
        BY <2>1, <4>1 DEF Current
    <3>2. CASE d.agents = details.agents /\ ~Listing(tasks[k])
      <4>1. Lists(tasks) => Lists(ts)
        BY <1>2, <3>2, KeptShown
      <4>2. QED
        BY <1>3, <2>1, <3>2, <4>1 DEF Calm, Current
    <3>3. QED
      BY <1>3, <3>1, <3>2
  <2>4. QED
    BY <2>1, <2>2, <2>3
<1>4. QED
  BY <1>1, <1>2, <1>3, HandlerKeeps

\* Saving, before the answer and after it.
LEMMA SaveWrittenKeeps ==
    ASSUME PageInv, NEW k \in Slots, SaveWritten(k)
    PROVE  PageInv'
<1>1. tasks[k].at = "save" /\ tasks[k].sent = {} /\ ~Threw(tasks[k]) /\ Stay
  BY DEF SaveWritten, At, Resolved
<1>2. tab \in Tabs /\ GoodTask(tasks[k]) /\ GoodDetails(details) /\ url \in Urls
  BY DEF PageInv, TypeInv, GoodTasks
<1>3. PICK r, x, q, d :
        /\ r \in DOMAIN tasks[k].got
        /\ x = Data(tasks[k], r) /\ q = {getAllAgents, getAgentById(x)}
        /\ d = Show(k, IF tasks[k].arg.temp THEN [details EXCEPT !.temp = FALSE] ELSE details)
        /\ Render(d, panel, url, Goto(tasks, k, "refresh", q))
  BY Zenon DEF SaveWritten
<1>4. x \in Urls
  <2>1. Asks("save", tasks[k].arg, DOMAIN tasks[k].got)
    BY <1>1, <1>2, Answers
  <2>2. \E f, a : r = createAgent(f) \/ r = updateAgent(a, f)
    BY <1>3, <2>1 DEF Asks
  <2>3. Tells(r, x)
    BY <1>1, <1>2, <1>3, Answers
  <2>4. QED
    BY <2>2, <2>3, TellsIs DEF Urls
<1>5. /\ GoodDetails(d) /\ d.agents = details.agents /\ d.selected = details.selected /\ d.loading = details.loading
      /\ d.temp => details.temp /\ (~tasks[k].live \/ ~tasks[k].arg.temp)
  <2>1. details \in DetailsType
    BY <1>2 DEF GoodDetails
  <2>2. CASE tasks[k].live /\ tasks[k].arg.temp
    <3>1. d = [details EXCEPT !.temp = FALSE]
      BY <1>3, <2>2 DEF Show
    <3>2. QED
      BY <1>2, <2>1, <3>1 DEF GoodDetails, DetailsType
  <2>3. CASE ~(tasks[k].live /\ tasks[k].arg.temp)
    <3>1. d = details
      BY <1>3, <2>3 DEF Show
    <3>2. QED
      BY <1>2, <2>3, <3>1
  <2>4. QED
    BY <2>2, <2>3
<1>6. MayGoOn(k, "refresh", q)
  <2>1. Asks("refresh", tasks[k].arg, q)
    BY <1>3, <1>4 DEF Asks
  <2>2. QED
    BY <1>1, <2>1 DEF MayGoOn, DetailsPlaces, PanelPlaces, FormPlaces, MayOverlap
<1>7. PICK t : t = Handler("refresh", tasks[k].arg, q, tasks[k].live)
  OBVIOUS
<1>8. Goto(tasks, k, "refresh", q) = [tasks EXCEPT ![k] = t] /\ t.at = "refresh" /\ Becomes(k, t)
  BY <1>6, <1>7, GoesOnKeeps
<1>9. PICK ts : ts = [tasks EXCEPT ![k] = t] /\ Render(d, panel, url, ts)
  BY <1>3, <1>8, Zenon
<1>10. Listing(t) /\ t.at \in DetailsPlaces /\ t.at \in MayOverlap /\ tasks[k].at \in DetailsPlaces
  BY <1>1, <1>8 DEF Listing, DetailsPlaces, MayOverlap
<1>11. ASSUME Calm(db, tab, url, details, panel, tasks, drafts) PROVE ~d.temp
  <2>1. tasks[k].live /\ details.temp = tasks[k].arg.temp
    BY <1>1, <1>2, <1>11, PatientTask DEF Calm, Counted
  <2>2. QED
    BY <1>5, <2>1
<1>12. QED
  BY <1>1, <1>2, <1>5, <1>8, <1>9, <1>10, <1>11, ProceedKeeps

\* Save is refused, or fails.
LEMMA SaveFailedKeeps ==
    ASSUME PageInv, NEW k \in Slots, SaveFailed(k)
    PROVE  PageInv'
<1>1. tasks[k].at = "save" /\ Threw(tasks[k]) /\ Stay /\ Finish(k, details, url)
  BY DEF SaveFailed, At
<1>2. tab \in Tabs /\ GoodTask(tasks[k]) /\ GoodDetails(details)
  BY DEF PageInv, TypeInv, GoodTasks
<1>3. Asks("save", tasks[k].arg, tasks[k].sent \cup DOMAIN tasks[k].got)
  BY <1>1, <1>2, BusyIs
<1>4. PICK r \in DOMAIN tasks[k].got : ~tasks[k].got[r].ok
  BY <1>1 DEF Threw
<1>5. ASSUME Calm(db, tab, url, details, panel, tasks, drafts)
      PROVE  ~details.temp /\ ~Succeeded(tasks[k])
  <2>1. ASSUME NEW f, r = createAgent(f) PROVE FALSE
    BY <1>1, <1>2, <1>4, <1>5, <2>1, PatientTask, StillSoIs
  <2>2. ~tasks[k].arg.temp /\ DOMAIN tasks[k].got \subseteq {r}
    BY <1>3, <1>4, <2>1 DEF Asks
  <2>3. details.temp = tasks[k].arg.temp
    BY <1>1, <1>5 DEF Calm, Counted
  <2>4. QED
    BY <1>4, <2>2, <2>3 DEF Succeeded
<1>6. tasks[k].at \in DetailsPlaces /\ (~Succeeded(tasks[k]) => ~Listing(tasks[k]))
  BY <1>1 DEF DetailsPlaces, Listing
<1>7. QED
  BY <1>1, <1>2, <1>5, <1>6, FinishKeeps

\* The list comes after a save.
LEMMA SaveListedKeeps ==
    ASSUME PageInv, NEW k \in Slots, SaveListed(k)
    PROVE  PageInv'
<1>1. tasks[k].at = "refresh" /\ tasks[k].sent = {} /\ DOMAIN tasks[k].got = {getAllAgents} /\ Stay
      /\ IF Threw(tasks[k]) THEN Finish(k, details, url)
         ELSE Finish(k, [details EXCEPT !.agents = Data(tasks[k], getAllAgents)], url)
  BY Zenon DEF SaveListed, At
<1>2. tab \in Tabs /\ GoodTask(tasks[k]) /\ GoodDetails(details) /\ tasks[k].at \in DetailsPlaces
  BY <1>1 DEF PageInv, TypeInv, GoodTasks, DetailsPlaces
<1>3. ASSUME Calm(db, tab, url, details, panel, tasks, drafts)
      PROVE  ~Threw(tasks[k]) /\ Data(tasks[k], getAllAgents) = DOMAIN db.agents
  BY <1>1, <1>2, <1>3, PatientTask, StillSoIs DEF Threw, Data
<1>4. CASE Threw(tasks[k])
  BY <1>1, <1>2, <1>3, <1>4, FinishKeeps
<1>5. CASE ~Threw(tasks[k])
  <2>1. Data(tasks[k], getAllAgents) \in SUBSET Agents
    BY <1>1, <1>2, <1>5, Answers, TellsIs
  <2>2. PICK d : d = [details EXCEPT !.agents = Data(tasks[k], getAllAgents)]
    OBVIOUS
  <2>3. /\ GoodDetails(d) /\ d.agents = Data(tasks[k], getAllAgents) /\ d.selected = details.selected
        /\ d.temp = details.temp
    BY <1>2, <2>1, <2>2, ListedIs
  <2>4. Finish(k, d, url)
    BY <1>1, <1>5, <2>2
  <2>5. QED
    BY <1>1, <1>2, <1>3, <2>3, <2>4, FinishKeeps
<1>6. QED
  BY <1>4, <1>5

\* A handler that has read one of its answers.
LEMMA ReadIs ==
    ASSUME GoodTasks(tasks), NEW k \in Slots, tasks[k].at = "refresh", NEW r \in DOMAIN tasks[k].got \ {getAllAgents},
           NEW ts, ts = [tasks EXCEPT ![k].got = [q \in DOMAIN @ \ {r} |-> @[q]]]
    PROVE  /\ \E a \in Urls : r = getAgentById(a)
           /\ \E t : ts = [tasks EXCEPT ![k] = t] /\ t.at = "refresh" /\ Becomes(k, t)
<1>1. /\ tasks[k] = [at |-> tasks[k].at, arg |-> tasks[k].arg, sent |-> tasks[k].sent, got |-> tasks[k].got, live |-> tasks[k].live]
      /\ tasks[k].live \in BOOLEAN /\ tasks[k].sent \cap DOMAIN tasks[k].got = {}
      /\ Asks("refresh", tasks[k].arg, tasks[k].sent \cup DOMAIN tasks[k].got)
      /\ \A x \in DOMAIN tasks[k].got : GoodAnswer(x, tasks[k].got[x])
  BY BusyIs DEF GoodTasks
<1>2. PICK a \in Urls : tasks[k].sent \cup DOMAIN tasks[k].got \in {{getAllAgents}, {getAllAgents, getAgentById(a)}}
  BY <1>1 DEF Asks
<1>3. r = getAgentById(a) /\ tasks[k].sent \cup (DOMAIN tasks[k].got \ {r}) = {getAllAgents}
  BY <1>1, <1>2
<1>4. PICK g : g = [q \in DOMAIN tasks[k].got \ {r} |-> tasks[k].got[q]]
  OBVIOUS
<1>5. PICK t : t = [tasks[k] EXCEPT !.got = g]
  OBVIOUS
<1>6. ts = [tasks EXCEPT ![k] = t]
  BY <1>4, <1>5, Zenon
<1>7. /\ t = [at |-> t.at, arg |-> t.arg, sent |-> t.sent, got |-> t.got, live |-> t.live]
      /\ t.at = "refresh" /\ t.sent = tasks[k].sent /\ t.live = tasks[k].live /\ t.got = g /\ t.arg = tasks[k].arg
  BY <1>1, <1>5
<1>8. DOMAIN g = DOMAIN tasks[k].got \ {r} /\ \A x \in DOMAIN g : g[x] = tasks[k].got[x]
  BY <1>4
<1>9. Asks("refresh", t.arg, t.sent \cup DOMAIN t.got)
  BY <1>2, <1>3, <1>7, <1>8 DEF Asks
<1>10. GoodTask(t)
  BY <1>1, <1>7, <1>8, <1>9 DEF GoodTask
<1>11. Becomes(k, t)
  BY <1>7, <1>8, <1>10 DEF Becomes
<1>12. QED
  BY <1>3, <1>6, <1>7, <1>11, Zenon

\* The saved agent comes after a save.
LEMMA SaveShownKeeps ==
    ASSUME PageInv, NEW k \in Slots, SaveShown(k)
    PROVE  PageInv'
<1>1. tasks[k].at = "refresh" /\ Stay
  BY DEF SaveShown, At
<1>2. tab \in Tabs /\ GoodTasks(tasks) /\ GoodTask(tasks[k]) /\ GoodDetails(details) /\ url \in Urls
  BY DEF PageInv, TypeInv, GoodTasks
<1>3. PICK r, ts :
        /\ r \in DOMAIN tasks[k].got \ {getAllAgents}
        /\ ts = [tasks EXCEPT ![k].got = [q \in DOMAIN @ \ {r} |-> @[q]]]
        /\ IF tasks[k].got[r].ok
           THEN Render(Show(k, Shown(details, Data(tasks[k], r))), panel, r[2], ts)
           ELSE Render(details, panel, url, ts)
  BY Zenon DEF SaveShown
<1>4. PICK a \in Urls : r = getAgentById(a)
  BY <1>1, <1>2, <1>3, ReadIs
<1>5. PICK t : ts = [tasks EXCEPT ![k] = t] /\ t.at = "refresh" /\ Becomes(k, t)
  BY <1>1, <1>2, <1>3, ReadIs
<1>6. PICK d, u :
        /\ Render(d, panel, u, ts)
        /\ GoodDetails(d) /\ u \in Urls /\ d.agents = details.agents /\ d.temp = details.temp
        /\ d.loading = details.loading
        /\ d.selected = details.selected \/ (tasks[k].got[r].ok /\ d.selected = a)
  <2>1. CASE ~tasks[k].got[r].ok
    BY <1>2, <1>3, <2>1
  <2>2. CASE tasks[k].got[r].ok
    <3>1. Tells(r, Data(tasks[k], r))
      <4>1. GoodAnswer(r, tasks[k].got[r])
        BY <1>1, <1>2, <1>3, BusyIs
      <4>2. QED
        BY <2>2, <4>1 DEF GoodAnswer, Failure, Data
    <3>2. PICK d : d = Show(k, Shown(details, Data(tasks[k], r)))
      OBVIOUS
    <3>3. /\ GoodDetails(d) /\ d.agents = details.agents /\ d.temp = details.temp /\ d.loading = details.loading
          /\ d.selected = details.selected \/ d.selected = a
      BY <1>2, <1>4, <3>1, <3>2, ShownIs DEF Show
    <3>4. r[2] = a
      BY <1>4 DEF getAgentById
    <3>5. Render(d, panel, a, ts)
      BY <1>3, <2>2, <3>2, <3>4, Zenon
    <3>6. QED
      BY <2>2, <3>3, <3>5
  <2>3. QED
    BY <2>1, <2>2
<1>7. ASSUME Calm(db, tab, url, details, panel, tasks, drafts), tasks[k].got[r].ok PROVE a \in DOMAIN db.agents
  <2>1. StillSo(db, r, tasks[k].got[r])
    BY <1>1, <1>2, <1>3, <1>7, PatientTask
  <2>2. PICK answer : answer = tasks[k].got[r]
    OBVIOUS
  <2>3. StillSo(db, getAgentById(a), answer) /\ answer.ok
    BY <1>4, <1>7, <2>1, <2>2
  <2>4. QED
    BY <2>3, StillSoIs
<1>8. Listing(t) /\ t.at \in DetailsPlaces /\ t.at \in MayOverlap /\ tasks[k].at \in DetailsPlaces
  BY <1>1, <1>5 DEF Listing, DetailsPlaces, MayOverlap
<1>9. Calm(db, tab, url, details, panel, tasks, drafts) =>
          /\ t.at \in MayOverlap \/ ~Reloads(d, u)
          /\ d.temp => details.temp /\ tasks[k].at # "save"
          /\ \/ d.selected \in DOMAIN db.agents \cup {None, Temp}
             \/ d.selected = details.selected /\ ~(tasks[k].at = "drop" /\ Succeeded(tasks[k]))
          /\ \/ Listing(t)
             \/ d.agents = details.agents /\ ~Listing(tasks[k])
  BY <1>1, <1>6, <1>7, <1>8
<1>10. ts = [tasks EXCEPT ![k] = t] /\ Becomes(k, t) /\ t.at \in DetailsPlaces /\ Stay
  BY <1>1, <1>5, <1>8
<1>11. QED
  BY <1>6, <1>8, <1>9, <1>10, ProceedKeeps

\* A handler that goes on with something to remember.
GotoWith(k, at, arg, q) == [Goto(tasks, k, at, q) EXCEPT ![k].arg = arg]
MayGoOnWith(k, at, arg, q) == GoodTasks(tasks) /\ tasks[k].at # "idle" /\ Asks(at, arg, q)
\* A handler that goes on with another argument.
LEMMA GoesOnWith ==
    ASSUME NEW k \in Slots, NEW at, NEW arg, NEW q, MayGoOnWith(k, at, arg, q),
           NEW ts, ts = GotoWith(k, at, arg, q), NEW t, t = Handler(at, arg, q, tasks[k].live)
    PROVE  /\ ts = [tasks EXCEPT ![k] = t] /\ GoodTask(t)
           /\ t.at = at /\ t.arg = arg /\ t.live = tasks[k].live /\ DOMAIN t.got = {}
<1>1. PICK h : h = Handler(at, tasks[k].arg, q, tasks[k].live)
  OBVIOUS
<1>3. PICK g : g = Goto(tasks, k, at, q)
  OBVIOUS
<1>4. g = [tasks EXCEPT ![k] = h]
  BY <1>1, <1>3, GoesOn, Zenon DEF MayGoOnWith
<1>5. DOMAIN tasks = Slots /\ tasks[k].live \in BOOLEAN
  BY BusyIs DEF GoodTasks, MayGoOnWith
<1>6. [h EXCEPT !.arg = arg] = t
  BY <1>1 DEF Handler
<1>7. g[k] = h
  BY <1>4, <1>5
<1>8. ts = [g EXCEPT ![k] = t]
  <2>1. ts = [g EXCEPT ![k] = [g[k] EXCEPT !.arg = arg]]
    BY <1>3, Zenon DEF GotoWith
  <2>2. QED
    BY <1>6, <1>7, <2>1, Zenon
<1>9. ts = [tasks EXCEPT ![k] = t]
  BY <1>4, <1>8
<1>10. GoodTask(t)
  BY <1>5, NewTask DEF MayGoOnWith
<1>11. t.at = at /\ t.arg = arg /\ t.live = tasks[k].live /\ t.got = <<>> /\ DOMAIN <<>> = {}
  BY DEF Handler
<1>12. QED
  BY <1>9, <1>10, <1>11, Zenon

\* What is left to be removed before an agent is deleted.
LEMMA LeftIs ==
    ASSUME NEW s \in ItemSets, NEW kind \in Panels, NEW i
    PROVE  [s EXCEPT ![kind] = @ \ {i}] \in ItemSets
<1>1. CASE kind = "plugins"
  <2>1. [s EXCEPT !["plugins"] = @ \ {i}] \in ItemSets
    BY DEF ItemSets
  <2>2. QED
    BY <1>1, <2>1
<1>2. CASE kind = "topics"
  <2>1. [s EXCEPT !["topics"] = @ \ {i}] \in ItemSets
    BY DEF ItemSets
  <2>2. QED
    BY <1>2, <2>1
<1>3. QED
  BY <1>1, <1>2 DEF Panels

\* Deleting an agent, request by request.
LEMMA DeleteProceedsKeeps ==
    ASSUME PageInv, NEW k \in Slots, DeleteProceeds(k)
    PROVE  PageInv'
<1> DEFINE arg == tasks[k].arg
           LeftAfter(done) ==
               IF done[1] = "getAgentById"
               THEN [plugins |-> Data(tasks[k], done).plugins, topics |-> Data(tasks[k], done).topics]
               ELSE [arg.left EXCEPT ![done[2]] = @ \ {done[4]}]
<1>1. tasks[k].at \in {"delete", "unlink"} /\ tasks[k].sent = {} /\ ~Threw(tasks[k]) /\ Stay
  BY DEF DeleteProceeds, At, Resolved
<1>2. GoodTasks(tasks) /\ GoodTask(tasks[k]) /\ GoodDetails(details) /\ url \in Urls
  BY DEF PageInv, TypeInv, GoodTasks
<1>3. PICK done, left, r, at, a, ts :
        /\ done \in DOMAIN tasks[k].got /\ left = LeftAfter(done) /\ r \in NextOfDelete(arg.id, left.plugins, left.topics)
        /\ at = (IF r[1] = "remove" THEN "unlink" ELSE "drop") /\ a = With(arg, "left", left)
        /\ ts = [Goto(tasks, k, at, {r}) EXCEPT ![k].arg = a]
        /\ Render(details, panel, url, ts)
  BY Zenon DEF DeleteProceeds
<1>4. Asks(tasks[k].at, arg, DOMAIN tasks[k].got) /\ Tells(done, Data(tasks[k], done))
  BY <1>1, <1>2, <1>3, Answers
<1>5. left \in ItemSets /\ "id" \in DOMAIN arg
  <2>1. CASE tasks[k].at = "delete"
    <3>1. done = getAgentById(arg.id) /\ "id" \in DOMAIN arg
      BY <1>3, <1>4, <2>1 DEF Asks
    <3>2. PICK data : data = Data(tasks[k], done)
      OBVIOUS
    <3>3. data.plugins \in SUBSET Items /\ data.topics \in SUBSET Items
      BY <1>4, <3>1, <3>2, TellsIs
    <3>4. done[1] = "getAgentById"
      BY <3>1 DEF getAgentById
    <3>5. left = [plugins |-> data.plugins, topics |-> data.topics]
      BY <1>3, <3>2, <3>4
    <3>6. QED
      BY <3>1, <3>3, <3>5 DEF ItemSets
  <2>2. CASE tasks[k].at = "unlink"
    <3>1. /\ arg.left \in ItemSets /\ "id" \in DOMAIN arg
          /\ \E kind \in Panels, i \in Items : done = removeItem(kind, arg.id, i)
      BY <1>3, <1>4, <2>2 DEF Asks
    <3>2. PICK kind \in Panels, i \in Items : done = removeItem(kind, arg.id, i)
      BY <3>1
    <3>3. done[1] # "getAgentById" /\ done[2] = kind /\ done[4] = i
      BY <3>2 DEF removeItem
    <3>4. PICK s : s = arg.left
      OBVIOUS
    <3>5. left = [s EXCEPT ![kind] = @ \ {i}]
      BY <1>3, <3>3, <3>4, Zenon
    <3>6. QED
      BY <3>1, <3>4, <3>5, LeftIs
  <2>3. QED
    BY <1>1, <2>1, <2>2
<1>6. a.id = arg.id /\ a.left = left /\ {"id", "left"} \subseteq DOMAIN a
  BY <1>3, <1>5 DEF With
<1> HIDE DEF arg
<1>7. at \in {"unlink", "drop"} /\ Asks(at, a, {r})
  <2>1. left.plugins \subseteq Items /\ left.topics \subseteq Items
    BY <1>5 DEF ItemSets
  <2>2. (\E kind \in Panels, i \in Items : r = removeItem(kind, arg.id, i)) \/ r = dropAgent(arg.id)
    BY <1>3, <2>1 DEF NextOfDelete, removePluginFromAgent, removeTopicFromAgent, Panels
  <2>3. CASE \E kind \in Panels, i \in Items : r = removeItem(kind, arg.id, i)
    <3>1. at = "unlink"
      BY <1>3, <2>3 DEF removeItem
    <3>2. Asks(at, a, {r})
      BY <1>5, <1>6, <2>3, <3>1 DEF Asks
    <3>3. QED
      BY <3>1, <3>2
  <2>4. CASE r = dropAgent(arg.id)
    <3>1. at = "drop"
      BY <1>3, <2>4 DEF dropAgent
    <3>2. Asks(at, a, {r})
      BY <1>5, <1>6, <2>4, <3>1 DEF Asks
    <3>3. QED
      BY <3>1, <3>2
  <2>5. QED
    BY <2>2, <2>3, <2>4
<1>8. PICK t : /\ ts = [tasks EXCEPT ![k] = t] /\ GoodTask(t)
               /\ t.at = at /\ t.arg = a /\ t.live = tasks[k].live /\ DOMAIN t.got = {}
  <2>1. PICK q : q = {r}
    OBVIOUS
  <2>2. MayGoOnWith(k, at, a, q) /\ ts = GotoWith(k, at, a, q)
    BY <1>1, <1>2, <1>3, <1>7, <2>1, Zenon DEF GotoWith, MayGoOnWith
  <2>3. PICK t : t = Handler(at, a, q, tasks[k].live)
    OBVIOUS
  <2>4. QED
    BY <2>2, <2>3, GoesOnWith
<1>9. /\ Becomes(k, t) /\ t.at \in DetailsPlaces /\ tasks[k].at \in DetailsPlaces
      /\ ~Listing(tasks[k]) /\ tasks[k].at \notin {"drop", "save"}
  BY <1>1, <1>7, <1>8 DEF Becomes, DetailsPlaces, PanelPlaces, FormPlaces, MayOverlap, Listing
<1>10. QED
  BY <1>1, <1>2, <1>3, <1>8, <1>9, ProceedKeeps DEF Reloads

\* The agent is deleted, and the list is fetched again.
LEMMA DeleteDroppedKeeps ==
    ASSUME PageInv, NEW k \in Slots, DeleteDropped(k)
    PROVE  PageInv'
<1>1. tasks[k].at = "drop" /\ tasks[k].sent = {} /\ ~Threw(tasks[k]) /\ Stay
  BY DEF DeleteDropped, At, Resolved
<1>2. GoodTasks(tasks) /\ GoodDetails(details) /\ None \in Urls /\ tab \in Tabs
  BY DEF PageInv, TypeInv, Urls
<1>3. PICK s, d, q :
        /\ s = [details EXCEPT !.selected = None, !.form = EmptyForm, !.loading = TRUE]
        /\ d = Show(k, s) /\ q = {getAllAgents} /\ Render(d, panel, None, Goto(tasks, k, "relist", q))
  BY Zenon DEF DeleteDropped
<1>4. GoodDetails(s) /\ s.selected = None /\ s.temp = details.temp
  <2>1. details \in DetailsType /\ None \in Ids /\ None \notin Initially /\ EmptyForm \in Forms
    BY <1>2, AgentsAssumption DEF GoodDetails, Ids, EmptyForm, Forms
  <2>2. s \in DetailsType /\ s.selected = None /\ s.temp = details.temp
    BY <1>3, <2>1 DEF DetailsType
  <2>3. QED
    BY <2>1, <2>2 DEF GoodDetails, Meant
<1>5. /\ GoodDetails(d) /\ d.temp = details.temp /\ (d.loading => details.loading \/ tasks[k].live)
      /\ tasks[k].live => d.selected = None
  BY <1>2, <1>3, <1>4 DEF Show
<1>6. MayGoOn(k, "relist", q)
  <2>1. Asks("relist", tasks[k].arg, q)
    BY <1>3 DEF Asks
  <2>2. QED
    BY <1>1, <2>1 DEF MayGoOn, DetailsPlaces, PanelPlaces, FormPlaces, MayOverlap
<1>7. PICK t : t = Handler("relist", tasks[k].arg, q, tasks[k].live)
  OBVIOUS
<1>8. Goto(tasks, k, "relist", q) = [tasks EXCEPT ![k] = t] /\ t.at = "relist" /\ Becomes(k, t)
  BY <1>6, <1>7, GoesOnKeeps
<1>9. PICK ts : ts = [tasks EXCEPT ![k] = t] /\ Render(d, panel, None, ts)
  BY <1>3, <1>8, Zenon
<1>10. Listing(t) /\ t.at \in DetailsPlaces /\ t.at \in MayOverlap /\ tasks[k].at \in DetailsPlaces
  BY <1>1, <1>8 DEF Listing, DetailsPlaces, MayOverlap
<1>11. Calm(db, tab, url, details, panel, tasks, drafts) => tasks[k].live
  BY <1>1, <1>2, PatientTask
<1>12. QED
  BY <1>1, <1>2, <1>5, <1>8, <1>9, <1>10, <1>11, ProceedKeeps

\* The deletion ends, and its modal closes.
LEMMA DeleteEndsKeep ==
    ASSUME PageInv, NEW k \in Slots, DeleteRelisted(k) \/ DeleteFailed(k)
    PROVE  PageInv'
<1>1. GoodTasks(tasks) /\ GoodTask(tasks[k]) /\ GoodDetails(details) /\ tab \in Tabs
  BY DEF PageInv, TypeInv, GoodTasks
<1>2. ASSUME NEW s, GoodDetails(s), NEW d, d = [s EXCEPT !.confirm = None]
      PROVE  GoodDetails(d) /\ d.temp = s.temp /\ d.selected = s.selected /\ d.agents = s.agents
  BY <1>2 DEF GoodDetails, DetailsType, Ids
<1>3. CASE DeleteRelisted(k)
  <2>1. tasks[k].at = "relist" /\ tasks[k].sent = {} /\ Stay /\ tasks[k].at \in DetailsPlaces
    BY <1>3 DEF DeleteRelisted, At, DetailsPlaces
  <2>2. PICK x, s, d :
          /\ x = Data(tasks[k], getAllAgents)
          /\ s = (IF Threw(tasks[k]) THEN details ELSE [details EXCEPT !.agents = x])
          /\ d = [s EXCEPT !.confirm = None] /\ Finish(k, d, url)
    BY <1>3, Zenon DEF DeleteRelisted
  <2>3. DOMAIN tasks[k].got = {getAllAgents}
    BY <1>1, <2>1, Answers DEF Asks
  <2>4. ~Threw(tasks[k]) => x \in SUBSET Agents
    BY <1>1, <2>1, <2>2, <2>3, Answers, TellsIs
  <2>5. /\ GoodDetails(s) /\ s.temp = details.temp /\ s.selected = details.selected
        /\ ~Threw(tasks[k]) => s.agents = x
    BY <1>1, <2>2, <2>4, ListedIs
  <2>6. /\ GoodDetails(d) /\ d.temp = details.temp /\ d.selected = details.selected
        /\ ~Threw(tasks[k]) => d.agents = x
    BY <1>2, <2>2, <2>5
  <2>7. ASSUME Calm(db, tab, url, details, panel, tasks, drafts)
        PROVE  ~Threw(tasks[k]) /\ x = DOMAIN db.agents
    BY <1>1, <2>1, <2>2, <2>3, <2>7, PatientTask, StillSoIs DEF Threw, Data
  <2>8. QED
    BY <2>1, <2>2, <2>6, <2>7, FinishKeeps
<1>4. CASE DeleteFailed(k)
  <2>1. tasks[k].at \in {"delete", "unlink", "drop"} /\ Threw(tasks[k]) /\ Stay /\ tasks[k].at \in DetailsPlaces
    BY <1>4 DEF DeleteFailed, At, DetailsPlaces
  <2>2. PICK d : d = [details EXCEPT !.confirm = None] /\ Finish(k, d, url)
    BY <1>4, Zenon DEF DeleteFailed
  <2>3. GoodDetails(d) /\ d.temp = details.temp /\ d.selected = details.selected /\ d.agents = details.agents
    BY <1>1, <1>2, <2>2
  <2>4. ~Succeeded(tasks[k]) \/ tasks[k].at # "drop"
    <3>1. SUFFICES ASSUME tasks[k].at = "drop" PROVE ~Succeeded(tasks[k])
      OBVIOUS
    <3>2. Asks("drop", tasks[k].arg, tasks[k].sent \cup DOMAIN tasks[k].got)
      BY <1>1, <3>1, BusyIs
    <3>3. DOMAIN tasks[k].got \subseteq {dropAgent(tasks[k].arg.id)}
      BY <3>2 DEF Asks
    <3>4. QED
      BY <2>1, <3>3 DEF Threw, Succeeded
  <2>5. ~Listing(tasks[k])
    BY <2>1, <2>4 DEF Listing
  <2>6. QED
    BY <2>1, <2>2, <2>3, <2>4, <2>5, FinishKeeps
<1>5. QED
  BY <1>3, <1>4

\* A handler of the tabs of items becomes t and shows p.
LEMMA PanelKeeps ==
    ASSUME PageInv, NEW k \in Slots, tasks[k].at \in PanelPlaces \cup FormPlaces, NEW t, Becomes(k, t),
           NEW p, p \in PanelType, NEW ts, ts = [tasks EXCEPT ![k] = t], Render(details, p, url, ts), Stay,
           p.loading => panel.loading, p.submitting => panel.submitting,
           tasks[k].live /\ tasks[k].at \in PanelPlaces /\ t.at = "idle" => ~p.loading,
           tasks[k].at \in FormPlaces /\ t.at = "idle" => ~p.submitting,
           Calm(db, tab, url, details, panel, tasks, drafts) /\ url \in DOMAIN db.agents =>
              /\ p.agent = url \/ (p.agent = panel.agent /\ tasks[k].at # "panelLoad")
              /\ \/ p.assigned = ItemsIn(db, tab, url) \/ Assigning(t)
                 \/ p.assigned = panel.assigned /\ ~Assigning(tasks[k])
    PROVE  PageInv'
<1>1. GoodDetails(details) /\ url \in Urls /\ tab \in Tabs /\ GoodTasks(tasks)
  BY DEF PageInv, TypeInv
<1>2. tasks[k].at \notin DetailsPlaces /\ tasks[k].at \notin {"idle", "save", "drop"} /\ t.at \notin DetailsPlaces
  <2>1. tasks[k].at \notin DetailsPlaces /\ tasks[k].at \notin {"idle", "save", "drop"}
    BY DEF DetailsPlaces, PanelPlaces, FormPlaces
  <2>2. t.at # "idle" => t.at \notin DetailsPlaces
    BY <2>1 DEF Becomes
  <2>3. QED
    BY <2>1, <2>2 DEF DetailsPlaces
<1>3. ~Reloads(details, url)
  BY DEF Reloads
<1>4. ASSUME Calm(db, tab, url, details, panel, tasks, drafts)
      PROVE  Chosen(db, tab, details, ts) /\ Current(db, tab, url, details, p, ts)
  <2>1. tab \in Panels /\ tab # "Agents"
    BY <1>1, <1>2, <1>4, PatientTask DEF Panels
  <2>2. Chosen(db, tab, details, ts)
    BY <2>1 DEF Chosen
  <2>3. ASSUME url \in DOMAIN db.agents
        PROVE  /\ p.agent = url \/ \E j \in Slots : ts[j].at = "panelLoad"
               /\ p.assigned = ItemsIn(db, tab, url) \/ Assigns(ts)
    <3>1. /\ panel.agent = url \/ \E j \in Slots : tasks[j].at = "panelLoad"
          /\ panel.assigned = ItemsIn(db, tab, url) \/ Assigns(tasks)
      BY <1>4, <2>1, <2>3 DEF Calm, Current
    <3>2. p.agent = url \/ \E j \in Slots : ts[j].at = "panelLoad"
      <4>1. CASE p.agent = url
        BY <4>1
      <4>2. CASE p.agent = panel.agent /\ tasks[k].at # "panelLoad"
        BY <1>1, <3>1, <4>2, KeptShown
      <4>3. QED
        BY <1>4, <2>3, <4>1, <4>2
    <3>3. p.assigned = ItemsIn(db, tab, url) \/ Assigns(ts)
      <4>1. CASE p.assigned = ItemsIn(db, tab, url)
        BY <4>1
      <4>2. CASE Assigning(t)
        BY <1>1, <4>2, KeptShown
      <4>3. CASE p.assigned = panel.assigned /\ ~Assigning(tasks[k])
        BY <1>1, <3>1, <4>3, KeptShown
      <4>4. QED
        BY <1>4, <2>3, <4>1, <4>2, <4>3
    <3>4. QED
      BY <3>2, <3>3
  <2>4. QED
    BY <2>1, <2>2, <2>3 DEF Current
<1>5. QED
  BY <1>1, <1>2, <1>3, <1>4, HandlerKeeps

\* The load of a tab of items.
LEMMA PanelLoadedKeeps ==
    ASSUME PageInv, NEW k \in Slots, PanelLoaded(k)
    PROVE  PageInv'
<1> DEFINE arg == tasks[k].arg
<1>1. tasks[k].at = "panelLoad" /\ tasks[k].sent = {} /\ ~Threw(tasks[k]) /\ Stay
  BY DEF PanelLoaded, At, Resolved
<1>2. tab \in Tabs /\ GoodTasks(tasks) /\ GoodTask(tasks[k]) /\ panel \in PanelType
  BY DEF PageInv, TypeInv, GoodTasks
<1>3. PICK x, y, a, p, ts :
        /\ x = Data(tasks[k], getAllAgents) /\ y = Data(tasks[k], assignedItems(arg.kind, arg.id)) /\ a = arg.id
        /\ p = [panel EXCEPT !.agents = x, !.agent = a, !.assigned = y, !.available = Items, !.loading = FALSE]
        /\ ts = [tasks EXCEPT ![k] = Idle] /\ Render(details, p, url, ts)
  BY Zenon DEF PanelLoaded, End
<1>4. /\ arg \in [kind : Panels, id : Agents]
      /\ DOMAIN tasks[k].got = {getAllAgents, getAgentById(arg.id), assignedItems(arg.kind, arg.id)}
  BY <1>1, <1>2, Answers DEF Asks
<1>5. x \in SUBSET Agents /\ y \in SUBSET Items /\ a \in Urls
  <2>1. \A r \in DOMAIN tasks[k].got : Tells(r, Data(tasks[k], r))
    BY <1>1, <1>2, Answers
  <2>2. Tells(getAllAgents, x) /\ Tells(assignedItems(arg.kind, arg.id), y)
    BY <1>3, <1>4, <2>1
  <2>3. QED
    BY <1>3, <1>4, <2>2, TellsIs DEF Urls
<1>6. /\ p \in PanelType /\ ~p.loading /\ p.submitting = panel.submitting /\ p.agent = a /\ p.assigned = y
  BY <1>2, <1>3, <1>5 DEF PanelType
<1>7. ASSUME Calm(db, tab, url, details, panel, tasks, drafts)
      PROVE  p.agent = url /\ p.assigned = ItemsIn(db, tab, url)
  <2>1. arg.kind = tab /\ arg.id = url
    BY <1>1, <1>2, <1>7, PatientTask DEF PanelPlaces
  <2>2. PICK answer : answer = tasks[k].got[assignedItems(arg.kind, arg.id)]
    OBVIOUS
  <2>3. answer.ok /\ answer.data = y
    BY <1>1, <1>3, <1>4, <2>2 DEF Threw, Data
  <2>4. StillSo(db, assignedItems(tab, url), answer)
    BY <1>1, <1>2, <1>4, <1>7, <2>1, <2>2, PatientTask
  <2>5. QED
    BY <1>3, <1>6, <2>1, <2>3, <2>4, StillSoIs
<1>8. "panelLoad" \in PanelPlaces /\ "panelLoad" \notin FormPlaces /\ Becomes(k, Idle)
  BY Ends DEF PanelPlaces, FormPlaces
<1>9. ts = [tasks EXCEPT ![k] = Idle] /\ Render(details, p, url, ts)
  BY <1>3, Zenon
<1>10. QED
  BY <1>1, <1>6, <1>7, <1>8, <1>9, PanelKeeps

\* The load of a tab of items without an agent, and a load that fails.
LEMMA PanelLoadEndsKeep ==
    ASSUME PageInv, NEW k \in Slots, PanelListed(k) \/ PanelLoadFailed(k)
    PROVE  PageInv'
<1>1. /\ tasks[k].at \in {"panelLoad", "panelList"} /\ Stay
      /\ tasks[k].at = "panelLoad" => Threw(tasks[k])
  BY DEF PanelListed, PanelLoadFailed, At
<1>2. tab \in Tabs /\ GoodTasks(tasks) /\ GoodTask(tasks[k]) /\ panel \in PanelType /\ GoodDb(db)
  BY DEF PageInv, TypeInv, GoodTasks
<1>3. PICK x, p, ts :
        /\ x \in SUBSET Agents
        /\ p = [panel EXCEPT !.agents = x, !.loading = FALSE] \/ p = [panel EXCEPT !.loading = FALSE]
        /\ ts = [tasks EXCEPT ![k] = Idle] /\ Render(details, p, url, ts)
  <2>1. CASE PanelListed(k)
    <3>1. tasks[k].at = "panelList" /\ tasks[k].sent = {} /\ ~Threw(tasks[k])
      BY <2>1 DEF PanelListed, At, Resolved
    <3>2. PICK x, p, ts :
        /\ x = Data(tasks[k], getAllAgents) /\ p = [panel EXCEPT !.agents = x, !.loading = FALSE]
        /\ ts = [tasks EXCEPT ![k] = Idle] /\ Render(details, p, url, ts)
      BY <2>1, Zenon DEF PanelListed, End
    <3>3. DOMAIN tasks[k].got = {getAllAgents}
      BY <1>2, <3>1, Answers DEF Asks
    <3>4. x \in SUBSET Agents
      BY <1>2, <3>1, <3>2, <3>3, Answers, TellsIs
    <3>5. QED
      BY <3>2, <3>4
  <2>2. CASE PanelLoadFailed(k)
    BY <2>2, Zenon DEF PanelLoadFailed, End
  <2>3. QED
    BY <2>1, <2>2
<1>4. /\ p \in PanelType /\ ~p.loading /\ p.submitting = panel.submitting
  BY <1>2, <1>3 DEF PanelType
<1>5. ASSUME Calm(db, tab, url, details, panel, tasks, drafts) PROVE url \notin DOMAIN db.agents
  <2>1. tasks[k].arg.kind = tab /\ tasks[k].arg.id = url
    BY <1>1, <1>2, <1>5, PatientTask DEF PanelPlaces
  <2>2. Asks(tasks[k].at, tasks[k].arg, tasks[k].sent \cup DOMAIN tasks[k].got)
    BY <1>1, <1>2, BusyIs
  <2>3. CASE tasks[k].at = "panelList"
    <3>1. url = None
      BY <2>1, <2>2, <2>3 DEF Asks
    <3>2. DOMAIN db.agents \subseteq Agents
      BY <1>2, PartialIs DEF GoodDb
    <3>3. QED
      BY <3>1, <3>2, AgentsAssumption
  <2>4. CASE tasks[k].at = "panelLoad"
    <3>1. PICK r, answer : r \in DOMAIN tasks[k].got /\ answer = tasks[k].got[r] /\ ~answer.ok
      BY <1>1, <2>4 DEF Threw
    <3>2. r \in {getAllAgents, getAgentById(url), assignedItems(tab, url)}
      BY <2>1, <2>2, <2>4, <3>1 DEF Asks
    <3>3. StillSo(db, r, answer)
      BY <1>1, <1>2, <1>5, <3>1, PatientTask
    <3>4. r = getAllAgents => answer.ok
      BY <3>3, StillSoIs
    <3>5. r = getAgentById(url) => (answer.ok <=> url \in DOMAIN db.agents)
      BY <3>3, StillSoIs
    <3>6. ASSUME r = assignedItems(tab, url) PROVE answer.ok <=> url \in DOMAIN db.agents
      <4>1. StillSo(db, assignedItems(tab, url), answer)
        BY <3>3, <3>6, Zenon
      <4>2. QED
        BY <4>1, StillSoIs, Zenon
    <3>7. QED
      BY <3>1, <3>2, <3>4, <3>5, <3>6
  <2>5. QED
    BY <1>1, <2>3, <2>4
<1>6. tasks[k].at \in PanelPlaces /\ tasks[k].at \notin FormPlaces /\ Becomes(k, Idle)
  BY <1>1, Ends DEF PanelPlaces, FormPlaces
<1>7. QED
  BY <1>1, <1>3, <1>4, <1>5, <1>6, PanelKeeps

\* Adding and removing an item, until the items are fetched again.
LEMMA LinkWrittenKeeps ==
    ASSUME PageInv, NEW k \in Slots, LinkWritten(k)
    PROVE  PageInv'
<1> DEFINE arg == tasks[k].arg
<1>1. tasks[k].at \in {"add", "remove"} /\ tasks[k].sent = {} /\ Stay
  BY DEF LinkWritten, At, Resolved
<1>2. GoodTasks(tasks) /\ GoodTask(tasks[k]) /\ panel \in PanelType
  BY DEF PageInv, TypeInv, GoodTasks
<1>3. PICK b \in BOOLEAN : b = At(k, {"add"})
  <2>1. CASE At(k, {"add"})
    <3>1. TRUE = At(k, {"add"})
      BY <2>1, Zenon
    <3>2. QED
      BY <3>1, Zenon
  <2>2. CASE ~At(k, {"add"})
    <3>1. FALSE = At(k, {"add"})
      BY <2>2 DEF At
    <3>2. QED
      BY <3>1, Zenon
  <2>3. QED
    BY <2>1, <2>2, Zenon
<1>4. PICK a, q, ts :
        /\ a = With(arg, "adds", b) /\ q = {assignedItems(arg.kind, arg.id)}
        /\ ts = GotoWith(k, "refetch", a, q) /\ Render(details, panel, url, ts)
  BY <1>3, Zenon DEF LinkWritten, GotoWith
<1>5. arg \in [kind : Panels, id : Agents]
  BY <1>1, <1>2, Answers DEF Asks
<1>6. {"kind", "id", "adds"} \subseteq DOMAIN a /\ a.kind = arg.kind /\ a.id = arg.id /\ a.adds = b
  BY <1>4, <1>5 DEF With
<1>7. Asks("refetch", a, q)
  BY <1>4, <1>5, <1>6 DEF Asks
<1>8. PICK t : t = Handler("refetch", a, q, tasks[k].live)
  OBVIOUS
<1>9. MayGoOnWith(k, "refetch", a, q)
  BY <1>1, <1>2, <1>7 DEF MayGoOnWith
<1>10. /\ ts = [tasks EXCEPT ![k] = t] /\ GoodTask(t)
       /\ t.at = "refetch" /\ t.arg = a /\ t.live = tasks[k].live /\ DOMAIN t.got = {}
  <2>1. ts = GotoWith(k, "refetch", a, q)
    BY <1>4
  <2>2. QED
    BY <1>8, <1>9, <2>1, GoesOnWith
<1>11. /\ Becomes(k, t) /\ Assigning(t) /\ tasks[k].at \in PanelPlaces /\ tasks[k].at \notin FormPlaces
       /\ t.at # "idle" /\ tasks[k].at # "panelLoad"
  BY <1>1, <1>6, <1>10 DEF Becomes, DetailsPlaces, PanelPlaces, FormPlaces, MayOverlap, Assigning
<1>12. ASSUME Calm(db, tab, url, details, panel, tasks, drafts), url \in DOMAIN db.agents
       PROVE  panel.agent = url \/ (panel.agent = panel.agent /\ tasks[k].at # "panelLoad")
  BY <1>11
<1>13. Render(details, panel, url, ts)
  BY <1>4
<1>14. QED
  BY <1>1, <1>2, <1>10, <1>11, <1>13, PanelKeeps

\* An item is not added or removed.
LEMMA LinkFailedKeeps ==
    ASSUME PageInv, NEW k \in Slots, LinkFailed(k)
    PROVE  PageInv'
<1>1. tasks[k].at \in {"add", "remove"} /\ Threw(tasks[k]) /\ Stay
  BY DEF LinkFailed, At
<1>2. GoodTask(tasks[k]) /\ panel \in PanelType
  BY DEF PageInv, TypeInv, GoodTasks
<1>3. PICK c, s, p, ts :
        /\ c = (IF At(k, {"add"}) THEN panel.confirm ELSE None)
        /\ s = [panel EXCEPT !.loading = FALSE, !.confirm = c] /\ p = ShowPanel(k, s)
        /\ ts = [tasks EXCEPT ![k] = Idle] /\ Render(details, p, url, ts)
  BY Zenon DEF LinkFailed, End
<1>4. c \in Items \cup {None}
  BY <1>2, <1>3 DEF PanelType
<1>5. /\ s \in PanelType /\ ~s.loading /\ s.submitting = panel.submitting /\ s.agent = panel.agent
      /\ s.assigned = panel.assigned
  BY <1>2, <1>3, <1>4 DEF PanelType
<1>6. /\ p \in PanelType /\ p.submitting = panel.submitting /\ p.agent = panel.agent /\ p.assigned = panel.assigned
      /\ (p.loading => panel.loading) /\ (tasks[k].live => ~p.loading)
  BY <1>2, <1>3, <1>5 DEF ShowPanel
<1>7. ~Succeeded(tasks[k])
  <2>1. Asks(tasks[k].at, tasks[k].arg, tasks[k].sent \cup DOMAIN tasks[k].got)
    BY <1>1, <1>2, BusyIs
  <2>2. \E r : DOMAIN tasks[k].got \subseteq {r}
    BY <1>1, <2>1 DEF Asks
  <2>3. QED
    BY <1>1, <2>2 DEF Threw, Succeeded
<1>8. /\ tasks[k].at \in PanelPlaces /\ tasks[k].at \notin FormPlaces /\ tasks[k].at # "panelLoad"
      /\ ~Assigning(tasks[k]) /\ Becomes(k, Idle)
  BY <1>1, <1>7, Ends DEF PanelPlaces, FormPlaces, Assigning
<1>9. ts = [tasks EXCEPT ![k] = Idle] /\ Render(details, p, url, ts)
  BY <1>3, Zenon
<1>10. QED
  BY <1>1, <1>6, <1>8, <1>9, PanelKeeps

\* The items come after one was added or removed.
LEMMA RefetchedKeeps ==
    ASSUME PageInv, NEW k \in Slots, Refetched(k)
    PROVE  PageInv'
<1> DEFINE arg == tasks[k].arg
<1>1. tasks[k].at = "refetch" /\ tasks[k].sent = {} /\ Stay
  BY DEF Refetched, At
<1>2. tab \in Tabs /\ GoodTasks(tasks) /\ GoodTask(tasks[k]) /\ panel \in PanelType
  BY DEF PageInv, TypeInv, GoodTasks
<1>3. PICK y, s, o, p, ts :
        /\ y = Data(tasks[k], assignedItems(arg.kind, arg.id))
        /\ s = (IF Threw(tasks[k]) THEN panel ELSE [panel EXCEPT !.assigned = y])
        /\ o = Done(k, s) /\ p = ShowPanel(k, o)
        /\ ts = [tasks EXCEPT ![k] = Idle] /\ Render(details, p, url, ts)
  BY Zenon DEF Refetched, End
<1>4. DOMAIN tasks[k].got = {assignedItems(arg.kind, arg.id)}
  BY <1>1, <1>2, Answers DEF Asks
<1>5. ~Threw(tasks[k]) => y \in SUBSET Items
  BY <1>1, <1>2, <1>3, <1>4, Answers, TellsIs
<1>6. /\ s \in PanelType /\ s.submitting = panel.submitting /\ s.agent = panel.agent
      /\ ~Threw(tasks[k]) => s.assigned = y
  BY <1>2, <1>3, <1>5 DEF PanelType
<1>7. PICK c : c = IF arg.adds THEN s.confirm ELSE None
  OBVIOUS
<1>8. c \in Items \cup {None} /\ o = [s EXCEPT !.loading = FALSE, !.confirm = c]
  <2>1. c \in Items \cup {None}
    BY <1>6, <1>7 DEF PanelType
  <2>2. o = [s EXCEPT !.loading = FALSE, !.confirm = c]
    BY <1>3, <1>7, Zenon DEF Done
  <2>3. QED
    BY <2>1, <2>2, Zenon
<1>9. /\ o \in PanelType /\ ~o.loading /\ o.submitting = s.submitting /\ o.agent = s.agent
      /\ o.assigned = s.assigned
  BY <1>3, <1>6, <1>7, <1>8 DEF PanelType
<1>10. /\ p \in PanelType /\ p.submitting = panel.submitting /\ p.agent = panel.agent
       /\ (p.loading => panel.loading)
       /\ tasks[k].live => ~p.loading /\ (~Threw(tasks[k]) => p.assigned = y)
  BY <1>2, <1>3, <1>6, <1>9 DEF ShowPanel
<1>11. ASSUME Calm(db, tab, url, details, panel, tasks, drafts), url \in DOMAIN db.agents
       PROVE  p.assigned = ItemsIn(db, tab, url)
  <2>1. arg.kind = tab /\ arg.id = url /\ tasks[k].live
    BY <1>1, <1>2, <1>11, PatientTask DEF PanelPlaces
  <2>2. PICK answer : answer = tasks[k].got[assignedItems(arg.kind, arg.id)]
    OBVIOUS
  <2>3. StillSo(db, assignedItems(tab, url), answer)
    BY <1>1, <1>2, <1>4, <1>11, <2>1, <2>2, PatientTask
  <2>4. answer.ok /\ answer.data = ItemsIn(db, tab, url)
    BY <1>11, <2>3, StillSoIs, Zenon
  <2>5. ~Threw(tasks[k]) /\ y = answer.data
    BY <1>3, <1>4, <2>2, <2>4 DEF Threw, Data
  <2>6. QED
    BY <1>10, <2>1, <2>4, <2>5
<1>12. "refetch" \in PanelPlaces /\ "refetch" \notin FormPlaces /\ Becomes(k, Idle)
  BY Ends DEF PanelPlaces, FormPlaces
<1>13. ts = [tasks EXCEPT ![k] = Idle] /\ Render(details, p, url, ts)
  BY <1>3, Zenon
<1>14. QED
  BY <1>1, <1>10, <1>11, <1>12, <1>13, PanelKeeps

\* After the topic form has closed.
LEMMA TopicSavedKeeps ==
    ASSUME PageInv, NEW k \in Slots, fetchAvailableTopics(k)
    PROVE  PageInv'
<1> DEFINE id == tasks[k].arg.id
<1>1. tasks[k].at = "topicSaved" /\ tasks[k].sent = {} /\ Stay
  BY DEF fetchAvailableTopics, At
<1>2. tab \in Tabs /\ GoodTasks(tasks) /\ GoodTask(tasks[k]) /\ panel \in PanelType
  BY DEF PageInv, TypeInv, GoodTasks
<1>3. PICK y, s, o, q :
        /\ y = Data(tasks[k], getAvailableTopics)
        /\ s = (IF Threw(tasks[k]) THEN panel ELSE [panel EXCEPT !.available = y])
        /\ o = [s EXCEPT !.submitting = FALSE] /\ q = {getAgentTopics(id)}
        /\ IF id # None THEN Render(details, s, url, Goto(tasks, k, "topicListed", q))
           ELSE Render(details, o, url, [tasks EXCEPT ![k] = Idle])
  BY Zenon DEF fetchAvailableTopics, End
<1>4. DOMAIN tasks[k].got = {getAvailableTopics} /\ tasks[k].arg \in [kind : {"topics"}, id : Urls]
  BY <1>1, <1>2, Answers DEF Asks
<1>5. ~Threw(tasks[k]) => y \in SUBSET Items
  BY <1>1, <1>2, <1>3, <1>4, Answers, TellsIs
<1>6. /\ s \in PanelType /\ s.submitting = panel.submitting /\ s.agent = panel.agent /\ s.assigned = panel.assigned
      /\ s.loading = panel.loading
  BY <1>2, <1>3, <1>5 DEF PanelType
<1>7. /\ o \in PanelType /\ ~o.submitting /\ o.agent = panel.agent /\ o.assigned = panel.assigned
      /\ o.loading = panel.loading
  BY <1>3, <1>6 DEF PanelType
<1>8. /\ tasks[k].at \in FormPlaces /\ tasks[k].at \notin PanelPlaces /\ tasks[k].at # "panelLoad"
      /\ ~Assigning(tasks[k]) /\ Becomes(k, Idle)
  BY <1>1, Ends DEF PanelPlaces, FormPlaces, Assigning
<1>9. CASE id # None
  <2>1. Asks("topicListed", tasks[k].arg, q)
    BY <1>3, <1>4, <1>9 DEF Asks, Urls
  <2>2. MayGoOn(k, "topicListed", q)
    BY <1>1, <2>1 DEF MayGoOn, DetailsPlaces, PanelPlaces, FormPlaces, MayOverlap
  <2>3. PICK t : t = Handler("topicListed", tasks[k].arg, q, tasks[k].live)
    OBVIOUS
  <2>4. Goto(tasks, k, "topicListed", q) = [tasks EXCEPT ![k] = t] /\ t.at = "topicListed" /\ Becomes(k, t)
    BY <2>2, <2>3, GoesOnKeeps
  <2>5. PICK ts : ts = [tasks EXCEPT ![k] = t] /\ Render(details, s, url, ts)
    BY <1>3, <1>9, <2>4, Zenon
  <2>6. t.at # "idle"
    BY <2>4
  <2>7. Becomes(k, t)
    BY <2>4
  <2>8. Stay /\ tasks[k].at \in FormPlaces /\ tasks[k].at # "panelLoad" /\ ~Assigning(tasks[k])
    BY <1>1, <1>8
  <2>9. QED
    BY <1>6, <2>5, <2>6, <2>7, <2>8, PanelKeeps
<1>10. CASE id = None
  <2>1. PICK ts : ts = [tasks EXCEPT ![k] = Idle] /\ Render(details, o, url, ts)
    BY <1>3, <1>10, Zenon
  <2>2. QED
    BY <1>1, <1>7, <1>8, <2>1, PanelKeeps
<1>11. QED
  BY <1>9, <1>10

\* The topics of the agent come after a new one was saved.
LEMMA TopicListedKeeps ==
    ASSUME PageInv, NEW k \in Slots, TopicListed(k)
    PROVE  PageInv'
<1> DEFINE id == tasks[k].arg.id
<1>1. tasks[k].at = "topicListed" /\ tasks[k].sent = {} /\ Stay
  BY DEF TopicListed, At
<1>2. tab \in Tabs /\ GoodTasks(tasks) /\ GoodTask(tasks[k]) /\ panel \in PanelType
  BY DEF PageInv, TypeInv, GoodTasks
<1>3. PICK y, s, o, ts :
        /\ y = Data(tasks[k], getAgentTopics(id))
        /\ s = (IF Threw(tasks[k]) THEN panel ELSE [panel EXCEPT !.assigned = y])
        /\ o = [s EXCEPT !.submitting = FALSE]
        /\ ts = [tasks EXCEPT ![k] = Idle] /\ Render(details, o, url, ts)
  BY Zenon DEF TopicListed, End
<1>4. DOMAIN tasks[k].got = {getAgentTopics(id)} /\ getAgentTopics(id) = assignedItems("topics", id)
      /\ tasks[k].arg.kind = "topics"
  BY <1>1, <1>2, Answers DEF Asks, getAgentTopics
<1>5. ~Threw(tasks[k]) => y \in SUBSET Items
  <2>1. ~Threw(tasks[k]) => Tells(assignedItems("topics", id), y)
    BY <1>1, <1>2, <1>3, <1>4, Answers
  <2>2. QED
    BY <2>1, TellsIs
<1>6. /\ s \in PanelType /\ s.agent = panel.agent /\ s.loading = panel.loading
      /\ ~Threw(tasks[k]) => s.assigned = y
  BY <1>2, <1>3, <1>5 DEF PanelType
<1>7. /\ o \in PanelType /\ ~o.submitting /\ o.agent = panel.agent /\ o.assigned = s.assigned
      /\ o.loading = panel.loading
  BY <1>3, <1>6 DEF PanelType
<1>8. ASSUME Calm(db, tab, url, details, panel, tasks, drafts), url \in DOMAIN db.agents
       PROVE  o.assigned = ItemsIn(db, tab, url)
  <2>1. tab = "topics" /\ id = url
    BY <1>1, <1>2, <1>4, <1>8, PatientTask DEF FormPlaces
  <2>2. PICK answer : answer = tasks[k].got[getAgentTopics(id)]
    OBVIOUS
  <2>3. StillSo(db, assignedItems(tab, url), answer)
    BY <1>1, <1>2, <1>4, <1>8, <2>1, <2>2, PatientTask
  <2>4. answer.ok /\ answer.data = ItemsIn(db, tab, url)
    BY <1>8, <2>3, StillSoIs, Zenon
  <2>5. ~Threw(tasks[k]) /\ y = answer.data
    BY <1>3, <1>4, <2>2, <2>4 DEF Threw, Data
  <2>6. QED
    BY <1>6, <1>7, <2>4, <2>5
<1>9. /\ tasks[k].at \in FormPlaces /\ tasks[k].at \notin PanelPlaces /\ tasks[k].at # "panelLoad" /\ Becomes(k, Idle)
  BY <1>1, Ends DEF PanelPlaces, FormPlaces
<1>10. ts = [tasks EXCEPT ![k] = Idle] /\ Render(details, o, url, ts)
  BY <1>3, Zenon
<1>11. QED
  BY <1>1, <1>7, <1>8, <1>9, <1>10, PanelKeeps

\* The name on the tab of credentials.
LEMMA CredentialsKeep ==
    ASSUME PageInv, NEW k \in Slots, CredentialsLoaded(k)
    PROVE  PageInv'
<1>1. tasks[k].at = "credentials" /\ Stay
  BY DEF CredentialsLoaded, At
<1>2. GoodDetails(details) /\ panel \in PanelType /\ url \in Urls /\ tab \in Tabs
  BY DEF PageInv, TypeInv
<1>3. PICK ts : ts = [tasks EXCEPT ![k] = Idle] /\ Render(details, panel, url, ts)
  BY Zenon DEF CredentialsLoaded, End
<1>4. /\ tasks[k].at \notin DetailsPlaces /\ tasks[k].at \notin PanelPlaces /\ tasks[k].at \notin FormPlaces
      /\ tasks[k].at # "idle" /\ Becomes(k, Idle) /\ ~Reloads(details, url)
  BY <1>1, Ends DEF DetailsPlaces, PanelPlaces, FormPlaces, Reloads
<1>5. ASSUME Calm(db, tab, url, details, panel, tasks, drafts)
      PROVE  Chosen(db, tab, details, ts) /\ Current(db, tab, url, details, panel, ts)
  <2>1. tasks[k].at \in PlacesOf(tab)
    BY <1>2, <1>4, <1>5, PatientTask
  <2>2. tab \notin Panels /\ tab # "Agents"
    BY <1>1, <2>1 DEF PlacesOf, Panels, DetailsPlaces, PanelPlaces, FormPlaces
  <2>3. QED
    BY <2>2 DEF Chosen, Current
<1>6. QED
  BY <1>1, <1>2, <1>3, <1>4, <1>5, HandlerKeeps

\* The handlers of the page.
LEMMA HandlersKeep ==
    ASSUME PageInv, NEW k \in Slots, HandlerStep(k)
    PROVE  PageInv'
<1>1. \/ LoadLists(k) \/ LoadAgent(k) \/ LoadFailed(k) \/ ShowAgent(k)
      \/ SaveWritten(k) \/ SaveShown(k) \/ SaveListed(k) \/ SaveFailed(k)
      \/ DeleteProceeds(k) \/ DeleteDropped(k) \/ DeleteRelisted(k) \/ DeleteFailed(k)
      \/ PanelLoaded(k) \/ PanelListed(k) \/ PanelLoadFailed(k)
      \/ LinkWritten(k) \/ LinkFailed(k) \/ Refetched(k)
      \/ fetchAvailableTopics(k) \/ TopicListed(k) \/ CredentialsLoaded(k)
  BY DEF HandlerStep, PluginsLoaded, TopicsLoaded, PluginWritten, TopicWritten, PluginWriteFailed, TopicWriteFailed,
         fetchAssignedPlugins, fetchAssignedTopics
<1>2. QED
  BY <1>1, LoadKeeps, LoadAgentKeeps, LoadFailedKeeps, ShowKeeps, SaveWrittenKeeps, SaveShownKeeps, SaveListedKeeps,
     SaveFailedKeeps, DeleteProceedsKeeps, DeleteDroppedKeeps, DeleteEndsKeep, PanelLoadedKeeps, PanelLoadEndsKeep,
     LinkWrittenKeeps, LinkFailedKeeps, RefetchedKeeps, TopicSavedKeeps, TopicListedKeeps, CredentialsKeep

-----------------------------------------------------------------------------
(* The server.                                                             *)

\* The requests that read, and those that write.
Reads(r) ==
    \/ r = getAllAgents \/ r = getAvailableTopics
    \/ \E a : r = getAgentById(a)
    \/ \E kind \in Panels, a \in Agents : r = assignedItems(kind, a)
Writes(at, arg, r) ==
    \/ at = "save" /\ arg.temp /\ \E f \in SavedForms : r = createAgent(f)
    \/ at = "save" /\ \E a, f : f \in SavedForms /\ Meant(a, f) /\ r = updateAgent(a, f)
    \/ at = "drop" /\ r = dropAgent(arg.id)
    \/ at \in {"unlink", "remove"} /\ \E kind \in Panels, i \in Items : r = removeItem(kind, arg.id, i)
    \/ at = "add" /\ \E kind \in Panels, i \in Items : r = addItem(kind, arg.id, i)

\* A handler that writes waits for nothing else.
LEMMA RequestIs ==
    ASSUME NEW at, NEW arg, NEW q, Asks(at, arg, q), NEW r \in q
    PROVE  Reads(r) \/ (Writes(at, arg, r) /\ q = {r})
<1>1. CASE at = "load" \/ at = "relist" \/ at = "panelList" \/ at = "topicSaved"
  BY <1>1 DEF Asks, Reads
<1>2. CASE at = "loadAgent" \/ at = "show" \/ at = "delete" \/ at = "credentials"
  BY <1>2 DEF Asks, Reads
<1>3. CASE at = "refresh"
  BY <1>3 DEF Asks, Reads
<1>4. CASE at = "save"
  BY <1>4 DEF Asks, Writes
<1>5. CASE at = "unlink" \/ at = "drop"
  BY <1>5 DEF Asks, Writes
<1>6. CASE at = "add" \/ at = "remove"
  BY <1>6 DEF Asks, Writes
<1>7. CASE at = "refetch" \/ at = "panelLoad"
  BY <1>7 DEF Asks, Reads
<1>8. CASE at = "topicListed"
  BY <1>8 DEF Asks, Reads, getAgentTopics, Panels
<1>9. at \in Places
  BY AsksIs
<1>10. QED
  BY <1>1, <1>2, <1>3, <1>4, <1>5, <1>6, <1>7, <1>8, <1>9 DEF Places, DetailsPlaces, PanelPlaces, FormPlaces

\* The first word of each request.
LEMMA WordIs ==
    /\ getAllAgents[1] = "getAllAgents" /\ getAvailableTopics[1] = "available"
    /\ \A a : getAgentById(a)[1] = "getAgentById" /\ getAgentById(a)[2] = a
    /\ \A f : createAgent(f)[1] = "createAgent" /\ createAgent(f)[2] = f
    /\ \A a, f : updateAgent(a, f)[1] = "updateAgent" /\ updateAgent(a, f)[2] = a /\ updateAgent(a, f)[3] = f
    /\ \A a : dropAgent(a)[1] = "dropAgent" /\ dropAgent(a)[2] = a
    /\ \A kind, a : assignedItems(kind, a)[1] = "assigned" /\ assignedItems(kind, a)[2] = kind /\ assignedItems(kind, a)[3] = a
    /\ \A kind, a, i : /\ addItem(kind, a, i)[1] = "add" /\ addItem(kind, a, i)[2] = kind
                       /\ addItem(kind, a, i)[3] = a /\ addItem(kind, a, i)[4] = i
    /\ \A kind, a, i : /\ removeItem(kind, a, i)[1] = "remove" /\ removeItem(kind, a, i)[2] = kind
                       /\ removeItem(kind, a, i)[3] = a /\ removeItem(kind, a, i)[4] = i
  BY DEF getAllAgents, getAvailableTopics, availableItems, getAgentById, createAgent, updateAgent, dropAgent,
         assignedItems, addItem, removeItem

\* What the server answers to a request that reads.
LEMMA AnswersAre ==
    ASSUME NEW r, Reads(r), GoodDb(db)
    PROVE  /\ Accepts(r) => Effect(r) = db
           /\ Accepts(r) => Tells(r, Returns(r)) /\ StillSo(db, r, Ok(Returns(r)))
           /\ ~Accepts(r) => StillSo(db, r, Failure)
<1>1. \A data : Ok(data).ok /\ Ok(data).data = data
  BY DEF Ok
<1>2. ~Failure.ok
  BY DEF Failure
<1>3. /\ DOMAIN db.agents \subseteq Agents /\ \A a \in DOMAIN db.agents : db.agents[a] \in SavedForms /\ Meant(a, db.agents[a])
  BY PartialIs DEF GoodDb
<1>4. ASSUME r[1] \in {"getAllAgents", "available"}
      PROVE  Accepts(r) /\ Effect(r) = db
  BY <1>4 DEF Accepts, Effect
<1>5. CASE r = getAllAgents
  <2>1. r[1] = "getAllAgents"
    BY <1>5, WordIs
  <2>2. Returns(r) = DOMAIN db.agents
    BY <2>1 DEF Returns, Existing
  <2>3. QED
    BY <1>3, <1>4, <2>1, <2>2 DEF Tells, StillSo
<1>6. CASE r = getAvailableTopics
  <2>1. r[1] = "available"
    BY <1>6, WordIs
  <2>2. Returns(r) = Items
    BY <2>1 DEF Returns
  <2>3. QED
    BY <1>4, <2>1, <2>2 DEF Tells, StillSo
<1>7. ASSUME NEW a, r = getAgentById(a)
      PROVE  /\ Accepts(r) => Effect(r) = db
             /\ Accepts(r) => Tells(r, Returns(r)) /\ StillSo(db, r, Ok(Returns(r)))
             /\ ~Accepts(r) => StillSo(db, r, Failure)
  <2>1. r[1] = "getAgentById" /\ r[2] = a
    BY <1>7, WordIs
  <2>2. Accepts(r) <=> a \in DOMAIN db.agents
    BY <2>1 DEF Accepts, Existing
  <2>3. Effect(r) = db
    BY <2>1 DEF Effect
  <2>4. Returns(r) = [id |-> a, name |-> db.agents[a].name, plugins |-> ItemsOf("plugins", a), topics |-> ItemsOf("topics", a)]
    BY <2>1, Zenon DEF Returns
  <2>5. ASSUME a \in DOMAIN db.agents PROVE Tells(r, Returns(r))
    <3>1. FormOf(Returns(r)) = db.agents[a]
      <4>1. PICK f : f = db.agents[a]
        OBVIOUS
      <4>2. f = [name |-> f.name]
        BY <1>3, <2>5, <4>1 DEF SavedForms, Forms
      <4>3. Returns(r).name = f.name
        BY <2>4, <4>1
      <4>4. QED
        BY <4>1, <4>2, <4>3 DEF FormOf
    <3>2. Returns(r).id = a /\ Returns(r).plugins \in SUBSET Items /\ Returns(r).topics \in SUBSET Items
      BY <2>4 DEF ItemsOf
    <3>3. QED
      BY <1>3, <2>1, <2>5, <3>1, <3>2 DEF Tells
  <2>6. StillSo(db, r, Ok(Returns(r))) <=> a \in DOMAIN db.agents
    BY <1>1, <2>1 DEF StillSo
  <2>7. StillSo(db, r, Failure) <=> a \notin DOMAIN db.agents
    BY <1>2, <2>1 DEF StillSo
  <2>8. QED
    BY <2>2, <2>3, <2>5, <2>6, <2>7
<1>8. ASSUME NEW kind \in Panels, NEW a \in Agents, r = assignedItems(kind, a)
      PROVE  /\ Accepts(r) => Effect(r) = db
             /\ Accepts(r) => Tells(r, Returns(r)) /\ StillSo(db, r, Ok(Returns(r)))
             /\ ~Accepts(r) => StillSo(db, r, Failure)
  <2>1. r[1] = "assigned" /\ r[2] = kind /\ r[3] = a
    BY <1>8, WordIs
  <2>2. Accepts(r) <=> a \in DOMAIN db.agents
    BY <2>1 DEF Accepts, Existing
  <2>3. Effect(r) = db
    BY <2>1 DEF Effect
  <2>4. Returns(r) = ItemsIn(db, kind, a)
    BY <2>1 DEF Returns, ItemsOf, ItemsIn
  <2>5. Tells(r, Returns(r))
    BY <2>1, <2>4 DEF Tells, ItemsIn
  <2>6. StillSo(db, r, Ok(Returns(r))) <=> a \in DOMAIN db.agents
    BY <1>1, <2>1, <2>4 DEF StillSo
  <2>7. StillSo(db, r, Failure) <=> a \notin DOMAIN db.agents
    BY <1>2, <2>1 DEF StillSo
  <2>8. QED
    BY <2>2, <2>3, <2>5, <2>6, <2>7
<1>9. QED
  BY <1>5, <1>6, <1>7, <1>8 DEF Reads

\* What a request that writes does to the records.
HasId(r) == r[1] = "createAgent" => db.given # Agents
Written(at, r, d) ==
    /\ GoodDb(d) /\ Tells(r, Returns(r))
    /\ \/ /\ at = "save" /\ r[1] = "createAgent"
          /\ DOMAIN db.agents \subseteq DOMAIN d.agents
          /\ \E a : a \notin db.given /\ d.given = db.given \cup {a}
       \/ at = "save" /\ r[1] = "updateAgent" /\ d.given = db.given /\ DOMAIN d.agents = DOMAIN db.agents
       \/ at = "drop" /\ d.given = db.given
       \/ at = "unlink" /\ d.given = db.given /\ d.agents = db.agents
       \/ at \in {"add", "remove"} /\ d.given = db.given /\ d.agents = db.agents

\* The id of a new agent was never given before.
LEMMA GivenIs ==
    ASSUME GoodDb(db), db.given # Agents
    PROVE  NewId \in Agents \ db.given
<1>1. \E a \in Agents : a \notin db.given
  BY DEF GoodDb
<1>2. QED
  BY <1>1 DEF NewId

\* Records that have kept their shape.
LEMMA StaysGood ==
    ASSUME GoodDb(db), NEW agents, NEW links, NEW given, NEW d,
           d = [agents |-> agents, links |-> links, given |-> given],
           agents \in Partial(Agents, SavedForms), links \in [Panels -> SUBSET (Agents \X Items)],
           given \in SUBSET Agents, db.given \cup DOMAIN agents \subseteq given,
           \A a \in DOMAIN agents : Meant(a, agents[a]),
           \A kind \in Panels : \A l \in links[kind] : l[1] \in DOMAIN agents
    PROVE  GoodDb(d)
  BY DEF GoodDb

\* An agent is created.
LEMMA CreateIs ==
    ASSUME GoodDb(db), NEW f \in SavedForms, NEW r, r = createAgent(f), HasId(r), NEW d, d = Effect(r)
    PROVE  Written("save", r, d)
<1>1. r[1] = "createAgent" /\ r[2] = f
  BY WordIs
<1>2. NewId \in Agents \ db.given
  BY <1>1, GivenIs DEF HasId
<1>3. PICK agents, given : agents = With(db.agents, NewId, f) /\ given = db.given \cup {NewId}
  OBVIOUS
<1>4. db \in [agents : Partial(Agents, SavedForms), links : [Panels -> SUBSET (Agents \X Items)], given : SUBSET Agents]
  BY DEF GoodDb
<1>5. d = [db EXCEPT !.agents = agents, !.given = given]
  BY <1>1, <1>3, Zenon DEF Effect
<1>6. d = [agents |-> agents, links |-> db.links, given |-> given]
  BY <1>4, <1>5
<1>7. agents \in Partial(Agents, SavedForms)
  BY <1>2, <1>3, <1>4, PartialKept
<1>8. DOMAIN agents = DOMAIN db.agents \cup {NewId} /\ \A a \in DOMAIN agents : agents[a] = IF a = NewId THEN f ELSE db.agents[a]
  BY <1>3 DEF With
<1>9. NewId \notin Initially /\ NewId \notin DOMAIN db.agents
  BY <1>2 DEF GoodDb
<1>10. \A a \in DOMAIN agents : Meant(a, agents[a])
  BY <1>8, <1>9 DEF GoodDb, Meant
<1>11. GoodDb(d)
  <2>1. given \in SUBSET Agents /\ db.given \cup DOMAIN agents \subseteq given
    BY <1>2, <1>3, <1>4, <1>8 DEF GoodDb
  <2>2. db.links \in [Panels -> SUBSET (Agents \X Items)]
    BY <1>4
  <2>3. \A kind \in Panels : \A l \in db.links[kind] : l[1] \in DOMAIN agents
    BY <1>8 DEF GoodDb
  <2>4. QED
    BY <1>6, <1>7, <1>10, <2>1, <2>2, <2>3, StaysGood
<1>12. Tells(r, Returns(r))
  BY <1>1, <1>2 DEF Tells, Returns
<1>13. d.given = db.given \cup {NewId} /\ DOMAIN db.agents \subseteq DOMAIN d.agents
  BY <1>3, <1>6, <1>8
<1>14. QED
  BY <1>1, <1>2, <1>11, <1>12, <1>13 DEF Written

\* An agent is changed.
LEMMA UpdateIs ==
    ASSUME GoodDb(db), NEW a, NEW f \in SavedForms, Meant(a, f), NEW r, r = updateAgent(a, f), Accepts(r),
           NEW d, d = Effect(r)
    PROVE  Written("save", r, d)
<1>1. r[1] = "updateAgent" /\ r[2] = a /\ r[3] = f
  BY WordIs
<1>2. a \in DOMAIN db.agents /\ a \in Agents
  BY <1>1, PartialIs DEF Accepts, Existing, GoodDb
<1>3. PICK agents : agents = [db.agents EXCEPT ![a] = f]
  OBVIOUS
<1>4. db \in [agents : Partial(Agents, SavedForms), links : [Panels -> SUBSET (Agents \X Items)], given : SUBSET Agents]
  BY DEF GoodDb
<1>5. d = [db EXCEPT !.agents = agents]
  BY <1>1, <1>3, Zenon DEF Effect
<1>6. d = [agents |-> agents, links |-> db.links, given |-> db.given]
  BY <1>4, <1>5
<1>7. agents \in Partial(Agents, SavedForms)
  BY <1>2, <1>3, <1>4, PartialKept
<1>8. DOMAIN agents = DOMAIN db.agents /\ \A x \in DOMAIN agents : agents[x] = IF x = a THEN f ELSE db.agents[x]
  BY <1>3
<1>9. \A x \in DOMAIN agents : Meant(x, agents[x])
  BY <1>8 DEF GoodDb
<1>10. GoodDb(d)
  <2>1. db.given \in SUBSET Agents /\ db.given \cup DOMAIN agents \subseteq db.given
    BY <1>4, <1>8 DEF GoodDb
  <2>2. db.links \in [Panels -> SUBSET (Agents \X Items)]
    BY <1>4
  <2>3. \A kind \in Panels : \A l \in db.links[kind] : l[1] \in DOMAIN agents
    BY <1>8 DEF GoodDb
  <2>4. QED
    BY <1>6, <1>7, <1>9, <2>1, <2>2, <2>3, StaysGood
<1>11. Tells(r, Returns(r))
  BY <1>1 DEF Tells, Returns
<1>12. QED
  BY <1>1, <1>6, <1>8, <1>10, <1>11 DEF Written

\* An agent is deleted.
LEMMA DropIs ==
    ASSUME GoodDb(db), NEW a, NEW r, r = dropAgent(a), Accepts(r), NEW d, d = Effect(r)
    PROVE  Written("drop", r, d)
<1>1. r[1] = "dropAgent" /\ r[2] = a
  BY WordIs
<1>2. a \in DOMAIN db.agents /\ a \in Agents
  BY <1>1, PartialIs DEF Accepts, Existing, GoodDb
<1>3. PICK agents, links : /\ agents = [x \in DOMAIN db.agents \ {a} |-> db.agents[x]]
                           /\ links = [kind \in Panels |-> {l \in db.links[kind] : l[1] # a}]
  OBVIOUS
<1>4. db \in [agents : Partial(Agents, SavedForms), links : [Panels -> SUBSET (Agents \X Items)], given : SUBSET Agents]
  BY DEF GoodDb
<1>5. d = [db EXCEPT !.agents = agents, !.links = links]
  BY <1>1, <1>3, Zenon DEF Effect, Existing
<1>6. d = [agents |-> agents, links |-> links, given |-> db.given]
  BY <1>4, <1>5
<1>7. agents \in Partial(Agents, SavedForms)
  <2>1. \E v : v \in SavedForms
    BY <1>2, PartialIs DEF GoodDb
  <2>2. QED
    BY <1>2, <1>3, <1>4, <2>1, PartialKept
<1>8. DOMAIN agents = DOMAIN db.agents \ {a} /\ \A x \in DOMAIN agents : agents[x] = db.agents[x]
  BY <1>3
<1>9. GoodDb(d)
  <2>1. db.given \in SUBSET Agents /\ db.given \cup DOMAIN agents \subseteq db.given
    BY <1>4, <1>8 DEF GoodDb
  <2>2. links \in [Panels -> SUBSET (Agents \X Items)]
    BY <1>3, <1>4
  <2>3. \A kind \in Panels : \A l \in links[kind] : l[1] \in DOMAIN agents
    BY <1>3, <1>8 DEF GoodDb
  <2>4. \A x \in DOMAIN agents : Meant(x, agents[x])
    BY <1>8 DEF GoodDb
  <2>5. QED
    BY <1>6, <1>7, <2>1, <2>2, <2>3, <2>4, StaysGood
<1>10. Tells(r, Returns(r))
  BY <1>1 DEF Tells
<1>11. QED
  BY <1>6, <1>9, <1>10 DEF Written

\* An item is given to an agent, or taken from it.
LEMMA LinkIs ==
    ASSUME GoodDb(db), NEW kind \in Panels, NEW a, NEW i \in Items, NEW r,
           r = addItem(kind, a, i) \/ r = removeItem(kind, a, i), Accepts(r), NEW d, d = Effect(r)
    PROVE  GoodDb(d) /\ Tells(r, Returns(r)) /\ d.given = db.given /\ d.agents = db.agents
<1>1. r[1] \in {"add", "remove"} /\ r[2] = kind /\ r[3] = a /\ r[4] = i
  BY WordIs
<1>2. a \in DOMAIN db.agents /\ DOMAIN db.agents \subseteq Agents
  BY <1>1, PartialIs DEF Accepts, Existing, GoodDb
<1>3. db \in [agents : Partial(Agents, SavedForms), links : [Panels -> SUBSET (Agents \X Items)], given : SUBSET Agents]
  BY DEF GoodDb
<1>4. PICK new : d = [db EXCEPT !.links[kind] = new] /\ new \in {db.links[kind] \cup {<<a, i>>}, db.links[kind] \ {<<a, i>>}}
  <2>1. CASE r[1] = "add"
    BY <1>1, <2>1, Zenon DEF Effect
  <2>2. CASE r[1] = "remove"
    BY <1>1, <2>2, Zenon DEF Effect
  <2>3. QED
    BY <1>1, <2>1, <2>2
<1>5. PICK links : links = [db.links EXCEPT ![kind] = new]
  OBVIOUS
<1>6. d = [db EXCEPT !.links = links]
  BY <1>4, <1>5, Zenon
<1>7. d = [agents |-> db.agents, links |-> links, given |-> db.given]
  BY <1>3, <1>6
<1>8. new \in SUBSET (Agents \X Items) /\ \A l \in new : l[1] \in DOMAIN db.agents
  BY <1>2, <1>3, <1>4 DEF GoodDb
<1>9. /\ links \in [Panels -> SUBSET (Agents \X Items)]
      /\ \A x \in Panels : links[x] = IF x = kind THEN new ELSE db.links[x]
  BY <1>3, <1>5, <1>8
<1>10. GoodDb(d)
  <2>1. \A x \in Panels : \A l \in links[x] : l[1] \in DOMAIN db.agents
    BY <1>8, <1>9 DEF GoodDb
  <2>2. db.given \in SUBSET Agents /\ db.given \cup DOMAIN db.agents \subseteq db.given
    BY <1>3 DEF GoodDb
  <2>3. \A x \in DOMAIN db.agents : Meant(x, db.agents[x])
    BY DEF GoodDb
  <2>4. db.agents \in Partial(Agents, SavedForms)
    BY <1>3
  <2>5. QED
    BY <1>7, <1>9, <2>1, <2>2, <2>3, <2>4, StaysGood
<1>11. Tells(r, Returns(r))
  BY <1>1 DEF Tells
<1>12. QED
  BY <1>7, <1>10, <1>11

\* What the server does for a request that writes.
LEMMA WritesAre ==
    ASSUME GoodDb(db), NEW at, NEW arg, NEW r, Writes(at, arg, r), Accepts(r), HasId(r), NEW d, d = Effect(r)
    PROVE  Written(at, r, d)
<1>1. CASE at = "save" /\ \E f \in SavedForms : r = createAgent(f)
  BY <1>1, CreateIs
<1>2. CASE at = "save" /\ \E a, f : f \in SavedForms /\ Meant(a, f) /\ r = updateAgent(a, f)
  BY <1>2, UpdateIs
<1>3. CASE at = "drop" /\ r = dropAgent(arg.id)
  BY <1>3, DropIs
<1>4. CASE /\ at \in {"unlink", "add", "remove"}
           /\ \E kind \in Panels, i \in Items : r = addItem(kind, arg.id, i) \/ r = removeItem(kind, arg.id, i)
  <2>1. GoodDb(d) /\ Tells(r, Returns(r)) /\ d.given = db.given /\ d.agents = db.agents
    BY <1>4, LinkIs
  <2>2. QED
    BY <1>4, <2>1 DEF Written
<1>5. QED
  BY <1>1, <1>2, <1>3, <1>4 DEF Writes

\* A handler that is answered.
Received(ts, k, r, a) ==
    /\ GoodTasks(ts) /\ \A j \in Slots : j # k => ts[j] = tasks[j]
    /\ ts[k].at = tasks[k].at /\ ts[k].arg = tasks[k].arg /\ ts[k].live = tasks[k].live
    /\ ts[k].sent = tasks[k].sent \ {r}
    /\ DOMAIN ts[k].got = DOMAIN tasks[k].got \cup {r} /\ ts[k].got[r] = a
    /\ \A q \in DOMAIN tasks[k].got : ts[k].got[q] = tasks[k].got[q]
LEMMA ReceiveIs ==
    ASSUME GoodTasks(tasks), NEW k \in Slots, NEW r \in tasks[k].sent, NEW a, GoodAnswer(r, a),
           NEW ts, ts = Receive(tasks, k, r, a)
    PROVE  Received(ts, k, r, a)
<1> DEFINE t == tasks[k]
           n == [t EXCEPT !.sent = @ \ {r}, !.got = With(@, r, a)]
           g == With(t.got, r, a)
<1>1. GoodTask(t) /\ DOMAIN tasks = Slots
  BY DEF GoodTasks
<1>2. /\ t = [at |-> t.at, arg |-> t.arg, sent |-> t.sent, got |-> t.got, live |-> t.live]
      /\ t.live \in BOOLEAN /\ t.sent \cap DOMAIN t.got = {}
      /\ Asks(t.at, t.arg, t.sent \cup DOMAIN t.got)
      /\ \A q \in DOMAIN t.got : GoodAnswer(q, t.got[q])
  BY <1>1, BusyIs
<1>3. DOMAIN ts = Slots /\ ts[k] = n /\ \A j \in Slots : j # k => ts[j] = tasks[j]
  BY <1>1 DEF Receive
<1>4. r \in t.sent
  OBVIOUS
<1> HIDE DEF t
<1>5. DOMAIN g = DOMAIN t.got \cup {r} /\ g[r] = a /\ \A q \in DOMAIN t.got : q # r => g[q] = t.got[q]
  BY DEF With
<1>6. n = [at |-> t.at, arg |-> t.arg, sent |-> t.sent \ {r}, got |-> g, live |-> t.live]
  <2>1. n = [t EXCEPT !.sent = t.sent \ {r}, !.got = g]
    OBVIOUS
  <2> HIDE DEF g, n
  <2>2. QED
    BY <1>2, <2>1
<1> HIDE DEF n, g
<1>7. /\ n.at = t.at /\ n.arg = t.arg /\ n.live = t.live /\ n.sent = t.sent \ {r} /\ n.got = g
      /\ n = [at |-> n.at, arg |-> n.arg, sent |-> n.sent, got |-> n.got, live |-> n.live]
  BY <1>6
<1>8. n.sent \cup DOMAIN n.got = t.sent \cup DOMAIN t.got /\ n.sent \cap DOMAIN n.got = {}
  BY <1>2, <1>4, <1>5, <1>7
<1>9. \A q \in DOMAIN t.got : q # r /\ n.got[q] = t.got[q]
  BY <1>2, <1>4, <1>5, <1>7
<1>10. \A q \in DOMAIN n.got : GoodAnswer(q, n.got[q])
  BY <1>2, <1>5, <1>7, <1>9
<1>11. GoodTask(n)
  <2>1. Asks(n.at, n.arg, n.sent \cup DOMAIN n.got)
    BY <1>2, <1>7, <1>8
  <2>2. QED
    BY <1>2, <1>7, <1>8, <1>10, <2>1 DEF GoodTask
<1>12. GoodTasks(ts)
  BY <1>3, <1>11 DEF GoodTasks
<1>13. QED
  BY <1>3, <1>5, <1>7, <1>9, <1>12 DEF t, Received

\* An answer keeps the types and the spinners, whatever the server has done.
LEMMA AnswerKeeps ==
    ASSUME PageInv, NEW k \in Slots, NEW r, NEW a, Received(tasks', k, r, a),
           UNCHANGED <<url, tab, details, panel>>, GoodDb(db')
    PROVE  /\ TypeInv' /\ SpinInv'
           /\ \A j \in Slots : tasks'[j].at = tasks[j].at /\ tasks'[j].arg = tasks[j].arg /\ tasks'[j].live = tasks[j].live
<1>1. \A j \in Slots : tasks'[j].at = tasks[j].at /\ tasks'[j].arg = tasks[j].arg /\ tasks'[j].live = tasks[j].live
  BY DEF Received
<1>2. GoodDb(db)' <=> GoodDb(db')
  BY DEF GoodDb
<1>3. GoodTasks(tasks)'
  BY DEF Received, GoodTasks
<1>4. GoodDetails(details)'
  BY DEF PageInv, TypeInv, GoodDetails
<1>5. TypeInv'
  BY <1>2, <1>3, <1>4 DEF PageInv, TypeInv
<1>6. \A places : Turns(tasks, places)' <=> Turns(tasks, places)
  BY <1>1 DEF Turns
<1>7. SpinInv'
  BY <1>6 DEF PageInv, SpinInv, Spins
<1>8. QED
  BY <1>1, <1>5, <1>7

\* A request that changes nothing, and one that is refused, keep what a patient user sees.
LEMMA AnswerCalm ==
    ASSUME TypeInv, NEW k \in Slots, NEW r, NEW a, NEW ts, Received(ts, k, r, a), StillSo(db, r, a),
           Calm(db, tab, url, details, panel, tasks, drafts)
    PROVE  Calm(db, tab, url, details, panel, ts, drafts)
<1>1. \A j \in Slots : ts[j].at = tasks[j].at /\ ts[j].arg = tasks[j].arg /\ ts[j].live = tasks[j].live
  BY DEF Received
<1>2. ASSUME NEW j \in Slots
      PROVE  /\ DOMAIN tasks[j].got \subseteq DOMAIN ts[j].got
             /\ \A q \in DOMAIN tasks[j].got : ts[j].got[q] = tasks[j].got[q]
             /\ \A q \in DOMAIN ts[j].got \ DOMAIN tasks[j].got : q = r /\ ts[j].got[q] = a
  BY DEF Received
<1>3. \A j \in Slots : Succeeded(tasks[j]) => Succeeded(ts[j])
  BY <1>2 DEF Succeeded
<1>4. Single(tab, url, ts)
  BY <1>1 DEF Calm, Single
<1>5. Fresh(db, ts)
  <2> SUFFICES ASSUME NEW j \in Slots, NEW q \in DOMAIN ts[j].got PROVE StillSo(db, q, ts[j].got[q])
    BY DEF Fresh
  <2>1. CASE q \in DOMAIN tasks[j].got
    BY <1>2, <2>1 DEF Calm, Fresh
  <2>2. CASE q \notin DOMAIN tasks[j].got
    BY <1>2, <2>2
  <2>3. QED
    BY <2>1, <2>2
<1>6. Chosen(db, tab, details, ts)
  BY <1>1, <1>3 DEF Calm, Chosen
<1>7. (Lists(tasks) => Lists(ts)) /\ (Assigns(tasks) => Assigns(ts))
  BY <1>1, <1>3 DEF Lists, Assigns
<1>8. Current(db, tab, url, details, panel, ts)
  BY <1>1, <1>7 DEF Calm, Current
<1>9. Counted(db, details, ts, drafts)
  <2>1. \A j \in Slots : DOMAIN ts[j].got = {} => DOMAIN tasks[j].got = {}
    BY <1>2
  <2>2. QED
    BY <1>1, <2>1 DEF Calm, Counted
<1>10. QED
  BY <1>4, <1>5, <1>6, <1>8, <1>9 DEF Calm

\* A handler that writes has the page to itself.
LEMMA WriterAlone ==
    ASSUME TypeInv, NEW k \in Slots, NEW r \in tasks[k].sent, Writes(tasks[k].at, tasks[k].arg, r),
           Single(tab, url, tasks)
    PROVE  /\ DOMAIN tasks[k].got = {}
           /\ \A j \in Slots : j # k => tasks[j] = Idle
           /\ tasks[k].at \in {"save", "drop", "unlink"} => tab = "Agents"
           /\ tasks[k].at \in {"add", "remove"} => tab \in Panels
           /\ r[1] \in {"createAgent", "updateAgent", "dropAgent", "add", "remove"}
           /\ r[1] = "createAgent" => tasks[k].arg.temp
<1>1. r[1] \in {"createAgent", "updateAgent", "dropAgent", "add", "remove"}
  BY WordIs DEF Writes
<1>2. ~Reads(r)
  <2>1. Reads(r) => r[1] \in {"getAllAgents", "available", "getAgentById", "assigned"}
    BY WordIs DEF Reads
  <2>2. QED
    BY <1>1, <2>1
<1>3. tasks[k].at \in {"save", "drop", "unlink", "remove", "add"}
  BY DEF Writes
<1>4. GoodTask(tasks[k]) /\ \A j \in Slots : GoodTask(tasks[j])
  BY DEF TypeInv, GoodTasks
<1>5. DOMAIN tasks[k].got = {}
  <2>1. /\ Asks(tasks[k].at, tasks[k].arg, tasks[k].sent \cup DOMAIN tasks[k].got)
        /\ tasks[k].sent \cap DOMAIN tasks[k].got = {}
    BY <1>4, BusyIs
  <2>2. r \in tasks[k].sent \cup DOMAIN tasks[k].got
    OBVIOUS
  <2>3. tasks[k].sent \cup DOMAIN tasks[k].got = {r}
    BY <1>2, <2>1, <2>2, RequestIs
  <2>4. QED
    BY <2>1, <2>3
<1>6. ASSUME NEW j \in Slots, j # k PROVE tasks[j] = Idle
  <2>1. tasks[k].at \notin MayOverlap \cup {"idle"}
    BY <1>3 DEF MayOverlap
  <2>2. tasks[j].at = "idle"
    BY <1>6, <2>1 DEF Single
  <2>3. QED
    BY <1>4, <2>2, IdleIs
<1>7. tasks[k].at \in PlacesOf(tab) /\ tab \in Tabs
  BY <1>3 DEF Single, TypeInv
<1>8. tasks[k].at \in {"save", "drop", "unlink"} => tab = "Agents"
  BY <1>7 DEF PlacesOf, PanelPlaces, FormPlaces
<1>9. tasks[k].at \in {"add", "remove"} => tab \in Panels
  BY <1>7 DEF PlacesOf, DetailsPlaces, Tabs
<1>10. r[1] = "createAgent" => tasks[k].arg.temp
  BY WordIs DEF Writes
<1>11. QED
  BY <1>1, <1>5, <1>6, <1>8, <1>9, <1>10

\* A request that writes keeps what a patient user sees: the handler that sent it will
\* show what it has done.
LEMMA WriteCalm ==
    ASSUME TypeInv, NEW k \in Slots, NEW r \in tasks[k].sent, Writes(tasks[k].at, tasks[k].arg, r),
           NEW a, a.ok, NEW ts, Received(ts, k, r, a), NEW d, Written(tasks[k].at, r, d),
           Calm(db, tab, url, details, panel, tasks, drafts)
    PROVE  Calm(d, tab, url, details, panel, ts, drafts)
<1>1. \A j \in Slots : ts[j].at = tasks[j].at /\ ts[j].arg = tasks[j].arg /\ ts[j].live = tasks[j].live
  BY DEF Received
<1>2. /\ DOMAIN tasks[k].got = {} /\ \A j \in Slots : j # k => tasks[j] = Idle
      /\ tasks[k].at \in {"save", "drop", "unlink"} => tab = "Agents"
      /\ tasks[k].at \in {"add", "remove"} => tab \in Panels
      /\ r[1] \in {"createAgent", "updateAgent", "dropAgent", "add", "remove"}
      /\ r[1] = "createAgent" => tasks[k].arg.temp
  BY WriterAlone DEF Calm
<1>3. DOMAIN ts[k].got = {r} /\ ts[k].got[r] = a /\ \A j \in Slots : j # k => ts[j] = Idle
  BY <1>2 DEF Received
<1>4. Idle.at = "idle" /\ DOMAIN Idle.got = {}
  BY IdleIs
<1>5. Succeeded(ts[k])
  BY <1>3 DEF Succeeded
<1>6. \A j \in Slots : Succeeded(tasks[j]) => FALSE
  BY <1>2, <1>4 DEF Succeeded
<1>7. tasks[k].at \in {"save", "drop", "unlink", "add", "remove"}
  BY DEF Writes
<1>8. \A j \in Slots : ts[j].at # "idle" => j = k
  BY <1>3, <1>4
<1>9. Single(tab, url, ts)
  BY <1>1 DEF Calm, Single
<1>10. Fresh(d, ts)
  <2>1. StillSo(d, r, a)
    BY <1>2 DEF StillSo
  <2>2. QED
    BY <1>3, <1>4, <2>1 DEF Fresh
<1>11. Chosen(d, tab, details, ts)
  <2>1. CASE tasks[k].at = "drop"
    BY <1>1, <1>5, <2>1 DEF Chosen
  <2>2. CASE tasks[k].at # "drop"
    <3>1. tab = "Agents" => details.selected \in DOMAIN db.agents \cup {None, Temp}
      BY <1>6 DEF Calm, Chosen
    <3>2. DOMAIN db.agents \subseteq DOMAIN d.agents
      BY <2>2 DEF Written
    <3>3. QED
      BY <3>1, <3>2 DEF Chosen
  <2>3. QED
    BY <2>1, <2>2
<1>12. Current(d, tab, url, details, panel, ts)
  <2>1. CASE tasks[k].at \in {"save", "drop"}
    <3>1. tab = "Agents"
      BY <1>2, <2>1
    <3>2. Lists(ts)
      BY <1>1, <1>5, <2>1 DEF Lists
    <3>3. QED
      BY <3>1, <3>2 DEF Current, Panels
  <2>2. CASE tasks[k].at = "unlink"
    <3>1. tab = "Agents" /\ d.agents = db.agents
      BY <1>2, <2>2 DEF Written
    <3>2. ~Lists(tasks)
      BY <1>2, <1>4, <2>2 DEF Lists
    <3>3. QED
      BY <3>1, <3>2 DEF Calm, Current, Panels
  <2>3. CASE tasks[k].at \in {"add", "remove"}
    <3>1. tab \in Panels /\ d.agents = db.agents
      BY <1>2, <2>3 DEF Written
    <3>2. Assigns(ts)
      BY <1>1, <1>5, <2>3 DEF Assigns
    <3>3. (\E j \in Slots : tasks[j].at = "panelLoad") => \E j \in Slots : ts[j].at = "panelLoad"
      BY <1>1
    <3>4. QED
      BY <3>1, <3>2, <3>3 DEF Calm, Current, Panels
  <2>4. QED
    BY <1>7, <2>1, <2>2, <2>3
<1>13. Counted(d, details, ts, drafts)
  <2>1. /\ drafts \in Nat /\ IsFiniteSet(New(db)) /\ Cardinality(New(db)) <= drafts
        /\ details.temp /\ (\A j \in Slots : tasks[j].at = "save" => DOMAIN tasks[j].got = {})
              => Cardinality(New(db)) + 1 <= drafts
        /\ \A j \in Slots : tasks[j].at = "save" => details.loading /\ details.temp = tasks[j].arg.temp
    BY DEF Calm, Counted
  <2>2. \A j \in Slots : ts[j].at = "save" => details.loading /\ details.temp = ts[j].arg.temp
    BY <1>1, <2>1
  <2>3. Cardinality(New(db)) \in Nat
    BY <2>1, FS_CardinalityType
  <2>4. CASE r[1] = "createAgent" /\ tasks[k].at = "save"
    <3>1. PICK x : x \notin db.given /\ d.given = db.given \cup {x}
      BY <1>2, <2>4 DEF Written
    <3>2. New(d) = New(db) \cup {x} /\ x \notin New(db)
      BY <3>1 DEF New, TypeInv, GoodDb
    <3>3. IsFiniteSet(New(d)) /\ Cardinality(New(d)) = Cardinality(New(db)) + 1
      BY <2>1, <3>2, FS_AddElement
    <3>4. Cardinality(New(db)) + 1 <= drafts
      BY <1>2, <1>4, <2>1, <2>4
    <3>5. ~(\A j \in Slots : ts[j].at = "save" => DOMAIN ts[j].got = {})
      BY <1>1, <1>3, <2>4
    <3>6. QED
      BY <2>1, <2>2, <3>3, <3>4, <3>5 DEF Counted
  <2>5. CASE ~(r[1] = "createAgent" /\ tasks[k].at = "save")
    <3>1. d.given = db.given
      BY <2>5 DEF Written
    <3>2. New(d) = New(db)
      BY <3>1 DEF New
    <3>3. (\A j \in Slots : ts[j].at = "save" => DOMAIN ts[j].got = {})
            => \A j \in Slots : tasks[j].at = "save" => DOMAIN tasks[j].got = {}
      BY <1>2, <1>4
    <3>4. QED
      BY <2>1, <2>2, <3>2, <3>3 DEF Counted
  <2>6. QED
    BY <2>4, <2>5
<1>14. QED
  BY <1>9, <1>10, <1>11, <1>12, <1>13 DEF Calm

\* Every answer of the server, and every request that does not come through.
LEMMA ServerKeeps ==
    ASSUME PageInv, NEW k \in Slots, NEW r \in tasks[k].sent, Serve(k, r) \/ Fail(k, r)
    PROVE  PageInv'
<1>1. TypeInv /\ GoodDb(db) /\ GoodTasks(tasks) /\ GoodTask(tasks[k])
  BY DEF PageInv, TypeInv, GoodTasks
<1>2. HasId(r) /\ UNCHANGED <<url, tab, details, panel, hasty, drafts>>
  BY DEF Serve, Fail, HasId, counters
<1>3. Reads(r) \/ Writes(tasks[k].at, tasks[k].arg, r)
  <2>1. Asks(tasks[k].at, tasks[k].arg, tasks[k].sent \cup DOMAIN tasks[k].got)
    BY <1>1, BusyIs
  <2>2. QED
    BY <2>1, RequestIs
<1>4. ~Failure.ok /\ GoodAnswer(r, Failure)
  BY DEF Failure, GoodAnswer
<1>5. CASE Fail(k, r)
  <2>1. tasks' = Receive(tasks, k, r, Failure) /\ failed' /\ (db' = db \/ (Accepts(r) /\ db' = Effect(r)))
    BY <1>5 DEF Fail
  <2>2. GoodDb(db')
    <3>1. Accepts(r) => GoodDb(Effect(r))
      BY <1>1, <1>2, <1>3, AnswersAre, WritesAre DEF Written
    <3>2. QED
      BY <1>1, <2>1, <3>1
  <2>3. Received(tasks', k, r, Failure)
    BY <1>1, <1>4, <2>1, ReceiveIs
  <2>4. TypeInv' /\ SpinInv'
    BY <1>2, <2>2, <2>3, AnswerKeeps
  <2>5. QED
    BY <2>1, <2>4 DEF PageInv, CalmInv
<1>6. CASE Serve(k, r) /\ Accepts(r)
  <2> DEFINE a == Ok(Returns(r))
  <2>1. db' = Effect(r) /\ tasks' = Receive(tasks, k, r, a) /\ UNCHANGED failed
    BY <1>6 DEF Serve, counters
  <2>2. a.ok /\ a = Ok(a.data) /\ a.data = Returns(r)
    BY DEF Ok
  <2> HIDE DEF a
  <2>3. \/ Reads(r) /\ db' = db /\ Tells(r, Returns(r)) /\ StillSo(db, r, a)
        \/ Writes(tasks[k].at, tasks[k].arg, r) /\ Written(tasks[k].at, r, db')
    BY <1>1, <1>2, <1>3, <1>6, <2>1, AnswersAre, WritesAre DEF a
  <2>4. GoodDb(db') /\ Tells(r, Returns(r))
    BY <1>1, <2>3 DEF Written
  <2>5. GoodAnswer(r, a)
    BY <2>2, <2>4 DEF GoodAnswer
  <2>6. Received(tasks', k, r, a)
    BY <1>1, <2>1, <2>5, ReceiveIs
  <2>7. TypeInv' /\ SpinInv'
    BY <1>2, <2>4, <2>6, AnswerKeeps
  <2>8. ASSUME Calm(db, tab, url, details, panel, tasks, drafts)
        PROVE  Calm(db', tab, url, details, panel, tasks', drafts)
    BY <1>1, <2>2, <2>3, <2>6, <2>8, AnswerCalm, WriteCalm
  <2>9. CalmInv'
    BY <1>2, <2>1, <2>8 DEF PageInv, CalmInv
  <2>10. QED
    BY <2>7, <2>9 DEF PageInv
<1>7. CASE Serve(k, r) /\ ~Accepts(r)
  <2>1. db' = db /\ tasks' = Receive(tasks, k, r, Failure) /\ UNCHANGED failed
    BY <1>7 DEF Serve, counters
  <2>2. Received(tasks', k, r, Failure)
    BY <1>1, <1>4, <2>1, ReceiveIs
  <2>3. TypeInv' /\ SpinInv'
    BY <1>1, <1>2, <2>1, <2>2, AnswerKeeps
  <2>4. StillSo(db, r, Failure)
    <3>1. CASE Reads(r)
      BY <1>1, <1>7, <3>1, AnswersAre
    <3>2. CASE Writes(tasks[k].at, tasks[k].arg, r)
      <4>1. r[1] \in {"createAgent", "updateAgent", "dropAgent", "add", "remove"}
        BY <3>2, WordIs DEF Writes
      <4>2. r[1] # "createAgent"
        BY <1>7 DEF Accepts
      <4>3. QED
        BY <4>1, <4>2 DEF StillSo
    <3>3. QED
      BY <1>3, <3>1, <3>2
  <2>5. ASSUME Calm(db, tab, url, details, panel, tasks, drafts)
        PROVE  Calm(db, tab, url, details, panel, tasks', drafts)
    BY <1>1, <2>2, <2>4, <2>5, AnswerCalm
  <2>6. CalmInv'
    BY <1>2, <2>1, <2>5 DEF PageInv, CalmInv
  <2>7. QED
    BY <2>3, <2>6 DEF PageInv
<1>8. QED
  BY <1>5, <1>6, <1>7

-----------------------------------------------------------------------------
(* The invariant.                                                          *)

\* The page begins with the tab of agents and its fetch.
LEMMA InitKeeps ==
    ASSUME Init
    PROVE  PageInv
<1> DEFINE z == [k \in Slots |-> Idle]
           e == DetailsLoad(url, FALSE)
           as == [a \in Initially |-> [name |-> a]]
           ls == [kind \in Panels |-> {}]
<1>1. /\ db = [agents |-> as, links |-> ls, given |-> Initially]
      /\ url \in Initially \cup {None} /\ tab = "Agents" /\ details = NoDetails /\ panel = NoPanel
      /\ tasks = Begin(z, e) /\ drafts = 0 /\ ~failed /\ ~hasty
  BY DEF Init
<1>2. Initially \subseteq Agents /\ Blank \notin Agents /\ url \in Urls
  BY <1>1, AgentsAssumption DEF Urls
<1>3. e = EffectOf("Agents", url, FALSE)
  BY DEF EffectOf
<1>4. DOMAIN z = Slots /\ \A k \in Slots : z[k] = Idle
  OBVIOUS
<1> HIDE DEF z, e, as, ls
<1>5. Idle.at = "idle" /\ DOMAIN Idle.got = {} /\ GoodTask(Idle)
  BY IdleIs
<1>6. GoodTask(e) /\ e.live /\ DOMAIN e.got = {} /\ e.at = "load"
  <2>1. "Agents" \in Tabs /\ FALSE \in BOOLEAN
    BY DEF Tabs
  <2>2. GoodTask(e) /\ (e # Idle => e.live /\ DOMAIN e.got = {}) /\ e.at = "load"
    BY <1>2, <1>3, <2>1, EffectIs
  <2>3. QED
    BY <1>5, <2>2
<1>7. HasRoom(z)
  <2>1. 1 \in Slots
    BY MaxTasksAssumption DEF Slots
  <2>2. QED
    BY <1>5, <1>4, <2>1 DEF HasRoom, Free, Running
<1>8. PICK i \in Slots : DOMAIN tasks = Slots /\ \A k \in Slots : tasks[k] = IF k = i THEN e ELSE Idle
  BY <1>1, <1>4, <1>7, BeginIs
<1>9. as \in Partial(Agents, SavedForms) /\ DOMAIN as = Initially /\ \A a \in DOMAIN as : Meant(a, as[a])
  <2>1. \A a \in Initially : [name |-> a] \in SavedForms
    BY <1>2 DEF SavedForms, Forms
  <2>2. as \in [Initially -> SavedForms] /\ Initially \in SUBSET Agents
    BY <1>2, <2>1 DEF as
  <2>3. DOMAIN as = Initially /\ \A a \in Initially : as[a].name = a
    BY DEF as
  <2>4. QED
    BY <2>2, <2>3 DEF Partial, Meant
<1>10. ls \in [Panels -> SUBSET (Agents \X Items)] /\ \A kind \in Panels : ls[kind] = {}
  BY DEF ls
<1>11. GoodDb(db)
  BY <1>1, <1>2, <1>9, <1>10 DEF GoodDb
<1>12. TypeInv
  <2>1. GoodTasks(tasks)
    BY <1>6, <1>5, <1>8 DEF GoodTasks
  <2>2. QED
    BY <1>1, <1>2, <1>11, <2>1, EmptyTabs DEF TypeInv, Tabs
<1>13. SpinInv
  <2>1. Turns(tasks, DetailsPlaces)
    BY <1>6, <1>8 DEF Turns, DetailsPlaces
  <2>2. QED
    BY <1>1, <2>1, EmptyTabs DEF SpinInv, Spins, Panels
<1>14. Calm(db, tab, url, details, panel, tasks, drafts)
  <2>1. \A k \in Slots : /\ DOMAIN tasks[k].got = {} /\ tasks[k].at \in {"idle", "load"}
                         /\ tasks[k].at # "idle" => tasks[k].live
    BY <1>6, <1>5, <1>8
  <2>2. Single(tab, url, tasks)
    BY <1>1, <2>1 DEF Single, PlacesOf, DetailsPlaces, MayOverlap, Panels
  <2>3. Fresh(db, tasks)
    BY <2>1 DEF Fresh
  <2>4. Chosen(db, tab, details, tasks)
    BY <1>1, EmptyTabs DEF Chosen
  <2>5. Current(db, tab, url, details, panel, tasks)
    <3>1. Lists(tasks)
      BY <1>6, <1>8 DEF Lists
    <3>2. QED
      BY <1>1, <3>1 DEF Current, Panels
  <2>6. Counted(db, details, tasks, drafts)
    <3>1. New(db) = {}
      BY <1>1 DEF New
    <3>2. IsFiniteSet(New(db)) /\ Cardinality(New(db)) = 0
      BY <3>1, FS_EmptySet
    <3>3. ~details.temp
      BY <1>1, EmptyTabs
    <3>4. QED
      BY <1>1, <2>1, <3>2, <3>3 DEF Counted
  <2>7. QED
    BY <2>2, <2>3, <2>4, <2>5, <2>6 DEF Calm
<1>15. QED
  BY <1>12, <1>13, <1>14 DEF PageInv, CalmInv

\* Every step keeps the invariant.
LEMMA NextKeeps ==
    ASSUME PageInv, [Next]_vars
    PROVE  PageInv'
<1>1. CASE UNCHANGED vars
  <2>1. UNCHANGED <<db, url, tab, details, panel, tasks, failed, drafts, hasty>>
    BY <1>1 DEF vars
  <2>2. TypeInv'
    BY <2>1 DEF PageInv, TypeInv, GoodDb, GoodDetails, GoodTasks
  <2>3. SpinInv'
    BY <2>1 DEF PageInv, SpinInv, Spins, Turns
  <2>4. CalmInv'
    BY <2>1 DEF PageInv, CalmInv, Calm, Single, Fresh, Chosen, Current, Lists, Assigns, Succeeded, Counted, New
  <2>5. QED
    BY <2>2, <2>3, <2>4 DEF PageInv
<1>2. CASE ClickStep
  BY <1>2, ClicksKeep
<1>3. CASE \E u \in db.given \cup {None}, t \in Tabs : Back(u, t)
  BY <1>3, BackKeeps
<1>4. ASSUME NEW k \in Slots, HandlerStep(k) PROVE PageInv'
  BY <1>4, HandlersKeep
<1>5. ASSUME NEW k \in Slots, NEW r \in tasks[k].sent, Serve(k, r) \/ Fail(k, r) PROVE PageInv'
  BY <1>5, ServerKeeps
<1>6. QED
  BY <1>1, <1>2, <1>3, <1>4, <1>5 DEF Next, Served

\* What the page promises follows from the invariant.
LEMMA Promises ==
    ASSUME PageInv
    PROVE  TypeOK /\ ShownIsTrue /\ SavesAreMeant
<1>1. /\ db \in [agents : Partial(Agents, SavedForms), links : [Panels -> SUBSET (Agents \X Items)],
                 given : SUBSET Agents]
      /\ Initially \cup DOMAIN db.agents \subseteq db.given
      /\ \A a \in DOMAIN db.agents : Meant(a, db.agents[a])
      /\ \A kind \in Panels : \A l \in db.links[kind] : l[1] \in DOMAIN db.agents
  BY DEF PageInv, TypeInv, GoodDb
<1>2. \A a \in DOMAIN db.agents : db.agents[a] \in SavedForms
  BY <1>1, PartialIs
<1>3. url \in Urls /\ tab \in Tabs /\ details \in DetailsType /\ panel \in PanelType
  BY DEF PageInv, TypeInv, GoodDetails
<1>4. TypeOK
  <2>1. \A kind \in Panels : db.links[kind] \subseteq Existing \X Items
    <3> SUFFICES ASSUME NEW kind \in Panels, NEW l \in db.links[kind] PROVE l \in Existing \X Items
      OBVIOUS
    <3>1. l \in Agents \X Items
      BY <1>1
    <3>2. l[1] \in Existing
      BY <1>1 DEF Existing
    <3>3. QED
      BY <3>1, <3>2
  <2>2. \A k \in Slots : ~(tasks[k].at = "idle" /\ tasks[k].sent # {})
    BY BusyIs DEF PageInv, TypeInv, GoodTasks
  <2>3. Existing \subseteq db.given /\ db.given \subseteq Agents
    BY <1>1 DEF Existing
  <2>4. \A a \in Existing : db.agents[a] \in Forms /\ db.agents[a].name # Blank
    BY <1>2 DEF Existing, SavedForms
  <2>5. /\ details.agents \subseteq Agents /\ details.selected \in Ids /\ details.form \in Forms
        /\ details.confirm \in Agents \cup {None, Temp}
    BY <1>3 DEF DetailsType, Ids
  <2>6. panel.assigned \subseteq Items /\ panel.available \subseteq Items
    BY <1>3 DEF PanelType
  <2>7. QED
    BY <1>3, <2>1, <2>2, <2>3, <2>4, <2>5, <2>6 DEF TypeOK, Urls
<1>5. ASSUME Quiet PROVE \A k \in Slots : tasks[k].at = "idle"
  BY <1>5 DEF Quiet, Running
<1>6. ShownIsTrue
  <2>1. ASSUME Quiet, ~hasty, ~failed
        PROVE  Current(db, tab, url, details, panel, tasks) /\ Chosen(db, tab, details, tasks)
    BY <2>1 DEF PageInv, CalmInv, Calm
  <2>2. ASSUME Quiet PROVE ~Lists(tasks) /\ ~Assigns(tasks)
    BY <1>5, <2>2 DEF Lists, Assigns
  <2>3. ListIsTrue
    BY <1>5, <2>1, <2>2 DEF ListIsTrue, Current, Chosen, Existing
  <2>4. PanelIsTrue
    <3> SUFFICES ASSUME Quiet, ~hasty, ~failed, tab \in Panels, url \in Existing
                 PROVE  panel.agent = url /\ panel.assigned = ItemsOf(tab, url)
      BY DEF PanelIsTrue
    <3>1. ItemsOf(tab, url) = ItemsIn(db, tab, url)
      BY DEF ItemsOf, ItemsIn
    <3>2. QED
      BY <1>5, <2>1, <2>2, <3>1 DEF Current, Existing
  <2>5. SpinnerEnds
    <3>1. ASSUME Quiet, NEW places, Turns(tasks, places) PROVE "idle" \in places
      BY <1>5, <3>1 DEF Turns
    <3>2. QED
      BY <3>1 DEF SpinnerEnds, PageInv, SpinInv, Spins, DetailsPlaces, PanelPlaces, FormPlaces
  <2>6. QED
    BY <2>3, <2>4, <2>5 DEF ShownIsTrue
<1>7. SavesAreMeant
  <2>1. NamesApart
    BY <1>1 DEF NamesApart, Existing, Meant
  <2>2. CreatedOnce
    BY DEF CreatedOnce, PageInv, CalmInv, Calm, Counted, New
  <2>3. QED
    BY <2>1, <2>2 DEF SavesAreMeant
<1>8. QED
  BY <1>4, <1>6, <1>7

-----------------------------------------------------------------------------
(* The theorems.                                                           *)

\* The inductive invariant: types, spinners with their handlers, and the calm of a user
\* who waits.
THEOREM PageCorrect == Spec => []PageInv
<1>1. Init => PageInv
  BY InitKeeps
<1>2. PageInv /\ [Next]_vars => PageInv'
  BY NextKeeps
<1>3. QED
  BY <1>1, <1>2, PTL DEF Spec

\* Every variable keeps its type: no agent is saved without a name, and only agents that
\* exist have plugins and topics, whatever fails and wherever the user goes.
THEOREM TypeCorrect == Spec => []TypeOK
<1>1. PageInv => TypeOK
  BY Promises
<1>2. QED
  BY <1>1, PageCorrect, PTL

\* The list, the selection and the items of the agent in the URL are the server's when
\* nothing runs any more after a patient user's clicks, and no spinner outlives its
\* handlers even when requests fail and handlers overlap.
THEOREM ShownCorrect == Spec => []ShownIsTrue
<1>1. PageInv => ShownIsTrue
  BY Promises
<1>2. QED
  BY <1>1, PageCorrect, PTL

\* No update gives an agent that was there at first the name of another, however late the
\* answers that fill the form, and a patient user gets one agent for each one begun.  Of
\* the names new agents are created with nothing is claimed.
THEOREM SavesCorrect == Spec => []SavesAreMeant
<1>1. PageInv => SavesAreMeant
  BY Promises
<1>2. QED
  BY <1>1, PageCorrect, PTL
=============================================================================
