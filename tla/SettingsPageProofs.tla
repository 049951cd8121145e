------------------------- MODULE SettingsPageProofs -------------------------
(***************************************************************************)
(* Safety of the Settings page for every set of authorizers and            *)
(* connections, any number of handlers and any number of clicks: what the  *)
(* tabs show is what the server holds, and updates do not mix up the texts *)
(* of authorizers.                                                         *)
(***************************************************************************)
EXTENDS SettingsPage, FiniteSetTheorems, WellFoundedInduction, TLAPS

-----------------------------------------------------------------------------
(* Types.                                                                  *)

\* Functions on a part of the ids: records that come and go.
Partial(S, T) == UNION {[R -> T] : R \in SUBSET S}

\* An authorizer there was at first is not created again; without these every text was typed.
Known(d) == InitialAuthorizers \subseteq d.given
\* The text x may be that of record i of tab t.
Meant(d, t, i, x) ==
    t = "authorizers" => /\ i \in InitialAuthorizers => x \in {i, Typed}
                         /\ ~Known(d) => x = Typed

\* Records of the server.  An id is given once.
GoodDb(d) ==
    /\ d = [records |-> d.records, given |-> d.given]
    /\ d.given \subseteq Authorizers \cup Connections /\ IsFiniteSet(d.given)
    /\ d.records = [t \in PageTabs |-> d.records[t]]
    /\ \A t \in PageTabs : /\ d.records[t] \in Partial(Ids[t], Texts) /\ DOMAIN d.records[t] \subseteq d.given
                           /\ \A i \in DOMAIN d.records[t] : Meant(d, t, i, d.records[t][i])

\* What tab t shows.
Views(t) == [list : Partial(Ids[t], Texts), choices : SUBSET Authorizers, id : Ids[t] \cup {None},
             selected : {None} \cup [id : Ids[t], text : Texts], loading : BOOLEAN, open : BOOLEAN,
             form : Texts \cup {Blank}, temp : BOOLEAN, confirm : Ids[t] \cup {None}]
GoodView(d, t, v) ==
    /\ v \in Views(t) /\ (v.temp => v.open)
    /\ v.selected # None => Meant(d, t, v.selected.id, v.selected.text)
    /\ t = "authorizers" /\ ~Known(d) => v.form \in {Typed, Blank}
\* The form is the text of the selected record, or what the user typed.
FormMeant(v) == v.open /\ v.selected # None => v.form \in {v.selected.text, Typed}
Page(s) == /\ s = [tab |-> s.tab, hasAuthorizers |-> s.hasAuthorizers, view |-> s.view]
           /\ s.tab \in PageTabs /\ s.hasAuthorizers \in BOOLEAN
GoodUi(d, s) ==
    /\ Page(s)
    /\ IF Mounted(s) = None THEN s.view = NoView ELSE GoodView(d, Mounted(s), s.view) /\ FormMeant(s.view)

\* The requests a handler has made at each of its awaits.
Asks(d, at, arg, q) ==
    \/ at = "choices" /\ arg = <<>> /\ q = {getAll("authorizers")}
    \/ \E t \in PageTabs :
        \/ at = "list" /\ q = {getAll(t)}
           /\ \E after \in {"nothing", "save", "delete"}, i \in Ids[t] \cup {None} : arg = [tab |-> t, then |-> after, id |-> i]
        \/ \E after \in {"nothing", "save"}, i \in Ids[t] :
              at = "details" /\ q = {getById(t, i)} /\ arg = [tab |-> t, then |-> after, id |-> i]
        \/ /\ at = "save" /\ \E i \in Ids[t] \cup {None} : arg = [tab |-> t, id |-> i]
           /\ \E x \in Texts : \/ q = {create(t, x)} /\ (t = "authorizers" /\ ~Known(d) => x = Typed)
                               \/ \E i \in Ids[t] : q = {update(t, i, x)} /\ Meant(d, t, i, x)
        \/ at = "delete" /\ \E i \in Ids[t] : arg = [tab |-> t, id |-> i] /\ q = {delete(t, i)}

\* What the answer to a request can be.
Tells(d, r, data) ==
    /\ r[1] = "getAll" => data \in Partial(Ids[r[2]], Texts)
    /\ r[1] = "getById" => data \in [id : {r[3]}, text : Texts] /\ Meant(d, r[2], r[3], data.text)
    /\ r[1] = "create" => data \in Ids[r[2]]
GoodAnswer(d, r, a) == a = Failure \/ (a = Ok(a.data) /\ Tells(d, r, a.data))

GoodTask(d, t) ==
    \/ t = Idle
    \/ /\ t = [at |-> t.at, arg |-> t.arg, sent |-> t.sent, got |-> t.got, live |-> t.live]
       /\ t.live \in BOOLEAN
       /\ t.sent \cap DOMAIN t.got = {}
       /\ Asks(d, t.at, t.arg, t.sent \cup DOMAIN t.got)
       /\ \A r \in DOMAIN t.got : GoodAnswer(d, r, t.got[r])
GoodTasks(d, ts) == DOMAIN ts = Slots /\ \A k \in Slots : GoodTask(d, ts[k])

\* Live handlers are those of the tab that is mounted; of the others only writers go on,
\* and fetches of the authorizers, which the page wants to know of.
TabOf(t) == IF t.at = "choices" THEN "connections" ELSE t.arg.tab
Outlives(t) == t.at \in {"save", "delete"} \/ (t.at = "list" /\ t.arg.tab = "authorizers")
Placed(s, t) == t.at # "idle" => IF t.live THEN TabOf(t) = Mounted(s) ELSE Outlives(t)
AllPlaced(s, ts) == \A k \in Slots : Placed(s, ts[k])

TypeInv ==
    /\ GoodDb(db) /\ url \in PageTabs \cup {None} /\ due \in Nat
    /\ GoodUi(db, ui) /\ GoodTasks(db, tasks) /\ AllPlaced(ui, tasks)

-----------------------------------------------------------------------------
(* The invariants.                                                         *)

\* A spinner turns as long as a handler that will stop it runs.
Turns(ts) == \E k \in Slots : ts[k].at \in {"list", "details", "save", "delete"} /\ ts[k].live
SpinInv == ui.view.loading => Turns(tasks)

\* Of a user who waits, while no request fails.  A handler that may run beside another: the
\* choices of the form of connections, and the list after a record was created, beside which
\* its details are fetched.
Late(t) == t.at = "choices" \/ (t.at = "list" /\ t.arg.then = "save" /\ t.arg.id = None)
Deletes(t) == t.at = "delete" \/ (t.at = "list" /\ t.arg.then = "delete")
Saves(t) == t.at = "save" \/ (t.at \in {"list", "details"} /\ t.arg.then = "save")

Requested(t) == t.sent \cup DOMAIN t.got

\* What a handler that runs knows of the tab.
Relies(v, t) ==
    /\ t.live
    /\ t.at = "details" \/ t.at = "save" \/ t.at = "delete" => t.arg.id = v.id
    /\ t.at = "save" => \A r \in Requested(t) : IF r[1] = "create" THEN v.id = None ELSE r[3] = v.id
    /\ t.at = "list" /\ t.arg.then = "save" /\ t.arg.id # None => t.arg.id = v.id
    /\ t.at = "list" /\ t.arg.then = "delete" => v.id = None
    /\ Deletes(t) \/ t.at = "choices" \/ (t.at = "list" /\ t.arg.then = "nothing") => ~v.open
    /\ t.at = "list" /\ Late(t) => v.id # None
    /\ ~Late(t) => v.loading \/ ~v.open
    /\ v.confirm # None => v.loading /\ Deletes(t)

\* Which handlers run beside one another; a save beside another handler changes nothing.
Beside(d, t, late) ==
    /\ Late(late) /\ ~Late(t)
    /\ late.at = "choices" => t.at = "list" /\ t.arg.then = "nothing"
    /\ late.at = "list" => Saves(t) \/ t.at = "details"
    /\ t.at = "save" => \A r \in Requested(t) :
          r[1] = "update" /\ r[3] \in DOMAIN d.records[r[2]] /\ d.records[r[2]][r[3]] = r[4]
Single(d, v, ts) ==
    /\ \A k \in Slots : ts[k].at # "idle" => Relies(v, ts[k])
    /\ \A j, k \in Slots : j # k /\ ts[j].at # "idle" /\ ts[k].at # "idle" =>
          Beside(d, ts[j], ts[k]) \/ Beside(d, ts[k], ts[j])

\* An answer that waits to be read is still so.
Found(records, i) == [id |-> i, text |-> records[i]]
StillSo(d, r, a) ==
    /\ a.ok
    /\ r[1] = "getAll" => a.data = d.records[r[2]]
    /\ r[1] = "getById" => r[3] \in DOMAIN d.records[r[2]] /\ a.data = Found(d.records[r[2]], r[3])
    /\ r[1] = "create" => a.data \in DOMAIN d.records[r[2]]
AnswersHold(d, ts) == \A k \in Slots : \A r \in DOMAIN ts[k].got : StillSo(d, r, ts[k].got[r])

\* What is shown is so, unless a handler runs that will show it.
Written(t) == t.at \in {"save", "delete"} /\ DOMAIN t.got # {}
ListHolds(d, t, v, ts) == \/ v.list = d.records[t]
                          \/ \E k \in Slots : ts[k].at = "list" \/ Written(ts[k])
Loads(t) == \/ t.at = "details" \/ (t.at = "save" /\ Written(t))
            \/ t.at = "list" /\ t.arg.then = "save" /\ t.arg.id # None
Deleted(ts) == \E k \in Slots : ts[k].at = "delete" /\ Written(ts[k])
DetailsHold(d, t, v, ts) ==
    /\ v.id = None => v.selected = None
    /\ v.id # None => \/ Deleted(ts)
                      \/ /\ v.id \in DOMAIN d.records[t]
                         /\ v.selected = Found(d.records[t], v.id) \/ \E k \in Slots : Loads(ts[k])
    /\ v.open /\ v.selected = None /\ v.id # None => v.loading
    /\ v.confirm # None => ~v.open /\ (v.confirm = v.id \/ \E k \in Slots : ts[k].at = "list" /\ Deletes(ts[k]))

\* The way to the other tab.
Any(d) == DOMAIN d.records["authorizers"] # {}
GateHolds(d, s, ts) ==
    /\ s.tab = "connections" /\ s.hasAuthorizers => Any(d)
    /\ s.tab = "authorizers" => \/ s.hasAuthorizers = Any(d)
                                \/ \E k \in Slots : ts[k].at = "list" \/ Written(ts[k])

\* Ids that were given, and the one for the record that a form or a request is about.
Creating(t) == t.at = "save" /\ \E r \in t.sent : r[1] = "create"
NewForm(v, ts) == v.open /\ v.selected = None /\ \A k \in Slots : ~Saves(ts[k])
Counted(d, v, ts, n) ==
    /\ Cardinality(d.given) <= n
    /\ NewForm(v, ts) \/ (\E k \in Slots : Creating(ts[k])) => Cardinality(d.given) + 1 <= n

\* What holds of the tab whatever is in its form.
Settled(d, s, ts, n) ==
    /\ Single(d, s.view, ts) /\ AnswersHold(d, ts) /\ GateHolds(d, s, ts) /\ Counted(d, s.view, ts, n)
    /\ Mounted(s) # None => ListHolds(d, Mounted(s), s.view, ts) /\ DetailsHold(d, Mounted(s), s.view, ts)
\* The form that can be saved beside a handler says what the record is.
Unedited(v, ts) ==
    (\E k \in Slots : ts[k].at # "idle") => (v.open /\ v.selected # None => v.form = v.selected.text)
CalmInv == ~hasty /\ ~failed => Settled(db, ui, tasks, due) /\ Unedited(ui.view, tasks)

PageInv == TypeInv /\ SpinInv /\ CalmInv

-----------------------------------------------------------------------------
(* Records that come and go, and the handlers of the page.                 *)

\* What is in Partial(S, T).
LEMMA PartialIs ==
    ASSUME NEW S, NEW T, NEW f
    PROVE  f \in Partial(S, T) <=> /\ f = [x \in DOMAIN f |-> f[x]]
                                   /\ DOMAIN f \subseteq S
                                   /\ \A x \in DOMAIN f : f[x] \in T
<1>1. ASSUME f \in Partial(S, T)
      PROVE  f = [x \in DOMAIN f |-> f[x]] /\ DOMAIN f \subseteq S /\ \A x \in DOMAIN f : f[x] \in T
  <2>1. PICK R \in SUBSET S : f \in [R -> T]
    BY <1>1 DEF Partial
  <2>2. QED
    BY <2>1
<1>2. ASSUME f = [x \in DOMAIN f |-> f[x]], DOMAIN f \subseteq S, \A x \in DOMAIN f : f[x] \in T
      PROVE  f \in Partial(S, T)
  <2>1. f \in [DOMAIN f -> T]
    BY <1>2
  <2>2. DOMAIN f \in SUBSET S
    BY <1>2
  <2>3. QED
    BY <2>1, <2>2 DEF Partial
<1>3. QED
  BY <1>1, <1>2

\* The two tabs, the one that is mounted, and the ids of their records.
LEMMA TabsAre ==
    /\ None \notin PageTabs /\ "authorizers" \in PageTabs /\ "connections" \in PageTabs
    /\ Ids["authorizers"] = Authorizers /\ Ids["connections"] = Connections
    /\ \A t \in PageTabs : /\ t = "authorizers" \/ t = "connections"
                           /\ None \notin Ids[t] /\ Ids[t] \subseteq Authorizers \cup Connections
    /\ Ids["authorizers"] \cap Ids["connections"] = {}
    /\ \A s : s.tab \in PageTabs => Mounted(s) \in PageTabs \cup {None} /\ (Mounted(s) # None => Mounted(s) = s.tab)
  BY SettingsAssumption DEF PageTabs, Ids, Mounted

\* A handler that begins takes one free slot.
LEMMA BeginIs ==
    ASSUME NEW ts, DOMAIN ts = Slots, HasRoom(ts), NEW e
    PROVE  \E i \in Slots : /\ ts[i].at = "idle"
                            /\ DOMAIN Begin(ts, e) = Slots
                            /\ \A k \in Slots : Begin(ts, e)[k] = IF k = i THEN e ELSE ts[k]
<1>1. Free(ts) \in SUBSET Nat /\ Free(ts) # {} /\ \A k \in Free(ts) : k \in Slots /\ ts[k].at = "idle"
  BY MaxTasksAssumption DEF HasRoom, Free, Running, Slots
<1>2. PICK i \in Free(ts) : Begin(ts, e) = [ts EXCEPT ![i] = e]
  <2>1. \E k \in Free(ts) : \A j \in Free(ts) : k <= j
    <3>1. PICK k \in Free(ts) : \A j \in Free(ts) : ~(<<j, k>> \in OpToRel(<, Nat))
      BY <1>1, NatLessThanWellFounded, WFMin
    <3>2. \A m, n \in Nat : m < n => <<m, n>> \in OpToRel(<, Nat)
      BY DEF OpToRel
    <3>3. \A j \in Free(ts) : j \in Nat /\ k \in Nat /\ ~(j < k)
      BY <1>1, <3>1, <3>2
    <3>4. QED
      BY <3>3
  <2>2. (CHOOSE k \in Free(ts) : \A j \in Free(ts) : k <= j) \in Free(ts)
    BY <2>1
  <2>3. QED
    BY <2>2 DEF Begin
<1>3. QED
  BY <1>1, <1>2

\* Whether there is room for as many handlers.
LEMMA RoomIs ==
    ASSUME NEW ts
    PROVE  /\ 1 <= Cardinality(Free(ts)) => HasRoom(ts)
           /\ 2 <= Cardinality(Free(ts)) => \A i \in Free(ts) : Free(ts) \ {i} # {}
<1>1. IsFiniteSet(Free(ts)) /\ Cardinality(Free(ts)) \in Nat
  <2>1. IsFiniteSet(Slots)
    BY MaxTasksAssumption, FS_Interval DEF Slots
  <2>2. IsFiniteSet(Free(ts))
    BY <2>1, FS_Subset DEF Free
  <2>3. QED
    BY <2>2, FS_CardinalityType
<1>2. Cardinality({}) = 0
  BY FS_EmptySet
<1>3. \A i \in Free(ts) : Cardinality(Free(ts) \ {i}) = Cardinality(Free(ts)) - 1
  BY <1>1, FS_RemoveElement
<1>4. QED
  BY <1>1, <1>2, <1>3 DEF HasRoom

\* Two handlers that begin take two free slots.
LEMMA BeginTwo ==
    ASSUME NEW ts, DOMAIN ts = Slots, 2 <= Cardinality(Free(ts)), NEW e, e.at # "idle", NEW f
    PROVE  \E i, j \in Slots : /\ i # j /\ ts[i].at = "idle" /\ ts[j].at = "idle"
                               /\ DOMAIN Begin(Begin(ts, e), f) = Slots
                               /\ \A k \in Slots : Begin(Begin(ts, e), f)[k] =
                                     IF k = i THEN e ELSE IF k = j THEN f ELSE ts[k]
<1>1. HasRoom(ts)
  <2>1. \A i \in Free(ts) : Free(ts) \ {i} # {}
    BY RoomIs
  <2>2. Cardinality({}) = 0
    BY FS_EmptySet
  <2>3. QED
    BY <2>2 DEF HasRoom
<1>2. PICK i \in Slots : /\ ts[i].at = "idle" /\ DOMAIN Begin(ts, e) = Slots
                         /\ \A k \in Slots : Begin(ts, e)[k] = IF k = i THEN e ELSE ts[k]
  BY <1>1, BeginIs
<1>3. PICK us : us = Begin(ts, e)
  OBVIOUS
<1>4. Free(us) = Free(ts) \ {i} /\ i \in Free(ts)
  BY <1>2, <1>3 DEF Free, Running
<1>5. HasRoom(us)
  BY <1>4, RoomIs DEF HasRoom
<1>6. PICK j \in Slots : /\ us[j].at = "idle" /\ DOMAIN Begin(us, f) = Slots
                         /\ \A k \in Slots : Begin(us, f)[k] = IF k = j THEN f ELSE us[k]
  BY <1>2, <1>3, <1>5, BeginIs
<1>7. i # j /\ ts[j].at = "idle"
  BY <1>2, <1>3, <1>6
<1>8. \A k \in Slots : Begin(us, f)[k] = IF k = i THEN e ELSE IF k = j THEN f ELSE ts[k]
  BY <1>2, <1>3, <1>6, <1>7
<1>9. QED
  BY <1>2, <1>3, <1>6, <1>7, <1>8

\* The awaits of the handlers.
Places == {"list", "choices", "details", "save", "delete"}
LEMMA AsksIs ==
    ASSUME NEW d, NEW at, NEW arg, NEW q, Asks(d, at, arg, q)
    PROVE  at \in Places /\ at # "idle"
  BY DEF Asks, Places

\* A handler that has sent its requests, when it begins or goes on.
Handler(at, arg, q, live) == [at |-> at, arg |-> arg, sent |-> q, got |-> <<>>, live |-> live]
LEMMA NewTask ==
    ASSUME NEW d, NEW at, NEW arg, NEW q, NEW live \in BOOLEAN, Asks(d, at, arg, q),
           NEW t, t = Handler(at, arg, q, live)
    PROVE  /\ GoodTask(d, t) /\ t.at = at /\ t.arg = arg /\ t.sent = q /\ DOMAIN t.got = {} /\ t.live = live
           /\ at \in Places /\ at # "idle"
<1>1. /\ t = [at |-> t.at, arg |-> t.arg, sent |-> t.sent, got |-> t.got, live |-> t.live]
      /\ t.at = at /\ t.arg = arg /\ t.sent = q /\ t.got = <<>> /\ t.live = live
  BY DEF Handler
<1>2. DOMAIN <<>> = {}
  OBVIOUS
<1>3. t.sent \cup DOMAIN t.got = q
  BY <1>1, <1>2
<1>4. GoodTask(d, t)
  BY <1>1, <1>2, <1>3 DEF GoodTask
<1>5. QED
  BY <1>1, <1>2, <1>4, AsksIs

\* A handler that runs.
LEMMA BusyIs ==
    ASSUME NEW d, NEW t, GoodTask(d, t), t.at # "idle" \/ t.sent # {} \/ DOMAIN t.got # {} \/ t.live
    PROVE  /\ t = [at |-> t.at, arg |-> t.arg, sent |-> t.sent, got |-> t.got, live |-> t.live]
           /\ t.live \in BOOLEAN /\ t.sent \cap DOMAIN t.got = {}
           /\ Asks(d, t.at, t.arg, t.sent \cup DOMAIN t.got) /\ t.at \in Places /\ t.at # "idle"
           /\ \A r \in DOMAIN t.got : GoodAnswer(d, r, t.got[r])
<1>1. Idle.at = "idle" /\ Idle.sent = {} /\ Idle.got = <<>> /\ ~Idle.live /\ DOMAIN <<>> = {}
  BY DEF Idle
<1>2. t # Idle
  BY <1>1
<1>3. QED
  BY <1>2, AsksIs DEF GoodTask

\* A slot without a handler.
LEMMA IdleIs ==
    /\ \A d : GoodTask(d, Idle)
    /\ Idle.at = "idle" /\ Idle.sent = {} /\ DOMAIN Idle.got = {} /\ ~Idle.live
    /\ \A d, t : GoodTask(d, t) /\ t.at = "idle" => t = Idle
<1>1. DOMAIN <<>> = {}
  OBVIOUS
<1>2. QED
  BY <1>1, AsksIs DEF GoodTask, Idle

\* A handler whose requests have all been answered with data.
LEMMA Answers ==
    ASSUME NEW d, NEW t, GoodTask(d, t), t.at # "idle", t.sent = {}
    PROVE  /\ Asks(d, t.at, t.arg, DOMAIN t.got)
           /\ ~Threw(t) => \A r \in DOMAIN t.got : t.got[r].ok /\ Tells(d, r, Data(t, r))
<1>1. Asks(d, t.at, t.arg, t.sent \cup DOMAIN t.got) /\ \A r \in DOMAIN t.got : GoodAnswer(d, r, t.got[r])
  BY BusyIs
<1>2. ~Failure.ok
  BY DEF Failure
<1>3. QED
  BY <1>1, <1>2 DEF Threw, Data, GoodAnswer

\* The words of each request.
LEMMA WordIs ==
    /\ \A t : getAll(t)[1] = "getAll" /\ getAll(t)[2] = t
    /\ \A t, i : getById(t, i)[1] = "getById" /\ getById(t, i)[2] = t /\ getById(t, i)[3] = i
    /\ \A t, x : create(t, x)[1] = "create" /\ create(t, x)[2] = t /\ create(t, x)[3] = x
    /\ \A t, i, x : /\ update(t, i, x)[1] = "update" /\ update(t, i, x)[2] = t
                    /\ update(t, i, x)[3] = i /\ update(t, i, x)[4] = x
    /\ \A t, i : delete(t, i)[1] = "delete" /\ delete(t, i)[2] = t /\ delete(t, i)[3] = i
  BY DEF getAll, getById, create, update, delete

\* The handlers that fetch, and what they do then.
Thens == {"nothing", "save", "delete"}
LEMMA FetchesAre ==
    ASSUME NEW t \in PageTabs, NEW after \in Thens, NEW i \in Ids[t] \cup {None},
           NEW e, e = fetchList(t, after, i)
    PROVE  /\ \A d : GoodTask(d, e)
           /\ e.at = "list" /\ e.arg.tab = t /\ e.arg.then = after /\ e.arg.id = i
           /\ e.live /\ DOMAIN e.got = {} /\ e.sent = {getAll(t)}
<1>1. PICK arg, q, live : arg = [tab |-> t, then |-> after, id |-> i] /\ q = {getAll(t)} /\ live = TRUE
  OBVIOUS
<1>2. e = Handler("list", arg, q, live)
  BY <1>1 DEF fetchList, Task, Handler
<1>3. (\A d : Asks(d, "list", arg, q)) /\ live \in BOOLEAN
  BY <1>1 DEF Asks, Thens
<1>4. (\A d : GoodTask(d, e)) /\ e.at = "list" /\ e.arg = arg /\ e.live = live /\ DOMAIN e.got = {} /\ e.sent = q
  BY <1>2, <1>3, NewTask
<1>5. arg.tab = t /\ arg.then = after /\ arg.id = i
  BY <1>1
<1>6. QED
  BY <1>1, <1>2, <1>4, <1>5

LEMMA FetchDetailsIs ==
    ASSUME NEW t \in PageTabs, NEW after \in Thens \ {"delete"}, NEW i \in Ids[t],
           NEW e, e = fetchDetails(t, i, after)
    PROVE  /\ \A d : GoodTask(d, e)
           /\ e.at = "details" /\ e.arg.tab = t /\ e.arg.then = after /\ e.arg.id = i
           /\ e.live /\ DOMAIN e.got = {} /\ e.sent = {getById(t, i)}
<1>1. PICK arg, q, live : arg = [tab |-> t, then |-> after, id |-> i] /\ q = {getById(t, i)} /\ live = TRUE
  OBVIOUS
<1>2. e = Handler("details", arg, q, live)
  BY <1>1 DEF fetchDetails, Task, Handler
<1>3. (\A d : Asks(d, "details", arg, q)) /\ live \in BOOLEAN
  BY <1>1 DEF Asks, Thens
<1>4. (\A d : GoodTask(d, e)) /\ e.at = "details" /\ e.arg = arg /\ e.live = live /\ DOMAIN e.got = {} /\ e.sent = q
  BY <1>2, <1>3, NewTask
<1>5. arg.tab = t /\ arg.then = after /\ arg.id = i
  BY <1>1
<1>6. QED
  BY <1>1, <1>4, <1>5

LEMMA FetchAuthorizersIs ==
    /\ \A d : GoodTask(d, fetchAuthorizers)
    /\ fetchAuthorizers.at = "choices" /\ fetchAuthorizers.live
    /\ DOMAIN fetchAuthorizers.got = {} /\ fetchAuthorizers.sent = {getAll("authorizers")}
<1>1. PICK e, arg, q, live : /\ e = fetchAuthorizers /\ arg = <<>> /\ q = {getAll("authorizers")} /\ live = TRUE
  OBVIOUS
<1>2. e = Handler("choices", arg, q, live)
  BY <1>1 DEF fetchAuthorizers, Task, Handler
<1>3. (\A d : Asks(d, "choices", arg, q)) /\ live \in BOOLEAN
  BY <1>1 DEF Asks
<1>4. (\A d : GoodTask(d, e)) /\ e.at = "choices" /\ e.live = live /\ DOMAIN e.got = {} /\ e.sent = q
  BY <1>2, <1>3, NewTask
<1>5. QED
  BY <1>1, <1>4

\* The fetch of a tab that comes.
LEMMA FirstFetchIs ==
    ASSUME NEW t \in PageTabs, NEW e, e = fetchList(t, "nothing", None)
    PROVE  /\ \A d : GoodTask(d, e)
           /\ e.at = "list" /\ e.arg.tab = t /\ e.arg.then = "nothing"
           /\ e.live /\ DOMAIN e.got = {} /\ e.sent = {getAll(t)}
<1>1. PICK after, i : after = "nothing" /\ i = None
  OBVIOUS
<1>2. after \in Thens /\ i \in Ids[t] \cup {None} /\ e = fetchList(t, after, i)
  BY <1>1 DEF Thens
<1>3. QED
  BY <1>1, <1>2, FetchesAre

-----------------------------------------------------------------------------
(* Rendering.                                                              *)

\* A tab that goes takes its fetches with it, but the page waits for the authorizers.
LEMMA UnmountedIs ==
    ASSUME NEW ts, GoodTasks(db, ts), AllPlaced(ui, ts), NEW us, us = Unmounted(ts)
    PROVE  /\ GoodTasks(db, us)
           /\ \A k \in Slots : /\ ~us[k].live /\ (us[k].at # "idle" => Outlives(us[k]))
                               /\ ts[k].at = "idle" => us[k] = Idle
<1>1. ASSUME NEW k \in Slots
      PROVE  /\ GoodTask(db, us[k]) /\ ~us[k].live /\ (us[k].at # "idle" => Outlives(us[k]))
             /\ ts[k].at = "idle" => us[k] = Idle
  <2> DEFINE t == us[k]
             o == ts[k]
  <2>1. PICK goes \in BOOLEAN : goes = (o.at \in {"details", "choices"} \/ (o.at = "list" /\ o.arg.tab = "connections"))
    OBVIOUS
  <2>2. t = IF goes THEN Idle ELSE [o EXCEPT !.live = FALSE]
    BY <2>1 DEF Unmounted
  <2>3. GoodTask(db, o)
    BY DEF GoodTasks
  <2> HIDE DEF t, o
  <2>4. CASE goes
    BY <2>1, <2>2, <2>4, IdleIs DEF o, t
  <2>5. CASE o.at = "idle"
    <3>1. o = Idle /\ t = [o EXCEPT !.live = FALSE]
      BY <2>1, <2>2, <2>3, <2>5, IdleIs
    <3>2. t = Idle
      BY <3>1 DEF Idle
    <3>3. QED
      BY <3>2, IdleIs DEF t
  <2>6. CASE ~goes /\ o.at # "idle"
    <3>1. /\ o = [at |-> o.at, arg |-> o.arg, sent |-> o.sent, got |-> o.got, live |-> o.live]
          /\ o.sent \cap DOMAIN o.got = {} /\ o.at \in Places
          /\ Asks(db, o.at, o.arg, o.sent \cup DOMAIN o.got)
          /\ \A r \in DOMAIN o.got : GoodAnswer(db, r, o.got[r])
      BY <2>3, <2>6, BusyIs
    <3>2. /\ t = [at |-> t.at, arg |-> t.arg, sent |-> t.sent, got |-> t.got, live |-> t.live]
          /\ t.at = o.at /\ t.arg = o.arg /\ t.sent = o.sent /\ t.got = o.got /\ t.live = FALSE
      BY <2>2, <2>6, <3>1
    <3>3. GoodTask(db, t)
      BY <3>1, <3>2 DEF GoodTask
    <3>4. Outlives(t)
      <4>1. o.at = "list" => o.arg.tab \in PageTabs
        BY <3>1 DEF Asks
      <4>2. QED
        BY <2>1, <2>6, <3>1, <3>2, <4>1, TabsAre DEF Outlives, Places
    <3>5. QED
      BY <2>6, <3>2, <3>3, <3>4 DEF o, t
  <2>7. QED
    BY <2>4, <2>5, <2>6
<1>2. DOMAIN us = Slots
  BY DEF Unmounted
<1>3. QED
  BY <1>1, <1>2 DEF GoodTasks

\* The page s that is rendered with the search parameter u, whether it mounts another tab,
\* and whether its tab has a new selection.
Turned(s, u) == IF u \in {url, None} THEN s ELSE [s EXCEPT !.tab = u]
Moves(s) == Mounted(s) # Here
Selects(s) == s.view.id \notin {None, ui.view.id}

Shaped(v) == v = [list |-> v.list, choices |-> v.choices, id |-> v.id, selected |-> v.selected, loading |-> v.loading,
                  open |-> v.open, form |-> v.form, temp |-> v.temp, confirm |-> v.confirm]
LEMMA ShapeIs ==
    ASSUME NEW v
    PROVE  /\ \A t : v \in Views(t) <=>
                /\ Shaped(v) /\ v.list \in Partial(Ids[t], Texts) /\ v.choices \in SUBSET Authorizers
                /\ v.id \in Ids[t] \cup {None} /\ v.selected \in {None} \cup [id : Ids[t], text : Texts]
                /\ v.loading \in BOOLEAN /\ v.open \in BOOLEAN /\ v.form \in Texts \cup {Blank}
                /\ v.temp \in BOOLEAN /\ v.confirm \in Ids[t] \cup {None}
           /\ v = NoView => /\ Shaped(v) /\ v.list = <<>> /\ v.choices = {} /\ v.id = None /\ v.selected = None
                            /\ v.loading = FALSE /\ v.open = FALSE /\ v.form = Blank /\ v.temp = FALSE
                            /\ v.confirm = None
  BY DEF Views, Shaped, NoView

\* The view of a tab that comes.
NewView(t) == [NoView EXCEPT !.loading = t # None]

\* A page whose tab goes or comes: it starts anew, and what it does not take with it goes on.
Moved(s, u, t, us) ==
    /\ url' = u /\ Page(ui') /\ ui'.tab = s.tab /\ ui'.hasAuthorizers = s.hasAuthorizers
    /\ ui'.view = NewView(t)
    /\ DOMAIN tasks' = Slots
    /\ \E i, j \in Slots \cup {0} :
          /\ i = 0 <=> t = None
          /\ j = 0 <=> t # "connections"
          /\ i # 0 => i # j
          /\ \A k \in Slots : tasks'[k] = IF k = i THEN fetchList(t, "nothing", None)
                                          ELSE IF k = j THEN fetchAuthorizers ELSE us[k]
          /\ \A k \in Slots : k \in {i, j} => us[k].at = "idle"
LEMMA RenderMoves ==
    ASSUME NEW s0, NEW u, NEW ts, Render(s0, u, ts), NEW s, s = Turned(s0, u), Page(s), Moves(s),
           NEW t, t = Mounted(s), NEW us, us = Unmounted(ts)
    PROVE  Moved(s, u, t, us)
<1>1. /\ Len(Effects(s)) <= Cardinality(Free(us)) /\ url' = u /\ ui' = WithEffects(s)
      /\ tasks' = BeginAll(us, Effects(s))
  BY DEF Render, Turned, Moves
<1>2. PICK w : w = NewView(t)
  OBVIOUS
<1>3. ui' = [s EXCEPT !.view = w]
  BY <1>1, <1>2 DEF WithEffects, Moves, NewView
<1>4. Page(ui') /\ ui'.tab = s.tab /\ ui'.hasAuthorizers = s.hasAuthorizers /\ ui'.view = NewView(t)
  BY <1>2, <1>3 DEF Page
<1>5. t \in PageTabs \cup {None} /\ DOMAIN us = Slots
  BY TabsAre DEF Page, Unmounted
<1>6. 0 \notin Slots
  BY DEF Slots
<1>7. PICK L, C : L = fetchList(t, "nothing", None) /\ C = fetchAuthorizers
  OBVIOUS
<1>8. CASE t = None
  <2>1. Effects(s) = <<>>
    BY <1>8 DEF Effects
  <2>2. tasks' = us
    BY <1>1, <2>1 DEF BeginAll
  <2>3. QED
    BY <1>1, <1>4, <1>5, <1>6, <1>8, <2>2, TabsAre DEF Moved
<1>9. CASE t = "authorizers"
  <2>1. Effects(s) = <<L>>
    BY <1>7, <1>9, TabsAre DEF Effects, Moves
  <2>2. Len(<<L>>) = 1 /\ <<L>>[1] = L
    OBVIOUS
  <2>3. tasks' = Begin(us, L) /\ HasRoom(us)
    BY <1>1, <2>1, <2>2, RoomIs DEF BeginAll
  <2>4. PICK i \in Slots : /\ us[i].at = "idle" /\ DOMAIN Begin(us, L) = Slots
                           /\ \A k \in Slots : Begin(us, L)[k] = IF k = i THEN L ELSE us[k]
    BY <1>5, <2>3, BeginIs
  <2>5. t # None
    BY <1>9, TabsAre
  <2>6. \E a \in Slots \cup {0} :
           /\ a # 0
           /\ \A k \in Slots : tasks'[k] = IF k = a THEN L ELSE IF k = 0 THEN C ELSE us[k]
           /\ \A k \in Slots : k \in {a, 0} => us[k].at = "idle"
    BY <1>6, <2>3, <2>4
  <2>7. QED
    BY <1>1, <1>4, <1>7, <1>9, <2>3, <2>4, <2>5, <2>6 DEF Moved
<1>10. CASE t = "connections"
  <2>1. Effects(s) = <<L, C>>
    BY <1>7, <1>10, TabsAre DEF Effects, Moves
  <2>2. Len(<<L, C>>) = 2 /\ <<L, C>>[1] = L /\ <<L, C>>[2] = C
    OBVIOUS
  <2>3. tasks' = Begin(Begin(us, L), C) /\ 2 <= Cardinality(Free(us))
    BY <1>1, <2>1, <2>2 DEF BeginAll
  <2>4. L.at = "list"
    BY <1>7 DEF fetchList, Task
  <2>5. PICK i, j \in Slots : /\ i # j /\ us[i].at = "idle" /\ us[j].at = "idle"
                              /\ DOMAIN Begin(Begin(us, L), C) = Slots
                              /\ \A k \in Slots : Begin(Begin(us, L), C)[k] =
                                    IF k = i THEN L ELSE IF k = j THEN C ELSE us[k]
    BY <1>5, <2>3, <2>4, BeginTwo
  <2>6. t # None
    BY <1>10, TabsAre
  <2>7. \A k \in Slots : k \in {i, j} => us[k].at = "idle"
    BY <2>5
  <2>8. QED
    BY <1>1, <1>4, <1>6, <1>7, <1>10, <2>3, <2>5, <2>6, <2>7 DEF Moved
<1>11. QED
  BY <1>5, <1>8, <1>9, <1>10, TabsAre

\* What rendering makes of the view v of a tab that stays.
Refilled(v, w, loads) ==
    /\ Shaped(w) /\ w.list = v.list /\ w.choices = v.choices /\ w.id = v.id /\ w.selected = v.selected
    /\ w.loading = (v.loading \/ loads) /\ w.open = v.open /\ w.temp = v.temp /\ w.confirm = v.confirm
    /\ w.form = IF ~v.open THEN Blank ELSE IF ~ui.view.open \/ v.selected # None THEN Fill(v) ELSE v.form

\* A page whose tab stays, and fetches what is newly selected.
Stayed(s, u, ts) ==
    /\ url' = u /\ Page(ui') /\ ui'.tab = s.tab /\ ui'.hasAuthorizers = s.hasAuthorizers
    /\ Refilled(s.view, ui'.view, Selects(s))
    /\ DOMAIN tasks' = Slots
    /\ \E i \in Slots \cup {0} :
          /\ i = 0 <=> Here = None \/ ~Selects(s)
          /\ \A k \in Slots : tasks'[k] = IF k = i THEN fetchDetails(Here, s.view.id, "nothing") ELSE ts[k]
          /\ \A k \in Slots : k = i => ts[k].at = "idle"
LEMMA RenderStays ==
    ASSUME NEW s0, NEW u, NEW ts, Render(s0, u, ts), NEW s, s = Turned(s0, u), Page(s), ~Moves(s),
           DOMAIN ts = Slots, Shaped(s.view), s.view.id = None /\ ui.view.id # None => s.view.selected = None
    PROVE  Stayed(s, u, ts)
<1>1. /\ Len(Effects(s)) <= Cardinality(Free(ts)) /\ url' = u /\ ui' = WithEffects(s)
      /\ tasks' = BeginAll(ts, Effects(s))
  BY DEF Render, Turned, Moves
<1>2. PICK v, x, b : /\ v = s.view /\ b \in BOOLEAN
                     /\ x = IF s.view.id = None /\ ui.view.id # None THEN None ELSE s.view.selected
                     /\ b = (s.view.loading \/ s.view.id \notin {None, ui.view.id})
  OBVIOUS
<1>3. x = v.selected /\ b = (v.loading \/ Selects(s)) /\ Shaped(v)
  BY <1>2 DEF Selects
<1>4. PICK w : w = [v EXCEPT !.selected = x, !.loading = b]
  OBVIOUS
<1>5. ui' = [s EXCEPT !.view = FormFilled(w, ui.view)]
  BY <1>1, <1>2, <1>4 DEF WithEffects, Moves
<1>6. Page(ui') /\ ui'.tab = s.tab /\ ui'.hasAuthorizers = s.hasAuthorizers /\ ui'.view = FormFilled(w, ui.view)
  <2>1. PICK f : f = FormFilled(w, ui.view)
    OBVIOUS
  <2>2. ui' = [s EXCEPT !.view = f]
    BY <1>5, <2>1
  <2>3. QED
    BY <2>1, <2>2 DEF Page
<1>7. /\ w.list = v.list /\ w.choices = v.choices /\ w.id = v.id /\ w.selected = x /\ w.loading = b
      /\ w.open = v.open /\ w.form = v.form /\ w.temp = v.temp /\ w.confirm = v.confirm /\ Shaped(w)
  BY <1>3, <1>4 DEF Shaped
<1>8. PICK f : f = IF ~v.open THEN Blank ELSE IF ~ui.view.open \/ v.selected # None THEN Fill(v) ELSE v.form
  OBVIOUS
<1>9. FormFilled(w, ui.view) = [w EXCEPT !.form = f]
  <2>1. Fill(w) = Fill(v)
    BY <1>3, <1>7 DEF Fill
  <2>2. w = [w EXCEPT !.form = w.form]
    BY <1>7 DEF Shaped
  <2>3. CASE ~v.open
    BY <1>7, <1>8, <2>3 DEF FormFilled
  <2>4. CASE v.open /\ (~ui.view.open \/ v.selected # None)
    BY <1>3, <1>7, <1>8, <2>1, <2>4 DEF FormFilled
  <2>5. CASE v.open /\ ~(~ui.view.open \/ v.selected # None)
    BY <1>3, <1>7, <1>8, <2>2, <2>5 DEF FormFilled
  <2>6. QED
    BY <2>3, <2>4, <2>5
<1>10. PICK g : g = [w EXCEPT !.form = f]
  OBVIOUS
<1>11. Refilled(v, g, Selects(s))
  <2>1. /\ g.list = w.list /\ g.choices = w.choices /\ g.id = w.id /\ g.selected = w.selected /\ g.loading = w.loading
        /\ g.open = w.open /\ g.form = f /\ g.temp = w.temp /\ g.confirm = w.confirm /\ Shaped(g)
    BY <1>7, <1>10 DEF Shaped
  <2>2. QED
    BY <1>3, <1>7, <1>8, <2>1 DEF Refilled
<1>12. Refilled(s.view, ui'.view, Selects(s))
  BY <1>2, <1>6, <1>9, <1>10, <1>11
<1>13. 0 \notin Slots
  BY DEF Slots
<1>14. PICK D : D = fetchDetails(Here, s.view.id, "nothing")
  OBVIOUS
<1>15. CASE Here = None \/ ~Selects(s)
  <2>1. Effects(s) = <<>>
    BY <1>15 DEF Effects, Moves, Selects
  <2>2. tasks' = ts
    BY <1>1, <2>1 DEF BeginAll
  <2>3. QED
    BY <1>1, <1>6, <1>12, <1>13, <1>15, <2>2 DEF Stayed
<1>16. CASE Here # None /\ Selects(s)
  <2>1. Effects(s) = <<D>>
    BY <1>14, <1>16 DEF Effects, Moves, Selects
  <2>2. Len(<<D>>) = 1 /\ <<D>>[1] = D
    OBVIOUS
  <2>3. tasks' = Begin(ts, D) /\ HasRoom(ts)
    BY <1>1, <2>1, <2>2, RoomIs DEF BeginAll
  <2>4. PICK i \in Slots : /\ ts[i].at = "idle" /\ DOMAIN Begin(ts, D) = Slots
                           /\ \A k \in Slots : Begin(ts, D)[k] = IF k = i THEN D ELSE ts[k]
    BY <2>3, BeginIs
  <2>5. QED
    BY <1>1, <1>6, <1>12, <1>13, <1>14, <1>16, <2>3, <2>4 DEF Stayed
<1>17. QED
  BY <1>15, <1>16

\* What a handler or a click may make of the view, before it is rendered.
Viewed(v) ==
    /\ IF Here = None THEN v = NoView ELSE GoodView(db, Here, v)
    /\ v.id = None /\ ui.view.id # None => v.selected = None

\* The page keeps its shape when the tab is turned.
LEMMA TurnedIs ==
    ASSUME NEW s0, Page(s0), NEW u \in PageTabs \cup {None}, NEW s, s = Turned(s0, u)
    PROVE  /\ Page(s) /\ s.view = s0.view /\ s.hasAuthorizers = s0.hasAuthorizers
           /\ u \in {url, None} => s = s0
           /\ u \notin {url, None} => s.tab = u
  BY DEF Page, Turned

LEMMA ViewedIs ==
    ASSUME NEW v, Viewed(v)
    PROVE  Shaped(v) /\ v.loading \in BOOLEAN
<1>1. CASE Here = None
  BY <1>1, ShapeIs DEF Viewed
<1>2. CASE Here # None
  <2>1. v \in Views(Here)
    BY <1>2 DEF Viewed, GoodView
  <2>2. QED
    BY <2>1, ShapeIs
<1>3. QED
  BY <1>1, <1>2

\* What a tab that comes shows.
LEMMA NewViewIs ==
    ASSUME NEW t \in PageTabs \cup {None}, NEW w, w = NewView(t)
    PROVE  /\ w.list = <<>> /\ w.choices = {} /\ w.id = None /\ w.selected = None
           /\ w.loading = (t # None) /\ w.open = FALSE /\ w.form = Blank /\ w.temp = FALSE /\ w.confirm = None
           /\ IF t = None THEN w = NoView ELSE FormMeant(w) /\ \A d : GoodView(d, t, w)
<1>1. PICK b \in BOOLEAN : b = (t # None)
  OBVIOUS
<1>2. w = [list |-> <<>>, choices |-> {}, id |-> None, selected |-> None, loading |-> b,
           open |-> FALSE, form |-> Blank, temp |-> FALSE, confirm |-> None]
  BY <1>1 DEF NewView, NoView
<1>3. /\ w.list = <<>> /\ w.choices = {} /\ w.id = None /\ w.selected = None /\ w.loading = b /\ w.open = FALSE
      /\ w.form = Blank /\ w.temp = FALSE /\ w.confirm = None /\ Shaped(w)
  <2>1. /\ w.list = <<>> /\ w.choices = {} /\ w.id = None /\ w.selected = None /\ w.loading = b
        /\ w.open = FALSE /\ w.form = Blank /\ w.temp = FALSE /\ w.confirm = None
    BY <1>2
  <2>2. QED
    BY <1>2, <2>1 DEF Shaped
<1>4. CASE t = None
  BY <1>1, <1>2, <1>3, <1>4 DEF NoView
<1>5. CASE t # None
  <2>1. <<>> \in Partial(Ids[t], Texts)
    <3>1. <<>> \in [{} -> Texts] /\ {} \in SUBSET Ids[t]
      OBVIOUS
    <3>2. QED
      BY <3>1 DEF Partial
  <2>2. w \in Views(t)
    BY <1>3, <2>1, ShapeIs
  <2>3. FormMeant(w) /\ \A d : GoodView(d, t, w)
    BY <1>3, <2>2 DEF GoodView, FormMeant
  <2>4. QED
    BY <1>1, <1>3, <1>5, <2>3
<1>6. QED
  BY <1>4, <1>5

\* A view that is rendered keeps its shape, and its form says what the record is.
LEMMA RefilledIs ==
    ASSUME NEW v, Viewed(v), Here \in PageTabs \cup {None}, NEW loads \in BOOLEAN, NEW w, Refilled(v, w, loads),
           loads => Here # None
    PROVE  /\ IF Here = None THEN w = NoView ELSE GoodView(db, Here, w) /\ FormMeant(w)
           /\ w.open /\ w.selected # None => w.form = w.selected.text
<1>1. /\ Shaped(w) /\ w.list = v.list /\ w.choices = v.choices /\ w.id = v.id /\ w.selected = v.selected
      /\ w.loading = (v.loading \/ loads) /\ w.open = v.open /\ w.temp = v.temp /\ w.confirm = v.confirm
      /\ w.form = IF ~v.open THEN Blank ELSE IF ~ui.view.open \/ v.selected # None THEN Fill(v) ELSE v.form
  BY DEF Refilled
<1>2. w.open /\ w.selected # None => w.form = w.selected.text
  BY <1>1 DEF Fill
<1>3. CASE Here = None
  <2>1. v = NoView /\ ~loads
    BY <1>3 DEF Viewed
  <2>2. /\ w.list = <<>> /\ w.choices = {} /\ w.id = None /\ w.selected = None /\ w.loading = FALSE
        /\ w.open = FALSE /\ w.form = Blank /\ w.temp = FALSE /\ w.confirm = None
    BY <1>1, <2>1, ShapeIs
  <2>3. w = NoView
    BY <1>1, <2>2 DEF Shaped, NoView
  <2>4. QED
    BY <1>2, <1>3, <2>3
<1>4. CASE Here # None
  <2>1. GoodView(db, Here, v)
    BY <1>4 DEF Viewed
  <2>2. /\ v.list \in Partial(Ids[Here], Texts) /\ v.choices \in SUBSET Authorizers
        /\ v.id \in Ids[Here] \cup {None} /\ v.selected \in {None} \cup [id : Ids[Here], text : Texts]
        /\ v.loading \in BOOLEAN /\ v.open \in BOOLEAN /\ v.form \in Texts \cup {Blank}
        /\ v.temp \in BOOLEAN /\ v.confirm \in Ids[Here] \cup {None}
    BY <2>1, ShapeIs DEF GoodView
  <2>3. /\ v.temp => v.open
        /\ v.selected # None => Meant(db, Here, v.selected.id, v.selected.text)
        /\ Here = "authorizers" /\ ~Known(db) => v.form \in {Typed, Blank}
    BY <2>1 DEF GoodView
  <2>4. v.selected # None => v.selected.text \in Texts
    BY <2>2
  <2>5. w.form \in Texts \cup {Blank}
    BY <1>1, <2>2, <2>4 DEF Fill
  <2>6. Here = "authorizers" /\ ~Known(db) => w.form \in {Typed, Blank}
    BY <1>1, <2>3 DEF Fill, Meant
  <2>7. w \in Views(Here)
    BY <1>1, <2>2, <2>5, ShapeIs
  <2>8. GoodView(db, Here, w)
    BY <1>1, <2>3, <2>6, <2>7 DEF GoodView
  <2>9. FormMeant(w)
    BY <1>2 DEF FormMeant
  <2>10. QED
    BY <1>2, <1>4, <2>8, <2>9
<1>5. QED
  BY <1>3, <1>4

\* Rendering keeps the types.
LEMMA RenderTypes ==
    ASSUME TypeInv, NEW s0, NEW u \in PageTabs \cup {None}, NEW ts, Render(s0, u, ts), Page(s0), Viewed(s0.view),
           GoodTasks(db, ts), AllPlaced(ui, ts), db' = db, due' \in Nat
    PROVE  TypeInv'
<1>1. PICK s : s = Turned(s0, u)
  OBVIOUS
<1>2. Page(s) /\ s.view = s0.view
  BY <1>1, TurnedIs
<1>3. Page(ui) /\ Here \in PageTabs \cup {None} /\ GoodDb(db)
  BY TabsAre DEF TypeInv, GoodUi, Page, Here
<1>4. CASE Moves(s)
  <2>1. PICK t, us : t = Mounted(s) /\ us = Unmounted(ts)
    OBVIOUS
  <2>2. /\ url' = u /\ Page(ui') /\ ui'.tab = s.tab /\ ui'.hasAuthorizers = s.hasAuthorizers /\ DOMAIN tasks' = Slots
        /\ ui'.view = NewView(t)
        /\ \E i, j \in Slots \cup {0} :
              /\ i = 0 <=> t = None
              /\ j = 0 <=> t # "connections"
              /\ i # 0 => i # j
              /\ \A k \in Slots : tasks'[k] = IF k = i THEN fetchList(t, "nothing", None)
                                              ELSE IF k = j THEN fetchAuthorizers ELSE us[k]
    <3>1. Moved(s, u, t, us)
      BY <1>1, <1>2, <1>4, <2>1, RenderMoves
    <3>2. QED
      BY <3>1 DEF Moved
  <2>3. t \in PageTabs \cup {None} /\ Mounted(ui') = t
    BY <1>2, <2>1, <2>2, TabsAre DEF Page, Mounted
  <2>4. GoodUi(db, ui')
    <3>1. PICK w : w = ui'.view /\ w = NewView(t)
      BY <2>2
    <3>2. IF t = None THEN w = NoView ELSE GoodView(db, t, w) /\ FormMeant(w)
      BY <2>3, <3>1, NewViewIs
    <3>3. QED
      BY <2>2, <2>3, <3>1, <3>2 DEF GoodUi
  <2>5. ASSUME NEW k \in Slots PROVE GoodTask(db, tasks'[k]) /\ Placed(ui', tasks'[k])
    <3>1. PICK L, C : L = fetchList(t, "nothing", None) /\ C = fetchAuthorizers
      OBVIOUS
    <3>2. \/ t # None /\ tasks'[k] = L
          \/ t = "connections" /\ tasks'[k] = C
          \/ tasks'[k] = us[k]
      <4>1. PICK i, j \in Slots \cup {0} :
              /\ i = 0 <=> t = None
              /\ j = 0 <=> t # "connections"
              /\ i # 0 => i # j
              /\ \A m \in Slots : tasks'[m] = IF m = i THEN fetchList(t, "nothing", None)
                                              ELSE IF m = j THEN fetchAuthorizers ELSE us[m]
        BY <2>2
      <4>2. 0 \notin Slots
        BY DEF Slots
      <4>3. QED
        BY <3>1, <4>1, <4>2
    <3>3. t # None => GoodTask(db, L) /\ L.at = "list" /\ L.arg.tab = t
      BY <2>3, <3>1, FirstFetchIs
    <3>4. GoodTask(db, C) /\ C.at = "choices"
      BY <3>1, FetchAuthorizersIs
    <3>5. GoodTask(db, us[k]) /\ ~us[k].live /\ (us[k].at # "idle" => Outlives(us[k]))
      BY <2>1, UnmountedIs DEF GoodTasks
    <3>6. CASE t # None /\ tasks'[k] = L
      <4>1. L.live
        BY <2>3, <3>1, <3>6, FirstFetchIs
      <4>2. QED
        BY <2>3, <3>3, <3>6, <4>1 DEF Placed, TabOf
    <3>7. CASE t = "connections" /\ tasks'[k] = C
      BY <2>3, <3>1, <3>4, <3>7, FetchAuthorizersIs DEF Placed, TabOf
    <3>8. CASE tasks'[k] = us[k]
      BY <3>5, <3>8 DEF Placed
    <3>9. QED
      BY <3>2, <3>6, <3>7, <3>8
  <2>6. GoodTasks(db, tasks') /\ AllPlaced(ui', tasks')
    BY <2>2, <2>5 DEF GoodTasks, AllPlaced
  <2>7. QED
    BY <1>3, <2>2, <2>4, <2>6 DEF TypeInv
<1>5. CASE ~Moves(s)
  <2>1. Shaped(s.view) /\ DOMAIN ts = Slots
    BY <1>2, ViewedIs DEF GoodTasks
  <2>2. Stayed(s, u, ts)
    BY <1>1, <1>2, <1>5, <2>1, RenderStays DEF Viewed
  <2>3. Mounted(ui') = Here
    BY <1>5, <2>2 DEF Stayed, Moves, Mounted
  <2>4. PICK loads \in BOOLEAN : loads = Selects(s)
    BY DEF Selects
  <2>5. loads => Here # None
    BY <1>2, <2>4, ShapeIs DEF Viewed, Selects
  <2>6. Viewed(s.view) /\ Refilled(s.view, ui'.view, loads)
    BY <1>2, <2>2, <2>4 DEF Stayed
  <2>7. GoodUi(db, ui')
    BY <1>3, <2>2, <2>3, <2>5, <2>6, RefilledIs DEF Stayed, GoodUi
  <2>8. ASSUME NEW k \in Slots PROVE GoodTask(db, tasks'[k]) /\ Placed(ui', tasks'[k])
    <3>1. PICK D : D = fetchDetails(Here, s.view.id, "nothing")
      OBVIOUS
    <3>2. tasks'[k] = ts[k] \/ (tasks'[k] = D /\ Here # None /\ Selects(s))
      <4>1. 0 \notin Slots
        BY DEF Slots
      <4>2. QED
        BY <2>2, <3>1, <4>1 DEF Stayed
    <3>3. CASE tasks'[k] = ts[k]
      BY <2>3, <3>3 DEF GoodTasks, AllPlaced, Placed, Here
    <3>4. CASE tasks'[k] = D /\ Here # None /\ Selects(s)
      <4>1. s.view.id \in Ids[Here]
        BY <1>2, <3>4, ShapeIs DEF Viewed, GoodView, Selects
      <4>2. GoodTask(db, D) /\ D.at = "details" /\ D.arg.tab = Here /\ D.live
        BY <1>3, <3>1, <3>4, <4>1, FetchDetailsIs DEF Thens
      <4>3. QED
        BY <2>3, <3>4, <4>2 DEF Placed, TabOf
    <3>5. QED
      BY <3>2, <3>3, <3>4
  <2>9. GoodTasks(db, tasks') /\ AllPlaced(ui', tasks')
    BY <2>2, <2>8 DEF Stayed, GoodTasks, AllPlaced
  <2>10. QED
    BY <1>3, <2>2, <2>7, <2>9 DEF Stayed, TypeInv
<1>6. QED
  BY <1>4, <1>5

\* Spinners go on turning, and those of a fetch begin.
LEMMA RenderSpins ==
    ASSUME TypeInv, NEW s0, NEW u \in PageTabs \cup {None}, NEW ts, Render(s0, u, ts), Page(s0), Viewed(s0.view),
           GoodTasks(db, ts), AllPlaced(ui, ts), s0.view.loading => Turns(ts)
    PROVE  SpinInv'
<1>1. PICK s : s = Turned(s0, u)
  OBVIOUS
<1>2. Page(s) /\ s.view = s0.view
  BY <1>1, TurnedIs
<1>3. Here \in PageTabs \cup {None} /\ 0 \notin Slots
  BY TabsAre DEF TypeInv, GoodUi, Page, Here, Slots
<1>4. CASE Moves(s)
  <2>1. PICK t, us : t = Mounted(s) /\ us = Unmounted(ts)
    OBVIOUS
  <2>2. t \in PageTabs \cup {None}
    BY <1>2, <2>1, TabsAre DEF Page
  <2>3. /\ ui'.view = NewView(t)
        /\ \E i, j \in Slots \cup {0} :
              /\ i = 0 <=> t = None
              /\ \A k \in Slots : tasks'[k] = IF k = i THEN fetchList(t, "nothing", None)
                                              ELSE IF k = j THEN fetchAuthorizers ELSE us[k]
    <3>1. Moved(s, u, t, us)
      BY <1>1, <1>2, <1>4, <2>1, RenderMoves
    <3>2. QED
      BY <3>1 DEF Moved
  <2>4. t # None => \E i \in Slots : tasks'[i] = fetchList(t, "nothing", None)
    BY <1>3, <2>3
  <2>5. t # None => Turns(tasks')
    <3>1. ASSUME t # None, NEW e, e = fetchList(t, "nothing", None) PROVE e.at = "list" /\ e.live
      BY <2>2, <3>1, FirstFetchIs
    <3>2. QED
      BY <2>4, <3>1 DEF Turns
  <2>6. QED
    <3>1. PICK w : w = ui'.view /\ w = NewView(t)
      BY <2>3
    <3>2. w.loading = (t # None)
      BY <2>2, <3>1, NewViewIs
    <3>3. QED
      BY <2>5, <3>1, <3>2 DEF SpinInv
<1>5. CASE ~Moves(s)
  <2>1. Shaped(s.view) /\ DOMAIN ts = Slots
    BY <1>2, ViewedIs DEF GoodTasks
  <2>2. /\ Refilled(s.view, ui'.view, Selects(s))
        /\ \E i \in Slots \cup {0} :
              /\ i = 0 <=> Here = None \/ ~Selects(s)
              /\ \A k \in Slots : tasks'[k] = IF k = i THEN fetchDetails(Here, s.view.id, "nothing") ELSE ts[k]
              /\ \A k \in Slots : k = i => ts[k].at = "idle"
    <3>1. Stayed(s, u, ts)
      BY <1>1, <1>2, <1>5, <2>1, RenderStays DEF Viewed
    <3>2. QED
      BY <3>1 DEF Stayed
  <2>3. ASSUME Turns(ts) PROVE Turns(tasks')
    BY <2>2, <2>3 DEF Turns
  <2>4. ASSUME Selects(s) PROVE Turns(tasks')
    <3>1. Here # None
      BY <1>2, <2>4, ShapeIs DEF Viewed, Selects
    <3>2. PICK i \in Slots : tasks'[i] = fetchDetails(Here, s.view.id, "nothing")
      BY <1>3, <2>2, <2>4, <3>1
    <3>3. s.view.id \in Ids[Here]
      BY <1>2, <2>4, <3>1, ShapeIs DEF Viewed, GoodView, Selects
    <3>4. tasks'[i].at = "details" /\ tasks'[i].live
      BY <3>2 DEF fetchDetails, Task
    <3>5. QED
      BY <3>4 DEF Turns
  <2>5. ui'.view.loading => s0.view.loading \/ Selects(s)
    BY <1>2, <2>2 DEF Refilled
  <2>6. QED
    BY <2>3, <2>4, <2>5 DEF SpinInv
<1>6. QED
  BY <1>4, <1>5

\* What is settled does not depend on what is in the form.
Same(v, w) ==
    /\ w.list = v.list /\ w.id = v.id /\ w.selected = v.selected
    /\ w.loading = v.loading /\ w.open = v.open /\ w.confirm = v.confirm
LEMMA SettledSame ==
    ASSUME NEW d, NEW s, NEW ts, NEW n, Settled(d, s, ts, n), NEW s2, NEW ts2,
           s2.tab = s.tab, s2.hasAuthorizers = s.hasAuthorizers, Same(s.view, s2.view),
           \A k \in Slots : ts2[k] = ts[k]
    PROVE  Settled(d, s2, ts2, n)
<1>1. PICK v, w : v = s.view /\ w = s2.view
  OBVIOUS
<1>2. /\ Single(d, v, ts) /\ AnswersHold(d, ts) /\ GateHolds(d, s, ts) /\ Counted(d, v, ts, n)
      /\ Mounted(s) # None => ListHolds(d, Mounted(s), v, ts) /\ DetailsHold(d, Mounted(s), v, ts)
  BY <1>1 DEF Settled
<1>3. Same(v, w)
  BY <1>1
<1>4. Single(d, w, ts2) /\ AnswersHold(d, ts2)
  <2>1. ASSUME NEW k \in Slots, ts2[k].at # "idle" PROVE Relies(w, ts2[k])
    BY <1>2, <1>3, <2>1 DEF Single, Relies, Same
  <2>2. QED
    BY <1>2, <2>1 DEF Single, AnswersHold
<1>5. GateHolds(d, s2, ts2)
  BY <1>2 DEF GateHolds
<1>6. Counted(d, w, ts2, n)
  BY <1>2, <1>3 DEF Counted, NewForm, Same
<1>7. Mounted(s2) = Mounted(s)
  BY DEF Mounted
<1>8. ASSUME Mounted(s) # None PROVE ListHolds(d, Mounted(s), w, ts2) /\ DetailsHold(d, Mounted(s), w, ts2)
  <2>1. PICK t : t = Mounted(s)
    OBVIOUS
  <2>2. ListHolds(d, t, w, ts2)
    BY <1>2, <1>3, <1>8, <2>1 DEF ListHolds, Same
  <2>3. DetailsHold(d, t, w, ts2)
    BY <1>2, <1>3, <1>8, <2>1 DEF DetailsHold, Deleted, Same
  <2>4. QED
    BY <2>1, <2>2, <2>3
<1>9. QED
  BY <1>1, <1>4, <1>5, <1>6, <1>7, <1>8 DEF Settled

\* What a patient user may rely on before the page s is rendered with handlers ts, when n
\* records may have been created.
MoveReady(s, ts, n) ==
    /\ \A k \in Slots : ts[k].at = "idle"
    /\ s.tab = "connections" /\ s.hasAuthorizers => Any(db)
    /\ Cardinality(db.given) <= n
FetchReady(s, ts, n) ==
    /\ s.view.id \in DOMAIN db.records[Here] /\ s.view.confirm = None
    /\ \A k \in Slots : ts[k].at # "idle" => ts[k].at = "list" /\ Late(ts[k]) /\ ts[k].live
    /\ \A j, k \in Slots : ts[j].at # "idle" /\ ts[k].at # "idle" => j = k
    /\ AnswersHold(db, ts) /\ GateHolds(db, s, ts) /\ Counted(db, s.view, ts, n)
    /\ ListHolds(db, Here, s.view, ts)
Ready(s, ts, n) ==
    /\ Moves(s) => MoveReady(s, ts, n)
    /\ ~Moves(s) /\ Selects(s) => FetchReady(s, ts, n)
    /\ ~Moves(s) /\ ~Selects(s) => Settled(db, s, ts, n)

\* A tab that comes is calm.
LEMMA MoveCalm ==
    ASSUME NEW s, Page(s), NEW u, NEW ts, NEW n, GoodTasks(db, ts), AllPlaced(ui, ts), MoveReady(s, ts, n),
           NEW t, t = Mounted(s), NEW us, us = Unmounted(ts), Moved(s, u, t, us)
    PROVE  Settled(db, ui', tasks', n)
<1>1. PICK w, L, C : w = ui'.view /\ L = fetchList(t, "nothing", None) /\ C = fetchAuthorizers
  OBVIOUS
<1>2. t \in PageTabs \cup {None} /\ Mounted(ui') = t /\ "connections" # None /\ "connections" # "authorizers"
  <2>1. Mounted(ui') = t
    BY DEF Moved, Mounted
  <2>2. QED
    BY <2>1, TabsAre DEF Page
<1>3. /\ w.id = None /\ w.selected = None /\ w.open = FALSE /\ w.confirm = None
  <2>1. w = NewView(t)
    BY <1>1 DEF Moved
  <2>2. QED
    BY <1>2, <2>1, NewViewIs
<1>4. t # None => /\ L.at = "list" /\ L.arg.then = "nothing" /\ L.live /\ DOMAIN L.got = {} /\ L.sent = {getAll(t)}
  BY <1>1, <1>2, FirstFetchIs
<1>5. C.at = "choices" /\ C.live /\ DOMAIN C.got = {}
  BY <1>1, FetchAuthorizersIs
<1>6. \A k \in Slots : us[k] = Idle
  BY UnmountedIs DEF MoveReady
<1>7. Idle.at = "idle" /\ DOMAIN Idle.got = {}
  BY IdleIs
<1>8. PICK i, j \in Slots \cup {0} :
         /\ i = 0 <=> t = None
         /\ j = 0 <=> t # "connections"
         /\ i # 0 => i # j
         /\ \A k \in Slots : tasks'[k] = IF k = i THEN L ELSE IF k = j THEN C ELSE Idle
  BY <1>1, <1>6 DEF Moved
<1>9. 0 \notin Slots
  BY DEF Slots
<1>10. ASSUME NEW k \in Slots, tasks'[k].at # "idle"
       PROVE  \/ k = i /\ tasks'[k] = L /\ t # None
              \/ k = j /\ tasks'[k] = C
  BY <1>7, <1>8, <1>9, <1>10
<1>11. Single(db, w, tasks')
  <2>1. t # None => ~Late(L) /\ ~Deletes(L)
    BY <1>4 DEF Late, Deletes
  <2>2. t # None => Relies(w, L)
    BY <1>3, <1>4, <2>1 DEF Relies
  <2>3. Relies(w, C) /\ Late(C)
    BY <1>3, <1>5 DEF Relies, Late
  <2>4. t # None => Beside(db, L, C)
    BY <1>4, <1>5, <2>1, <2>3 DEF Beside
  <2>5. QED
    BY <1>10, <2>2, <2>3, <2>4 DEF Single
<1>12. \A k \in Slots : DOMAIN tasks'[k].got = {}
  BY <1>4, <1>5, <1>7, <1>8, <1>9
<1>13. AnswersHold(db, tasks')
  BY <1>12 DEF AnswersHold
<1>14. t # None => \E k \in Slots : tasks'[k].at = "list"
  BY <1>4, <1>8
<1>15. GateHolds(db, ui', tasks')
  <2>1. ui'.tab = s.tab /\ ui'.hasAuthorizers = s.hasAuthorizers
    BY DEF Moved
  <2>2. s.tab = "authorizers" => t # None
    BY <1>2, TabsAre DEF Mounted
  <2>3. QED
    BY <1>14, <2>1, <2>2 DEF GateHolds, MoveReady
<1>16. Counted(db, w, tasks', n)
  <2>1. \A k \in Slots : ~Creating(tasks'[k])
    BY <1>4, <1>5, <1>10 DEF Creating
  <2>2. QED
    BY <1>3, <2>1 DEF Counted, NewForm, MoveReady
<1>17. t # None => ListHolds(db, t, w, tasks') /\ DetailsHold(db, t, w, tasks')
  BY <1>3, <1>14 DEF ListHolds, DetailsHold
<1>18. QED
  BY <1>1, <1>2, <1>11, <1>13, <1>15, <1>16, <1>17 DEF Settled

\* A tab that fetches what is newly selected is calm.
LEMMA FetchCalm ==
    ASSUME TypeInv, NEW s, Page(s), NEW u, NEW ts, NEW n, FetchReady(s, ts, n), ~Moves(s), Selects(s), Here # None,
           Viewed(s.view), Stayed(s, u, ts)
    PROVE  Settled(db, ui', tasks', n)
<1>1. PICK v, w, D : v = s.view /\ w = ui'.view /\ D = fetchDetails(Here, s.view.id, "nothing")
  OBVIOUS
<1>2. Mounted(ui') = Here /\ Here \in PageTabs /\ ui'.tab = s.tab /\ ui'.hasAuthorizers = s.hasAuthorizers
  <2>1. ui'.tab = s.tab /\ ui'.hasAuthorizers = s.hasAuthorizers
    BY DEF Stayed
  <2>2. Mounted(ui') = Here
    BY <2>1 DEF Moves, Mounted
  <2>3. Here \in PageTabs
    BY <2>2, TabsAre DEF TypeInv, GoodUi, Page, Here
  <2>4. QED
    BY <2>1, <2>2, <2>3
<1>3. /\ w.list = v.list /\ w.id = v.id /\ w.selected = v.selected
      /\ w.loading /\ w.open = v.open /\ w.confirm = None
  BY <1>1 DEF Stayed, Refilled, FetchReady
<1>4. v.id \in Ids[Here] /\ v.id # None /\ v.id \in DOMAIN db.records[Here]
  BY <1>1, ShapeIs DEF Viewed, GoodView, Selects, FetchReady
<1>5. D.at = "details" /\ D.live /\ D.arg.id = v.id /\ D.arg.then = "nothing" /\ DOMAIN D.got = {}
  <2>1. PICK after : after = "nothing"
    OBVIOUS
  <2>2. after \in Thens \ {"delete"} /\ D = fetchDetails(Here, v.id, after)
    BY <1>1, <2>1 DEF Thens
  <2>3. D.at = "details" /\ D.live /\ D.arg.id = v.id /\ D.arg.then = after /\ DOMAIN D.got = {}
    BY <1>2, <1>4, <2>2, FetchDetailsIs
  <2>4. QED
    BY <2>1, <2>3
<1>6. PICK i \in Slots : /\ \A k \in Slots : tasks'[k] = IF k = i THEN D ELSE ts[k]
                         /\ ts[i].at = "idle"
  BY <1>1 DEF Stayed
<1>7. \A k \in Slots : ts[k].at # "idle" => k # i /\ tasks'[k] = ts[k]
  BY <1>6
<1>8. Single(db, w, tasks')
  <2>1. ~Late(D) /\ ~Deletes(D)
    BY <1>5 DEF Late, Deletes
  <2>2. Relies(w, D)
    BY <1>3, <1>5, <2>1 DEF Relies
  <2>3. ASSUME NEW k \in Slots, k # i, tasks'[k].at # "idle"
        PROVE  Relies(w, tasks'[k]) /\ Beside(db, D, tasks'[k])
    <3>1. tasks'[k] = ts[k] /\ ts[k].at = "list" /\ Late(ts[k]) /\ ts[k].live
      BY <1>6, <2>3 DEF FetchReady
    <3>2. ts[k].arg.then = "save" /\ ts[k].arg.id = None /\ ~Deletes(ts[k])
      BY <3>1 DEF Late, Deletes
    <3>3. Relies(w, tasks'[k])
      BY <1>3, <1>4, <3>1, <3>2 DEF Relies
    <3>4. Beside(db, D, tasks'[k])
      BY <1>5, <2>1, <3>1 DEF Beside
    <3>5. QED
      BY <3>3, <3>4
  <2>4. \A j, k \in Slots : j # i /\ k # i /\ tasks'[j].at # "idle" /\ tasks'[k].at # "idle" => j = k
    BY <1>6 DEF FetchReady
  <2>5. tasks'[i] = D
    BY <1>6
  <2>6. ASSUME NEW j \in Slots, NEW k \in Slots, j # k, tasks'[j].at # "idle", tasks'[k].at # "idle"
        PROVE  Beside(db, tasks'[j], tasks'[k]) \/ Beside(db, tasks'[k], tasks'[j])
    <3>1. j = i \/ k = i
      BY <2>4, <2>6
    <3>2. QED
      BY <2>3, <2>5, <2>6, <3>1
  <2>7. \A k \in Slots : tasks'[k].at # "idle" => Relies(w, tasks'[k])
    BY <2>2, <2>3, <2>5
  <2>8. QED
    BY <2>6, <2>7 DEF Single
<1>9. AnswersHold(db, tasks')
  BY <1>5, <1>6 DEF FetchReady, AnswersHold
<1>10. \A k \in Slots : Written(ts[k]) \/ Saves(ts[k]) \/ Creating(ts[k]) => tasks'[k] = ts[k]
  <2>1. \A k \in Slots : Written(ts[k]) \/ Saves(ts[k]) \/ Creating(ts[k]) => ts[k].at # "idle"
    BY DEF Written, Saves, Creating
  <2>2. QED
    BY <1>7, <2>1
<1>11. GateHolds(db, ui', tasks')
  <2>1. GateHolds(db, s, ts)
    BY DEF FetchReady
  <2>2. ASSUME \E k \in Slots : ts[k].at = "list" \/ Written(ts[k])
        PROVE  \E k \in Slots : tasks'[k].at = "list" \/ Written(tasks'[k])
    BY <1>7, <1>10, <2>2
  <2>3. QED
    BY <1>2, <2>1, <2>2 DEF GateHolds
<1>12. Counted(db, w, tasks', n)
  <2>1. Counted(db, v, ts, n)
    BY <1>1 DEF FetchReady
  <2>2. NewForm(w, tasks') => NewForm(v, ts)
    BY <1>3, <1>10 DEF NewForm
  <2>3. ~Creating(D)
    BY <1>5 DEF Creating
  <2>4. (\E k \in Slots : Creating(tasks'[k])) => \E k \in Slots : Creating(ts[k])
    BY <1>6, <2>3
  <2>5. QED
    BY <2>1, <2>2, <2>4 DEF Counted
<1>13. ListHolds(db, Here, w, tasks')
  <2>1. ListHolds(db, Here, v, ts)
    BY <1>1 DEF FetchReady
  <2>2. QED
    BY <1>3, <1>7, <1>10, <2>1 DEF ListHolds
<1>14. DetailsHold(db, Here, w, tasks')
  <2>1. Loads(tasks'[i])
    BY <1>5, <1>6 DEF Loads
  <2>2. QED
    BY <1>3, <1>4, <2>1 DEF DetailsHold
<1>15. QED
  BY <1>1, <1>2, <1>8, <1>9, <1>11, <1>12, <1>13, <1>14 DEF Settled

\* A step that renders the page keeps the invariant.
LEMMA RenderKeeps ==
    ASSUME PageInv, NEW s0, NEW u \in PageTabs \cup {None}, NEW ts, Render(s0, u, ts), Page(s0), Viewed(s0.view),
           GoodTasks(db, ts), AllPlaced(ui, ts), UNCHANGED <<db, failed>>, due' \in Nat,
           s0.view.loading => Turns(ts),
           NEW s, s = Turned(s0, u), ~hasty' /\ ~failed => Ready(s, ts, due')
    PROVE  PageInv'
<1>1. TypeInv /\ TypeInv' /\ SpinInv'
  BY RenderTypes, RenderSpins DEF PageInv
<1>2. Page(s) /\ s.view = s0.view /\ DOMAIN ts = Slots /\ Shaped(s.view)
  BY TurnedIs, ViewedIs DEF GoodTasks
<1>3. ASSUME ~hasty', ~failed' PROVE Settled(db, ui', tasks', due') /\ Unedited(ui'.view, tasks')
  <2>1. Ready(s, ts, due')
    BY <1>3
  <2>2. CASE Moves(s)
    <3>1. PICK t, us : t = Mounted(s) /\ us = Unmounted(ts)
      OBVIOUS
    <3>2. Moved(s, u, t, us)
      BY <1>2, <2>2, <3>1, RenderMoves
    <3>3. Settled(db, ui', tasks', due')
      BY <1>2, <2>1, <2>2, <3>1, <3>2, MoveCalm DEF Ready
    <3>4. t \in PageTabs \cup {None}
      BY <1>2, <3>1, TabsAre DEF Page
    <3>5. ui'.view.open = FALSE
      BY <3>2, <3>4, NewViewIs DEF Moved
    <3>6. QED
      BY <3>3, <3>5 DEF Unedited
  <2>3. CASE ~Moves(s)
    <3>1. Stayed(s, u, ts)
      BY <1>2, <2>3, RenderStays DEF Viewed
    <3>2. PICK loads \in BOOLEAN : loads = Selects(s)
      BY DEF Selects
    <3>3. loads => Here # None
      BY <1>2, <3>2, ShapeIs DEF Viewed, Selects
    <3>4. Here \in PageTabs \cup {None}
      BY <1>1, TabsAre DEF TypeInv, GoodUi, Page, Here
    <3>5. PICK v, w : v = s.view /\ w = ui'.view
      OBVIOUS
    <3>6. Refilled(v, w, loads) /\ Viewed(v)
      BY <1>2, <3>1, <3>2, <3>5 DEF Stayed
    <3>7. w.open /\ w.selected # None => w.form = w.selected.text
      BY <3>3, <3>4, <3>6, RefilledIs
    <3>8. Unedited(w, tasks')
      BY <3>7 DEF Unedited
    <3>9. CASE Selects(s)
      BY <1>1, <1>2, <2>1, <2>3, <3>1, <3>2, <3>3, <3>5, <3>8, <3>9, FetchCalm DEF Ready
    <3>10. CASE ~Selects(s)
      <4>1. Settled(db, s, ts, due')
        BY <2>1, <2>3, <3>10 DEF Ready
      <4>2. \A k \in Slots : tasks'[k] = ts[k]
        <5>1. 0 \notin Slots
          BY DEF Slots
        <5>2. QED
          BY <3>1, <3>10, <5>1 DEF Stayed
      <4>3. v.loading \in BOOLEAN /\ Same(v, w)
        BY <3>2, <3>6, <3>10, ViewedIs DEF Refilled, Same
      <4>4. ui'.tab = s.tab /\ ui'.hasAuthorizers = s.hasAuthorizers
        BY <3>1 DEF Stayed
      <4>5. Settled(db, ui', tasks', due')
        BY <3>5, <4>1, <4>2, <4>3, <4>4, SettledSame
      <4>6. QED
        BY <3>5, <3>8, <4>5
    <3>11. QED
      BY <3>9, <3>10
  <2>4. QED
    BY <2>2, <2>3
<1>4. CalmInv'
  BY <1>3 DEF CalmInv
<1>5. QED
  BY <1>1, <1>4 DEF PageInv


-----------------------------------------------------------------------------
(* Clicks.                                                                 *)

\* What is on the screen.
LEMMA ScreenIs ==
    ASSUME TypeInv
    PROVE  /\ Page(ui) /\ Here \in PageTabs \cup {None} /\ Viewed(ui.view) /\ Turned(ui, url) = ui
           /\ Here # None => Here = ui.tab /\ Here \in PageTabs /\ GoodView(db, Here, ui.view) /\ FormMeant(ui.view)
           /\ Here = None => ui.view = NoView
           /\ GoodDb(db) /\ url \in PageTabs \cup {None} /\ due \in Nat
           /\ GoodTasks(db, tasks) /\ AllPlaced(ui, tasks)
<1>1. Page(ui) /\ Here \in PageTabs \cup {None}
  BY TabsAre DEF TypeInv, GoodUi, Page, Here
<1>2. Here # None => Here = ui.tab /\ Here \in PageTabs
  BY <1>1, TabsAre DEF Page, Here
<1>3. IF Here = None THEN ui.view = NoView ELSE GoodView(db, Here, ui.view) /\ FormMeant(ui.view)
  BY DEF TypeInv, GoodUi, Here
<1>4. Turned(ui, url) = ui
  BY DEF Turned
<1>5. QED
  BY <1>1, <1>2, <1>3, <1>4 DEF TypeInv, Viewed

\* The page with another view of its tab.
LEMMA WithView ==
    ASSUME Page(ui), NEW w, NEW s, s = [ui EXCEPT !.view = w]
    PROVE  /\ Page(s) /\ s.tab = ui.tab /\ s.hasAuthorizers = ui.hasAuthorizers /\ s.view = w
           /\ Mounted(s) = Here /\ ~Moves(s) /\ Turned(s, url) = s
<1>1. Page(s) /\ s.tab = ui.tab /\ s.hasAuthorizers = ui.hasAuthorizers /\ s.view = w
  BY DEF Page
<1>2. QED
  BY <1>1 DEF Mounted, Here, Moves, Turned

\* No handler runs.
AllIdle(ts) == \A k \in Slots : ts[k].at = "idle"
LEMMA IdleTasks ==
    ASSUME NEW d, NEW ts, GoodTasks(d, ts), AllIdle(ts)
    PROVE  \A k \in Slots : ts[k].at = "idle" /\ ts[k].sent = {} /\ DOMAIN ts[k].got = {} /\ ~ts[k].live
  BY IdleIs DEF GoodTasks, AllIdle

\* What is settled when none does.
Quiet(d, s, n) ==
    /\ s.tab = "connections" /\ s.hasAuthorizers => Any(d)
    /\ s.tab = "authorizers" => s.hasAuthorizers = Any(d)
    /\ Cardinality(d.given) <= n
    /\ s.view.open /\ s.view.selected = None => Cardinality(d.given) + 1 <= n
    /\ Mounted(s) # None =>
          /\ s.view.list = d.records[Mounted(s)]
          /\ IF s.view.id = None THEN s.view.selected = None
             ELSE /\ s.view.id \in DOMAIN d.records[Mounted(s)]
                  /\ s.view.selected = Found(d.records[Mounted(s)], s.view.id)
          /\ s.view.open /\ s.view.selected = None /\ s.view.id # None => s.view.loading
          /\ s.view.confirm # None => ~s.view.open /\ s.view.confirm = s.view.id
LEMMA QuietIs ==
    ASSUME NEW d, NEW s, NEW ts, NEW n, GoodTasks(d, ts), AllIdle(ts)
    PROVE  Settled(d, s, ts, n) <=> Quiet(d, s, n)
<1>1. \A k \in Slots : ts[k].at = "idle" /\ ts[k].sent = {} /\ DOMAIN ts[k].got = {} /\ ~ts[k].live
  BY IdleTasks
<1>2. \A k \in Slots : /\ ~Written(ts[k]) /\ ~Loads(ts[k]) /\ ~Creating(ts[k]) /\ ~Saves(ts[k])
                       /\ ts[k].at # "list"
  BY <1>1 DEF Written, Loads, Creating, Saves
<1>3. Single(d, s.view, ts) /\ AnswersHold(d, ts)
  BY <1>1 DEF Single, AnswersHold
<1>4. GateHolds(d, s, ts) <=> /\ s.tab = "connections" /\ s.hasAuthorizers => Any(d)
                              /\ s.tab = "authorizers" => s.hasAuthorizers = Any(d)
  BY <1>2 DEF GateHolds
<1>5. Counted(d, s.view, ts, n) <=> /\ Cardinality(d.given) <= n
                                    /\ s.view.open /\ s.view.selected = None => Cardinality(d.given) + 1 <= n
  BY <1>2 DEF Counted, NewForm
<1>6. \A t : ListHolds(d, t, s.view, ts) <=> s.view.list = d.records[t]
  BY <1>2 DEF ListHolds
<1>7. ~Deleted(ts)
  BY <1>1 DEF Deleted
<1>8. ASSUME NEW t
      PROVE  DetailsHold(d, t, s.view, ts) <=>
                /\ IF s.view.id = None THEN s.view.selected = None
                   ELSE s.view.id \in DOMAIN d.records[t] /\ s.view.selected = Found(d.records[t], s.view.id)
                /\ s.view.open /\ s.view.selected = None /\ s.view.id # None => s.view.loading
                /\ s.view.confirm # None => ~s.view.open /\ s.view.confirm = s.view.id
  BY <1>2, <1>7 DEF DetailsHold
<1>9. QED
  BY <1>3, <1>4, <1>5, <1>6, <1>8 DEF Settled, Quiet

\* A user who waits clicks when no handler runs.
LEMMA PatientClick ==
    ASSUME PageInv, hasty' = (hasty \/ Busy), ~hasty', ~failed
    PROVE  AllIdle(tasks) /\ Quiet(db, ui, due)
<1>1. AllIdle(tasks) /\ ~hasty
  BY DEF Busy, Running, AllIdle
<1>2. Settled(db, ui, tasks, due) /\ GoodTasks(db, tasks)
  BY <1>1, ScreenIs DEF PageInv, CalmInv
<1>3. QED
  BY <1>1, <1>2, QuietIs

\* A click in the tab that makes its view w.
LEMMA ClickKeeps ==
    ASSUME PageInv, OnTab, NEW w, Shows(w), GoodView(db, Here, w), w.loading = ui.view.loading, due' \in Nat,
           w.id = None /\ ui.view.id # None => w.selected = None,
           NEW s, s = [ui EXCEPT !.view = w],
           AllIdle(tasks) /\ Quiet(db, ui, due) => IF Selects(s) THEN FetchReady(s, tasks, due') ELSE Quiet(db, s, due')
    PROVE  PageInv'
<1>1. /\ Page(ui) /\ Turned(ui, url) = ui /\ GoodTasks(db, tasks) /\ AllPlaced(ui, tasks) /\ url \in PageTabs \cup {None}
      /\ SpinInv
  BY ScreenIs DEF PageInv
<1>2. Page(s) /\ s.view = w /\ ~Moves(s) /\ s = Turned(s, url)
  BY <1>1, WithView
<1>3. Render(s, url, tasks) /\ UNCHANGED <<db, failed>> /\ hasty' = (hasty \/ Busy) /\ Here # None
  BY DEF Shows, OnTab, Click
<1>4. Viewed(s.view)
  BY <1>2, <1>3 DEF Viewed
<1>5. ASSUME ~hasty', ~failed PROVE Ready(s, tasks, due')
  <2>1. AllIdle(tasks) /\ Quiet(db, ui, due)
    BY <1>3, <1>5, PatientClick
  <2>2. ~Selects(s) => Settled(db, s, tasks, due')
    BY <1>1, <2>1, QuietIs
  <2>3. QED
    BY <1>2, <2>1, <2>2 DEF Ready
<1>6. s.view.loading => Turns(tasks)
  BY <1>1, <1>2 DEF SpinInv
<1>7. QED
  BY <1>1, <1>2, <1>3, <1>4, <1>5, <1>6, RenderKeeps

\* The fields of a good view.
LEMMA FieldsAre ==
    ASSUME NEW d, NEW t, NEW v
    PROVE  GoodView(d, t, v) <=>
              /\ Shaped(v) /\ v.list \in Partial(Ids[t], Texts) /\ v.choices \in SUBSET Authorizers
              /\ v.id \in Ids[t] \cup {None} /\ v.selected \in {None} \cup [id : Ids[t], text : Texts]
              /\ v.loading \in BOOLEAN /\ v.open \in BOOLEAN /\ v.form \in Texts \cup {Blank}
              /\ v.temp \in BOOLEAN /\ v.confirm \in Ids[t] \cup {None}
              /\ v.temp => v.open
              /\ v.selected # None => Meant(d, t, v.selected.id, v.selected.text)
              /\ t = "authorizers" /\ ~Known(d) => v.form \in {Typed, Blank}
  BY ShapeIs DEF GoodView

LEMMA SelectKeeps ==
    ASSUME PageInv, NEW id, handleSelect(id)
    PROVE  PageInv'
<1>1. OnTab /\ Here # None /\ ui.view.confirm = None /\ due' = due
  BY DEF handleSelect, OnTab, Click, View
<1>2. PICK v : v = ui.view
  OBVIOUS
<1>3. PICK w : w = [v EXCEPT !.id = id]
  OBVIOUS
<1>4. Shows(w) /\ id \in DOMAIN v.list /\ id # v.id
  BY <1>2, <1>3 DEF handleSelect, View
<1>5. GoodView(db, Here, v) /\ due \in Nat /\ Page(ui) /\ Here \in PageTabs /\ GoodTasks(db, tasks)
  BY <1>1, <1>2, ScreenIs DEF PageInv
<1>6. id \in Ids[Here] /\ id # None
  BY <1>4, <1>5, FieldsAre, PartialIs, TabsAre
<1>7. /\ w.list = v.list /\ w.choices = v.choices /\ w.id = id /\ w.selected = v.selected /\ w.loading = v.loading
      /\ w.open = v.open /\ w.form = v.form /\ w.temp = v.temp /\ w.confirm = v.confirm /\ Shaped(w)
  BY <1>3, <1>5, FieldsAre DEF Shaped
<1>8. GoodView(db, Here, w)
  BY <1>5, <1>6, <1>7, FieldsAre
<1>9. PICK s : s = [ui EXCEPT !.view = w]
  OBVIOUS
<1>10. s.view = w /\ Mounted(s) = Here /\ s.tab = ui.tab /\ s.hasAuthorizers = ui.hasAuthorizers
  BY <1>5, <1>9, WithView
<1>11. Selects(s)
  BY <1>2, <1>4, <1>6, <1>7, <1>10 DEF Selects
<1>12. ASSUME AllIdle(tasks), Quiet(db, ui, due) PROVE FetchReady(s, tasks, due')
  <2>1. v.list = db.records[Here]
    BY <1>1, <1>2, <1>12 DEF Quiet, Here
  <2>2. \A k \in Slots : tasks[k].at = "idle" /\ tasks[k].sent = {} /\ DOMAIN tasks[k].got = {}
    BY <1>5, <1>12, IdleTasks
  <2>3. \A k \in Slots : ~Saves(tasks[k]) /\ ~Creating(tasks[k])
    BY <2>2 DEF Saves, Creating
  <2>4. AnswersHold(db, tasks)
    BY <2>2 DEF AnswersHold
  <2>5. GateHolds(db, s, tasks)
    BY <1>10, <1>12 DEF GateHolds, Quiet
  <2>6. Counted(db, w, tasks, due')
    BY <1>1, <1>2, <1>7, <1>12, <2>3 DEF Counted, NewForm, Quiet
  <2>7. ListHolds(db, Here, w, tasks)
    BY <1>7, <2>1 DEF ListHolds
  <2>8. QED
    BY <1>1, <1>2, <1>4, <1>7, <1>10, <2>1, <2>2, <2>4, <2>5, <2>6, <2>7 DEF FetchReady
<1>13. QED
  BY <1>1, <1>2, <1>4, <1>5, <1>6, <1>7, <1>8, <1>9, <1>11, <1>12, ClickKeeps

\* A click that opens or closes something.
LEMMA AddKeeps ==
    ASSUME PageInv, handleAdd
    PROVE  PageInv'
<1>1. OnTab /\ Here # None /\ due' = due + 1
  BY DEF handleAdd, OnTab, Click, View
<1>2. PICK v : v = ui.view
  OBVIOUS
<1>3. PICK w : w = [v EXCEPT !.id = None, !.selected = None, !.open = TRUE, !.temp = TRUE]
  OBVIOUS
<1>4. Shows(w)
  BY <1>2, <1>3 DEF handleAdd, View
<1>5. GoodView(db, Here, v) /\ due \in Nat /\ Page(ui) /\ Here \in PageTabs /\ IsFiniteSet(db.given)
  BY <1>1, <1>2, ScreenIs DEF PageInv, GoodDb
<1>6. /\ w.list = v.list /\ w.choices = v.choices /\ w.id = None /\ w.selected = None /\ w.loading = v.loading
      /\ w.open = TRUE /\ w.form = v.form /\ w.temp = TRUE /\ w.confirm = v.confirm /\ Shaped(w)
  BY <1>3, <1>5, FieldsAre DEF Shaped
<1>7. GoodView(db, Here, w)
  BY <1>5, <1>6, FieldsAre
<1>8. PICK s : s = [ui EXCEPT !.view = w]
  OBVIOUS
<1>9. s.view = w /\ Mounted(s) = Here /\ s.tab = ui.tab /\ s.hasAuthorizers = ui.hasAuthorizers
  BY <1>5, <1>8, WithView
<1>10. ~Selects(s)
  BY <1>6, <1>9 DEF Selects
<1>11. ASSUME AllIdle(tasks), Quiet(db, ui, due) PROVE Quiet(db, s, due')
  <2>1. ui.view.confirm = None /\ Cardinality(db.given) \in Nat
    BY <1>5, FS_CardinalityType DEF handleAdd, OnTab, Click, View
  <2>2. Cardinality(db.given) <= due' /\ Cardinality(db.given) + 1 <= due'
    BY <1>1, <1>5, <1>11, <2>1 DEF Quiet
  <2>3. v.list = db.records[Here]
    BY <1>1, <1>2, <1>11 DEF Quiet, Here
  <2>4. QED
    BY <1>2, <1>6, <1>9, <1>11, <2>1, <2>2, <2>3 DEF Quiet
<1>12. due' \in Nat
  BY <1>1, <1>5
<1>13. QED
  BY <1>1, <1>2, <1>4, <1>6, <1>7, <1>8, <1>10, <1>11, <1>12, ClickKeeps

LEMMA EditKeeps ==
    ASSUME PageInv, handleEdit
    PROVE  PageInv'
<1>1. OnTab /\ Here # None /\ due' = due /\ ui.view.confirm = None /\ ui.view.selected # None
  BY DEF handleEdit, OnTab, Click, View
<1>2. PICK v : v = ui.view
  OBVIOUS
<1>3. PICK w : w = [v EXCEPT !.open = TRUE]
  OBVIOUS
<1>4. Shows(w)
  BY <1>2, <1>3 DEF handleEdit, View
<1>5. GoodView(db, Here, v) /\ due \in Nat /\ Page(ui)
  BY <1>1, <1>2, ScreenIs DEF PageInv
<1>6. /\ w.list = v.list /\ w.choices = v.choices /\ w.id = v.id /\ w.selected = v.selected /\ w.loading = v.loading
      /\ w.open = TRUE /\ w.form = v.form /\ w.temp = v.temp /\ w.confirm = v.confirm /\ Shaped(w)
  BY <1>3, <1>5, FieldsAre DEF Shaped
<1>7. GoodView(db, Here, w)
  BY <1>5, <1>6, FieldsAre
<1>8. PICK s : s = [ui EXCEPT !.view = w]
  OBVIOUS
<1>9. s.view = w /\ Mounted(s) = Here /\ s.tab = ui.tab /\ s.hasAuthorizers = ui.hasAuthorizers
  BY <1>5, <1>8, WithView
<1>10. ~Selects(s)
  BY <1>2, <1>6, <1>9 DEF Selects
<1>11. ASSUME AllIdle(tasks), Quiet(db, ui, due) PROVE Quiet(db, s, due')
  BY <1>1, <1>2, <1>6, <1>9, <1>11 DEF Quiet, Here
<1>12. QED
  BY <1>1, <1>2, <1>4, <1>5, <1>6, <1>7, <1>8, <1>10, <1>11, ClickKeeps

LEMMA CloseFormKeeps ==
    ASSUME PageInv, handleCloseForm
    PROVE  PageInv'
<1>1. OnTab /\ Here # None /\ due' = due /\ ui.view.confirm = None
  BY DEF handleCloseForm, OnTab, Click, View
<1>2. PICK v : v = ui.view
  OBVIOUS
<1>3. PICK w : w = [v EXCEPT !.open = FALSE, !.temp = FALSE]
  OBVIOUS
<1>4. Shows(w)
  BY <1>2, <1>3 DEF handleCloseForm, View, Closed
<1>5. GoodView(db, Here, v) /\ due \in Nat /\ Page(ui)
  BY <1>1, <1>2, ScreenIs DEF PageInv
<1>6. /\ w.list = v.list /\ w.choices = v.choices /\ w.id = v.id /\ w.selected = v.selected /\ w.loading = v.loading
      /\ w.open = FALSE /\ w.form = v.form /\ w.temp = FALSE /\ w.confirm = v.confirm /\ Shaped(w)
  BY <1>3, <1>5, FieldsAre DEF Shaped
<1>7. GoodView(db, Here, w)
  BY <1>5, <1>6, FieldsAre
<1>8. PICK s : s = [ui EXCEPT !.view = w]
  OBVIOUS
<1>9. s.view = w /\ Mounted(s) = Here /\ s.tab = ui.tab /\ s.hasAuthorizers = ui.hasAuthorizers
  BY <1>5, <1>8, WithView
<1>10. ~Selects(s)
  BY <1>2, <1>6, <1>9 DEF Selects
<1>11. ASSUME AllIdle(tasks), Quiet(db, ui, due) PROVE Quiet(db, s, due')
  BY <1>1, <1>2, <1>6, <1>9, <1>11 DEF Quiet, Here
<1>12. QED
  BY <1>1, <1>2, <1>4, <1>5, <1>6, <1>7, <1>8, <1>10, <1>11, ClickKeeps

LEMMA ShowDeleteKeeps ==
    ASSUME PageInv, showDeleteConfirmation
    PROVE  PageInv'
<1>1. OnTab /\ Here # None /\ due' = due /\ ui.view.confirm = None /\ ui.view.selected # None /\ ~ui.view.open
  BY DEF showDeleteConfirmation, OnTab, Click, View
<1>2. PICK v, i : v = ui.view /\ i = v.selected.id
  OBVIOUS
<1>3. PICK w : w = [v EXCEPT !.confirm = i]
  OBVIOUS
<1>4. Shows(w)
  BY <1>2, <1>3 DEF showDeleteConfirmation, View
<1>5. GoodView(db, Here, v) /\ due \in Nat /\ Page(ui)
  BY <1>1, <1>2, ScreenIs DEF PageInv
<1>6. /\ w.list = v.list /\ w.choices = v.choices /\ w.id = v.id /\ w.selected = v.selected /\ w.loading = v.loading
      /\ w.open = v.open /\ w.form = v.form /\ w.temp = v.temp /\ w.confirm = i /\ Shaped(w)
  BY <1>3, <1>5, FieldsAre DEF Shaped
<1>7. i \in Ids[Here]
  BY <1>1, <1>2, <1>5, FieldsAre
<1>8. GoodView(db, Here, w)
  BY <1>5, <1>6, <1>7, FieldsAre
<1>9. PICK s : s = [ui EXCEPT !.view = w]
  OBVIOUS
<1>10. s.view = w /\ Mounted(s) = Here /\ s.tab = ui.tab /\ s.hasAuthorizers = ui.hasAuthorizers
  BY <1>5, <1>9, WithView
<1>11. ~Selects(s)
  BY <1>2, <1>6, <1>10 DEF Selects
<1>12. ASSUME AllIdle(tasks), Quiet(db, ui, due) PROVE Quiet(db, s, due')
  <2>1. v.id # None /\ v.selected = Found(db.records[Here], v.id)
    BY <1>1, <1>2, <1>12 DEF Quiet, Here
  <2>2. i = v.id
    BY <1>2, <2>1 DEF Found
  <2>3. QED
    BY <1>1, <1>2, <1>6, <1>10, <1>12, <2>2 DEF Quiet, Here
<1>13. QED
  BY <1>1, <1>2, <1>4, <1>5, <1>6, <1>8, <1>9, <1>11, <1>12, ClickKeeps

\* Typing renders no other view.
LEMMA TypeTextKeeps ==
    ASSUME PageInv, TypeText
    PROVE  PageInv'
<1>1. /\ OnTab /\ Here # None /\ UNCHANGED <<db, url, tasks, due, failed>> /\ ui.view.open
      /\ hasty' = (hasty \/ Busy) /\ ui' = [ui EXCEPT !.view.form = Typed]
  BY DEF TypeText, OnTab, Click, View
<1>2. PICK v : v = ui.view
  OBVIOUS
<1>3. PICK w : w = [v EXCEPT !.form = Typed]
  OBVIOUS
<1>4. ui' = [ui EXCEPT !.view = w]
  BY <1>1, <1>2, <1>3
<1>5. TypeInv /\ Page(ui) /\ GoodView(db, Here, v) /\ FormMeant(v)
  BY <1>1, <1>2, ScreenIs DEF PageInv
<1>6. /\ w.list = v.list /\ w.choices = v.choices /\ w.id = v.id /\ w.selected = v.selected /\ w.loading = v.loading
      /\ w.open = v.open /\ w.form = Typed /\ w.temp = v.temp /\ w.confirm = v.confirm /\ Shaped(w)
  BY <1>3, <1>5, FieldsAre DEF Shaped
<1>7. GoodView(db, Here, w) /\ FormMeant(w)
  <2>1. Typed \in Texts
    BY DEF Texts
  <2>2. QED
    BY <1>5, <1>6, <2>1, FieldsAre DEF FormMeant
<1>8. PICK s : s = ui'
  OBVIOUS
<1>9. Page(s) /\ s.view = w /\ Mounted(s) = Here /\ s.tab = ui.tab /\ s.hasAuthorizers = ui.hasAuthorizers
  BY <1>4, <1>5, <1>8, WithView
<1>10. TypeInv'
  <2>1. GoodUi(db, s)
    BY <1>1, <1>7, <1>9 DEF GoodUi
  <2>2. AllPlaced(s, tasks)
    BY <1>5, <1>9 DEF TypeInv, AllPlaced, Placed, Here
  <2>3. QED
    BY <1>1, <1>5, <1>8, <2>1, <2>2 DEF TypeInv
<1>11. SpinInv'
  BY <1>1, <1>2, <1>6, <1>8, <1>9 DEF PageInv, SpinInv
<1>12. ASSUME ~hasty', ~failed' PROVE Settled(db, s, tasks, due) /\ Unedited(w, tasks)
  <2>1. AllIdle(tasks) /\ ~hasty /\ ~failed
    BY <1>1, <1>12 DEF Busy, Running, AllIdle
  <2>2. Settled(db, ui, tasks, due)
    BY <2>1 DEF PageInv, CalmInv
  <2>3. Same(ui.view, s.view)
    BY <1>2, <1>6, <1>9 DEF Same
  <2>4. Settled(db, s, tasks, due)
    BY <1>9, <2>2, <2>3, SettledSame
  <2>5. QED
    BY <2>1, <2>4 DEF AllIdle, Unedited
<1>13. CalmInv'
  BY <1>1, <1>8, <1>9, <1>12 DEF CalmInv
<1>14. QED
  BY <1>10, <1>11, <1>13 DEF PageInv

\* The other tab.
LEMMA TurnReady ==
    ASSUME PageInv, NEW s, Page(s), s.view = ui.view, s.hasAuthorizers = ui.hasAuthorizers, s.tab # ui.tab
    PROVE  Moves(s) /\ (AllIdle(tasks) /\ Quiet(db, ui, due) => Ready(s, tasks, due))
<1>1. Page(ui)
  BY ScreenIs DEF PageInv
<1>2. Moves(s)
  BY <1>1, TabsAre DEF Page, Moves, Mounted, Here
<1>3. ASSUME AllIdle(tasks), Quiet(db, ui, due) PROVE MoveReady(s, tasks, due)
  <2>1. s.tab = "connections" => ui.tab = "authorizers"
    BY <1>1, TabsAre DEF Page
  <2>2. QED
    BY <1>3, <2>1 DEF MoveReady, AllIdle, Quiet
<1>4. QED
  BY <1>2, <1>3 DEF Ready

LEMMA TabChangeKeeps ==
    ASSUME PageInv, NEW t \in PageTabs, handleTabChange(t)
    PROVE  PageInv'
<1>1. /\ t # ui.tab /\ due' = due /\ UNCHANGED <<db, failed>> /\ hasty' = (hasty \/ Busy)
      /\ Render([ui EXCEPT !.tab = t], t, tasks)
  BY DEF handleTabChange, Click
<1>2. Page(ui) /\ Viewed(ui.view) /\ GoodTasks(db, tasks) /\ AllPlaced(ui, tasks) /\ due \in Nat /\ SpinInv
  BY ScreenIs DEF PageInv
<1>3. PICK s : s = [ui EXCEPT !.tab = t]
  OBVIOUS
<1>4. Page(s) /\ s.view = ui.view /\ s.hasAuthorizers = ui.hasAuthorizers /\ s.tab = t
  BY <1>2, <1>3 DEF Page
<1>5. s = Turned(s, t)
  <2>1. [s EXCEPT !.tab = t] = s
    BY <1>4 DEF Page
  <2>2. QED
    BY <2>1 DEF Turned
<1>6. ASSUME ~hasty', ~failed PROVE Ready(s, tasks, due')
  BY <1>1, <1>4, <1>6, PatientClick, TurnReady
<1>7. QED
  BY <1>1, <1>2, <1>3, <1>4, <1>5, <1>6, RenderKeeps DEF SpinInv

\* A step in the browser's history.
LEMMA BackKeeps ==
    ASSUME PageInv, NEW u \in PageTabs \cup {None}, Back(u)
    PROVE  PageInv'
<1>1. due' = due /\ UNCHANGED <<db, failed>> /\ hasty' = (hasty \/ Busy) /\ Render(ui, u, tasks)
  BY DEF Back
<1>2. Page(ui) /\ Viewed(ui.view) /\ GoodTasks(db, tasks) /\ AllPlaced(ui, tasks) /\ due \in Nat /\ SpinInv
  BY ScreenIs DEF PageInv
<1>3. PICK s : s = Turned(ui, u)
  OBVIOUS
<1>4. Page(s) /\ s.view = ui.view /\ s.hasAuthorizers = ui.hasAuthorizers
  BY <1>2, <1>3, TurnedIs
<1>5. ASSUME ~hasty', ~failed PROVE Ready(s, tasks, due')
  <2>1. AllIdle(tasks) /\ Quiet(db, ui, due)
    BY <1>1, <1>5, PatientClick
  <2>2. CASE s.tab = ui.tab
    <3>1. s = ui
      BY <1>2, <1>4, <2>2 DEF Page
    <3>2. ~Moves(s) /\ ~Selects(s)
      BY <3>1 DEF Moves, Here, Selects
    <3>3. QED
      BY <1>1, <1>2, <2>1, <3>1, <3>2, QuietIs DEF Ready
  <2>3. CASE s.tab # ui.tab
    BY <1>1, <1>4, <2>1, <2>3, TurnReady
  <2>4. QED
    BY <2>2, <2>3
<1>6. QED
  BY <1>1, <1>2, <1>3, <1>4, <1>5, RenderKeeps DEF SpinInv

\* The question is answered with no.
LEMMA CloseConfirmationKeeps ==
    ASSUME PageInv, closeConfirmation
    PROVE  PageInv'
<1>1. /\ Here # None /\ UNCHANGED <<db, failed, hasty, due>> /\ ui.view.confirm # None /\ ~ui.view.loading
  BY DEF closeConfirmation, GoesOn, View
<1>2. PICK v : v = ui.view
  OBVIOUS
<1>3. PICK w : w = [v EXCEPT !.confirm = None]
  OBVIOUS
<1>4. PICK s : s = [ui EXCEPT !.view = w]
  OBVIOUS
<1>5. Render(s, url, tasks)
  BY <1>2, <1>3, <1>4 DEF closeConfirmation, Shows, View
<1>6. /\ GoodView(db, Here, v) /\ due \in Nat /\ Page(ui) /\ GoodTasks(db, tasks) /\ AllPlaced(ui, tasks)
      /\ url \in PageTabs \cup {None}
  BY <1>1, <1>2, ScreenIs DEF PageInv
<1>7. /\ w.list = v.list /\ w.choices = v.choices /\ w.id = v.id /\ w.selected = v.selected /\ w.loading = v.loading
      /\ w.open = v.open /\ w.form = v.form /\ w.temp = v.temp /\ w.confirm = None /\ Shaped(w)
  BY <1>3, <1>6, FieldsAre DEF Shaped
<1>8. GoodView(db, Here, w)
  BY <1>6, <1>7, FieldsAre
<1>9. /\ Page(s) /\ s.view = w /\ Mounted(s) = Here /\ s.tab = ui.tab /\ s.hasAuthorizers = ui.hasAuthorizers
      /\ ~Moves(s) /\ s = Turned(s, url)
  BY <1>4, <1>6, WithView
<1>10. ~Selects(s)
  BY <1>2, <1>7, <1>9 DEF Selects
<1>11. Viewed(s.view)
  BY <1>1, <1>2, <1>7, <1>8, <1>9 DEF Viewed
<1>12. ASSUME ~hasty', ~failed PROVE Ready(s, tasks, due')
  <2>1. Settled(db, ui, tasks, due)
    BY <1>1, <1>12 DEF PageInv, CalmInv
  <2>2. AllIdle(tasks)
    BY <1>1, <2>1 DEF Settled, Single, Relies, AllIdle
  <2>3. Quiet(db, ui, due)
    BY <1>6, <2>1, <2>2, QuietIs
  <2>4. Quiet(db, s, due)
    BY <1>1, <1>2, <1>7, <1>9, <2>3 DEF Quiet, Here
  <2>5. Settled(db, s, tasks, due)
    BY <1>6, <2>2, <2>4, QuietIs
  <2>6. QED
    BY <1>1, <1>9, <1>10, <2>5 DEF Ready
<1>13. s.view.loading => Turns(tasks)
  BY <1>1, <1>2, <1>7, <1>9
<1>14. QED
  BY <1>1, <1>5, <1>6, <1>9, <1>11, <1>12, <1>13, RenderKeeps

\* Where a handler waits that writes.
WritesAt == {"save", "delete"}
\* A handler that writes, when it begins.
WriteArg(id) == [tab |-> Here, id |-> id]
Writing(at, id, r) == Handler(at, WriteArg(id), {r}, TRUE)
LEMMA WriterIs ==
    ASSUME NEW at, NEW id, NEW r, Asks(db, at, WriteArg(id), {r}),
           NEW t, t = Writing(at, id, r)
    PROVE  /\ GoodTask(db, t) /\ t.at = at /\ t.arg.tab = Here /\ t.arg.id = id
           /\ t.sent = {r} /\ DOMAIN t.got = {} /\ t.live
<1>1. PICK arg, q, live : arg = WriteArg(id) /\ q = {r} /\ live = TRUE
  OBVIOUS
<1>2. Asks(db, at, arg, q) /\ t = Handler(at, arg, q, live) /\ live \in BOOLEAN
  BY <1>1 DEF Writing
<1>3. GoodTask(db, t) /\ t.at = at /\ t.arg = arg /\ t.sent = q /\ DOMAIN t.got = {} /\ t.live = live
  BY <1>2, NewTask
<1>4. arg.tab = Here /\ arg.id = id
  BY <1>1 DEF WriteArg
<1>5. QED
  BY <1>1, <1>3, <1>4

\* What is settled stays so when the handler t begins and the page becomes s.
Allows(s, t) ==
    \A ts : \A i \in Slots :
        /\ tasks[i].at = "idle" /\ \A k \in Slots : ts[k] = IF k = i THEN t ELSE tasks[k]
        /\ Settled(db, ui, tasks, due) /\ Unedited(ui.view, tasks)
        => Settled(db, s, ts, due)

\* A handler that writes begins.
LEMMA StartKeeps ==
    ASSUME PageInv, GoesOn, NEW at \in WritesAt, NEW id, NEW r, Starts(at, id, r),
           Asks(db, at, WriteArg(id), {r}),
           NEW w, w = [ui.view EXCEPT !.loading = TRUE], NEW s, s = [ui EXCEPT !.view = w],
           NEW t, t = Writing(at, id, r), Allows(s, t)
    PROVE  PageInv'
<1>1. Here # None /\ UNCHANGED <<db, failed, hasty, due>>
  BY DEF GoesOn
<1>2. PICK v : v = ui.view
  OBVIOUS
<1>3. /\ GoodView(db, Here, v) /\ due \in Nat /\ Page(ui) /\ GoodTasks(db, tasks) /\ AllPlaced(ui, tasks)
      /\ url \in PageTabs \cup {None}
  BY <1>1, <1>2, ScreenIs DEF PageInv
<1>4. /\ w.list = v.list /\ w.choices = v.choices /\ w.id = v.id /\ w.selected = v.selected /\ w.loading = TRUE
      /\ w.open = v.open /\ w.form = v.form /\ w.temp = v.temp /\ w.confirm = v.confirm /\ Shaped(w)
  BY <1>2, <1>3, FieldsAre DEF Shaped
<1>5. GoodView(db, Here, w)
  BY <1>3, <1>4, FieldsAre
<1>6. /\ Page(s) /\ s.view = w /\ Mounted(s) = Here /\ s.tab = ui.tab /\ s.hasAuthorizers = ui.hasAuthorizers
      /\ ~Moves(s) /\ s = Turned(s, url)
  BY <1>3, WithView
<1>7. ~Selects(s)
  BY <1>2, <1>4, <1>6 DEF Selects
<1>8. Viewed(s.view)
  <2>1. Viewed(v)
    BY <1>2, ScreenIs DEF PageInv
  <2>2. Viewed(w)
    BY <1>1, <1>4, <1>5, <2>1 DEF Viewed
  <2>3. QED
    BY <1>6, <2>2
<1>9. PICK ts : ts = Begin(tasks, t)
  OBVIOUS
<1>10. Render(s, url, ts) /\ HasRoom(tasks)
  <2>1. PICK a, b : a = [ui EXCEPT !.view.loading = TRUE] /\ b = Task(at, [tab |-> Here, id |-> id], {r})
    OBVIOUS
  <2>2. a = s
    BY <2>1
  <2>3. b = t
    BY <2>1 DEF Task, Handler, Writing, WriteArg
  <2>4. Render(s, url, ts)
    <3>1. Render(a, url, Begin(tasks, b))
      BY <2>1 DEF Starts
    <3>2. QED
      BY <1>9, <2>2, <2>3, <3>1, Zenon
  <2>5. QED
    BY <2>4 DEF Starts
<1>11. DOMAIN tasks = Slots
  BY <1>3 DEF GoodTasks
<1>12. GoodTask(db, t) /\ t.at = at /\ t.live
  BY WriterIs
<1>13. t.arg.tab = Here
  BY WriterIs
<1>14. PICK i \in Slots : /\ tasks[i].at = "idle" /\ DOMAIN ts = Slots
                          /\ \A k \in Slots : ts[k] = IF k = i THEN t ELSE tasks[k]
  BY <1>9, <1>10, <1>11, BeginIs
<1>15. GoodTasks(db, ts)
  BY <1>3, <1>12, <1>14 DEF GoodTasks
<1>16. AllPlaced(ui, ts)
  <2>1. Placed(ui, t)
    BY <1>12, <1>13 DEF Placed, TabOf, Here, WritesAt
  <2>2. QED
    BY <1>3, <1>14, <2>1 DEF AllPlaced
<1>17. Turns(ts)
  BY <1>12, <1>14 DEF Turns, WritesAt
<1>18. ASSUME ~hasty', ~failed PROVE Ready(s, ts, due')
  <2>1. Settled(db, ui, tasks, due) /\ Unedited(ui.view, tasks)
    BY <1>1, <1>18 DEF PageInv, CalmInv
  <2>2. Settled(db, s, ts, due)
    BY <1>14, <2>1 DEF Allows
  <2>3. QED
    BY <1>1, <1>6, <1>7, <2>2 DEF Ready
<1>19. QED
  BY <1>1, <1>3, <1>6, <1>8, <1>10, <1>15, <1>16, <1>17, <1>18, RenderKeeps

LEMMA ConfirmDeleteKeeps ==
    ASSUME PageInv, handleConfirmDelete
    PROVE  PageInv'
<1>1. GoesOn /\ Here # None /\ ui.view.confirm # None /\ ~ui.view.loading
  BY DEF handleConfirmDelete, GoesOn, View
<1>2. PICK v, id, r : v = ui.view /\ id = v.confirm /\ r = delete(Here, id)
  OBVIOUS
<1>3. Starts("delete", id, r)
  BY <1>2 DEF handleConfirmDelete, View
<1>4. /\ GoodView(db, Here, v) /\ Page(ui) /\ Here \in PageTabs /\ GoodTasks(db, tasks)
  BY <1>1, <1>2, ScreenIs DEF PageInv
<1>5. id \in Ids[Here]
  BY <1>1, <1>2, <1>4, FieldsAre
<1>6. PICK arg : arg = WriteArg(id)
  OBVIOUS
<1>7. Asks(db, "delete", arg, {r})
  BY <1>2, <1>4, <1>5, <1>6 DEF Asks, WriteArg
<1>8. PICK w : w = [ui.view EXCEPT !.loading = TRUE]
  OBVIOUS
<1>9. PICK s : s = [ui EXCEPT !.view = w]
  OBVIOUS
<1>10. PICK t : t = Writing("delete", id, r)
  OBVIOUS
<1>11. /\ w.list = v.list /\ w.choices = v.choices /\ w.id = v.id /\ w.selected = v.selected /\ w.loading = TRUE
       /\ w.open = v.open /\ w.form = v.form /\ w.temp = v.temp /\ w.confirm = v.confirm /\ Shaped(w)
  BY <1>2, <1>4, <1>8, FieldsAre DEF Shaped
<1>12. s.view = w /\ Mounted(s) = Here /\ s.tab = ui.tab /\ s.hasAuthorizers = ui.hasAuthorizers
  BY <1>4, <1>9, WithView
<1>13. t.at = "delete" /\ t.arg.id = id /\ t.sent = {r} /\ DOMAIN t.got = {} /\ t.live
  <2>1. PICK at : at = "delete"
    OBVIOUS
  <2>2. Asks(db, at, WriteArg(id), {r}) /\ t = Writing(at, id, r)
    BY <1>6, <1>7, <1>10, <2>1
  <2>3. GoodTask(db, t) /\ t.at = at /\ t.arg.id = id /\ t.sent = {r} /\ DOMAIN t.got = {} /\ t.live
    BY <2>2, WriterIs
  <2>4. QED
    BY <2>1, <2>3
<1>14. ASSUME NEW ts, NEW i \in Slots, tasks[i].at = "idle", \A k \in Slots : ts[k] = IF k = i THEN t ELSE tasks[k],
              Settled(db, ui, tasks, due)
       PROVE  Settled(db, s, ts, due)
  <2>1. AllIdle(tasks)
    BY <1>1, <1>14 DEF Settled, Single, Relies, AllIdle
  <2>2. Quiet(db, ui, due)
    BY <1>4, <1>14, <2>1, QuietIs
  <2>3. \A k \in Slots : tasks[k].at = "idle" /\ DOMAIN tasks[k].got = {}
    BY <1>4, <2>1, IdleTasks
  <2>4. v.confirm = v.id /\ ~v.open /\ v.id # None /\ v.list = db.records[Here]
        /\ v.id \in DOMAIN db.records[Here] /\ v.selected = Found(db.records[Here], v.id)
    BY <1>1, <1>2, <2>2 DEF Quiet, Here
  <2>5. ~Late(t) /\ Deletes(t)
    BY <1>13 DEF Late, Deletes
  <2>6. Relies(w, t)
    BY <1>2, <1>11, <1>13, <2>4, <2>5 DEF Relies
  <2>7. Single(db, w, ts)
    BY <1>14, <2>3, <2>6 DEF Single
  <2>8. AnswersHold(db, ts)
    BY <1>13, <1>14, <2>3 DEF AnswersHold
  <2>9. GateHolds(db, s, ts)
    BY <1>12, <2>2 DEF Quiet, GateHolds
  <2>10. Counted(db, w, ts, due)
    <3>1. \A k \in Slots : ~Creating(ts[k])
      BY <1>13, <1>14, <2>3 DEF Creating
    <3>2. QED
      BY <1>11, <2>2, <2>4, <3>1 DEF Counted, NewForm, Quiet
  <2>11. ListHolds(db, Here, w, ts)
    BY <1>11, <2>4 DEF ListHolds
  <2>12. DetailsHold(db, Here, w, ts)
    BY <1>11, <2>4 DEF DetailsHold
  <2>13. QED
    BY <1>12, <2>7, <2>8, <2>9, <2>10, <2>11, <2>12 DEF Settled
<1>15. Asks(db, "delete", WriteArg(id), {r}) /\ t = Writing("delete", id, r)
  BY <1>6, <1>7, <1>10
<1>16. PICK at : at = "delete"
  OBVIOUS
<1>17. at \in WritesAt /\ Starts(at, id, r) /\ Asks(db, at, WriteArg(id), {r})
       /\ t = Writing(at, id, r)
  BY <1>3, <1>15, <1>16 DEF WritesAt
<1>18. Allows(s, t)
  BY <1>14 DEF Allows
<1>19. QED
  BY <1>1, <1>8, <1>9, <1>17, <1>18, StartKeeps

\* A save of the form, that of a new record and that of a record there is.
LEMMA CreateBegins ==
    ASSUME PageInv, Here # None, NEW v, v = ui.view, v.open, ~v.loading, v.confirm = None, v.selected = None,
           NEW w, Same([v EXCEPT !.loading = TRUE], w), w.loading, NEW s, s.view = w, Mounted(s) = Here,
           s.tab = ui.tab, s.hasAuthorizers = ui.hasAuthorizers,
           NEW r, r[1] = "create", NEW t, t.at = "save", t.arg.id = v.id, t.sent = {r}, DOMAIN t.got = {}, t.live
    PROVE  Allows(s, t)
<1>1. Page(ui) /\ Here \in PageTabs /\ GoodView(db, Here, v) /\ GoodTasks(db, tasks) /\ IsFiniteSet(db.given)
  BY ScreenIs DEF PageInv, GoodDb
<1>2. /\ w.list = v.list /\ w.id = v.id /\ w.selected = v.selected
      /\ w.open = v.open /\ w.confirm = v.confirm
  <2>1. PICK x : x = [v EXCEPT !.loading = TRUE]
    OBVIOUS
  <2>2. /\ x.list = v.list /\ x.id = v.id /\ x.selected = v.selected
        /\ x.open = v.open /\ x.confirm = v.confirm
    BY <1>1, <2>1, FieldsAre DEF Shaped
  <2>3. QED
    BY <2>1, <2>2 DEF Same
<1>3. ASSUME NEW ts, NEW i \in Slots, tasks[i].at = "idle", \A k \in Slots : ts[k] = IF k = i THEN t ELSE tasks[k],
             Settled(db, ui, tasks, due)
      PROVE  Settled(db, s, ts, due)
  <2>1. /\ Single(db, v, tasks) /\ GateHolds(db, ui, tasks) /\ Counted(db, v, tasks, due)
        /\ ListHolds(db, Here, v, tasks) /\ DetailsHold(db, Here, v, tasks)
    BY <1>3 DEF Settled, Here
  <2>2. v.id = None
    BY <2>1 DEF DetailsHold
  <2>3. AllIdle(tasks)
    BY <2>1, <2>2 DEF Single, Relies, AllIdle, Late
  <2>4. Quiet(db, ui, due)
    BY <1>1, <1>3, <2>3, QuietIs
  <2>5. \A k \in Slots : tasks[k].at = "idle" /\ DOMAIN tasks[k].got = {}
    BY <1>1, <2>3, IdleTasks
  <2>6. ~Late(t) /\ ~Deletes(t)
    BY DEF Late, Deletes
  <2>7. Relies(w, t)
    BY <1>2, <2>2, <2>6 DEF Relies, Requested
  <2>8. Single(db, w, ts)
    BY <1>3, <2>5, <2>7 DEF Single
  <2>9. AnswersHold(db, ts)
    BY <1>3, <2>5 DEF AnswersHold
  <2>10. GateHolds(db, s, ts)
    BY <2>4 DEF Quiet, GateHolds
  <2>11. Counted(db, w, ts, due)
    BY <2>4 DEF Counted, Quiet
  <2>12. ListHolds(db, Here, w, ts) /\ DetailsHold(db, Here, w, ts)
    BY <1>2, <2>2, <2>4 DEF ListHolds, DetailsHold, Quiet, Here
  <2>13. QED
    BY <2>8, <2>9, <2>10, <2>11, <2>12 DEF Settled
<1>4. QED
  BY <1>3 DEF Allows

LEMMA UpdateBegins ==
    ASSUME PageInv, Here # None, NEW v, v = ui.view, v.open, ~v.loading, v.confirm = None, v.selected # None,
           NEW w, Same([v EXCEPT !.loading = TRUE], w), w.loading, NEW s, s.view = w, Mounted(s) = Here,
           s.tab = ui.tab, s.hasAuthorizers = ui.hasAuthorizers,
           NEW r, r[1] = "update", r[2] = Here, r[3] = v.selected.id, r[4] = v.form,
           NEW t, t.at = "save", t.arg.id = v.id, t.sent = {r}, DOMAIN t.got = {}, t.live
    PROVE  Allows(s, t)
<1>1. Page(ui) /\ Here \in PageTabs /\ GoodView(db, Here, v) /\ GoodTasks(db, tasks) /\ IsFiniteSet(db.given)
  BY ScreenIs DEF PageInv, GoodDb
<1>2. /\ w.list = v.list /\ w.id = v.id /\ w.selected = v.selected
      /\ w.open = v.open /\ w.confirm = v.confirm
  <2>1. PICK x : x = [v EXCEPT !.loading = TRUE]
    OBVIOUS
  <2>2. /\ x.list = v.list /\ x.id = v.id /\ x.selected = v.selected
        /\ x.open = v.open /\ x.confirm = v.confirm
    BY <1>1, <2>1, FieldsAre DEF Shaped
  <2>3. QED
    BY <2>1, <2>2 DEF Same
<1>3. ASSUME NEW ts, NEW i \in Slots, tasks[i].at = "idle", \A k \in Slots : ts[k] = IF k = i THEN t ELSE tasks[k],
             Settled(db, ui, tasks, due), Unedited(v, tasks)
      PROVE  Settled(db, s, ts, due)
  <2>1. /\ Single(db, v, tasks) /\ AnswersHold(db, tasks) /\ GateHolds(db, ui, tasks) /\ Counted(db, v, tasks, due)
        /\ ListHolds(db, Here, v, tasks) /\ DetailsHold(db, Here, v, tasks)
    BY <1>3 DEF Settled, Here
  <2>2. ASSUME NEW k \in Slots, tasks[k].at # "idle"
        PROVE  /\ Relies(v, tasks[k]) /\ Late(tasks[k]) /\ tasks[k].at = "list" /\ ~Deletes(tasks[k])
               /\ tasks[k].arg.then = "save" /\ tasks[k].arg.id = None /\ tasks[k].live
    <3>1. Relies(v, tasks[k])
      BY <2>1, <2>2 DEF Single
    <3>2. Late(tasks[k]) /\ tasks[k].at # "choices" /\ tasks[k].live
      BY <3>1 DEF Relies
    <3>3. QED
      BY <3>1, <3>2 DEF Late, Deletes
  <2>3. \A k \in Slots : ~Written(tasks[k]) /\ ~Loads(tasks[k]) /\ ~Creating(tasks[k])
    BY <2>2 DEF Written, Loads, Creating
  <2>4. ~Deleted(tasks)
    BY <2>2 DEF Deleted
  <2>5. /\ v.id # None /\ v.id \in DOMAIN db.records[Here]
        /\ v.selected = Found(db.records[Here], v.id)
    BY <2>1, <2>3, <2>4 DEF DetailsHold
  <2>6. v.selected.id = v.id /\ v.selected.text = db.records[Here][v.id]
    BY <2>5 DEF Found
  <2>7. ~Late(t) /\ ~Deletes(t) /\ Saves(t) /\ Requested(t) = {r}
    BY DEF Late, Deletes, Saves, Requested
  <2>8. Relies(w, t)
    BY <1>2, <2>6, <2>7 DEF Relies
  <2>9. ASSUME NEW k \in Slots, k # i, ts[k].at # "idle"
        PROVE  Relies(w, ts[k]) /\ Beside(db, t, ts[k])
    <3>1. ts[k] = tasks[k]
      BY <1>3, <2>9
    <3>2. v.form = v.selected.text
      BY <1>3, <2>9, <3>1 DEF Unedited
    <3>3. Beside(db, t, ts[k])
      BY <2>2, <2>5, <2>6, <2>7, <2>9, <3>1, <3>2 DEF Beside
    <3>4. Relies(w, ts[k])
      BY <1>2, <2>2, <2>9, <3>1 DEF Relies
    <3>5. QED
      BY <3>3, <3>4
  <2>10. \A j, k \in Slots : j # i /\ k # i /\ ts[j].at # "idle" /\ ts[k].at # "idle" => j = k
    <3>1. ASSUME NEW j \in Slots, NEW k \in Slots, tasks[j].at # "idle", tasks[k].at # "idle", j # k PROVE FALSE
      <4>1. Beside(db, tasks[j], tasks[k]) \/ Beside(db, tasks[k], tasks[j])
        BY <2>1, <3>1 DEF Single
      <4>2. QED
        BY <2>2, <3>1, <4>1 DEF Beside
    <3>2. QED
      BY <1>3, <3>1
  <2>11. ts[i] = t
    BY <1>3
  <2>12. Single(db, w, ts)
    BY <2>8, <2>9, <2>10, <2>11 DEF Single
  <2>13. AnswersHold(db, ts)
    BY <1>3, <2>1 DEF AnswersHold
  <2>14. \A k \in Slots : tasks[k].at # "idle" => ts[k] = tasks[k]
    BY <1>3
  <2>15. GateHolds(db, s, ts)
    BY <2>1, <2>3, <2>14 DEF GateHolds
  <2>16. Counted(db, w, ts, due)
    <3>1. ~Creating(t)
      BY DEF Creating
    <3>2. \A k \in Slots : ~Creating(ts[k])
      BY <1>3, <2>3, <3>1
    <3>3. QED
      BY <1>2, <2>1, <3>2 DEF Counted, NewForm
  <2>17. ListHolds(db, Here, w, ts)
    BY <1>2, <2>1, <2>3, <2>14 DEF ListHolds
  <2>18. DetailsHold(db, Here, w, ts)
    BY <1>2, <2>5 DEF DetailsHold
  <2>19. QED
    BY <2>12, <2>13, <2>15, <2>16, <2>17, <2>18 DEF Settled
<1>4. QED
  BY <1>3 DEF Allows

LEMMA SaveKeeps ==
    ASSUME PageInv, handleSave
    PROVE  PageInv'
<1>1. PICK v : v = ui.view
  OBVIOUS
<1>2. GoesOn /\ Here # None /\ v.confirm = None /\ v.open /\ ~v.loading /\ Valid /\ BeginSave
  BY <1>1 DEF handleSave, GoesOn, View
<1>3. PICK r : r = IF v.selected = None THEN create(Here, v.form) ELSE update(Here, v.selected.id, v.form)
  OBVIOUS
<1>4. Starts("save", v.id, r)
  BY <1>1, <1>2, <1>3 DEF BeginSave, View
<1>5. Page(ui) /\ Here \in PageTabs /\ GoodView(db, Here, v) /\ FormMeant(v)
  BY <1>1, <1>2, ScreenIs DEF PageInv
<1>6. v.form \in Texts /\ v.id \in Ids[Here] \cup {None} /\ (Here = "authorizers" /\ ~Known(db) => v.form = Typed)
  <2>1. Typed \in Texts /\ v.form \in Texts \cup {Blank}
    BY <1>5, FieldsAre DEF Texts
  <2>2. Here # "connections" => v.form # Blank
    BY <1>1, <1>2 DEF Valid, View
  <2>3. Here = "connections" => v.form = Typed
    BY <1>1, <1>2 DEF Valid, View
  <2>4. QED
    BY <1>5, <2>1, <2>2, <2>3, FieldsAre
<1>7. PICK id : id = v.id
  OBVIOUS
<1>8. PICK arg : arg = WriteArg(id)
  OBVIOUS
<1>9. \E i \in Ids[Here] \cup {None} : arg = [tab |-> Here, id |-> i]
  BY <1>6, <1>7, <1>8 DEF WriteArg
<1>10. Asks(db, "save", arg, {r})
  <2>1. \E x \in Texts : \/ {r} = {create(Here, x)} /\ (Here = "authorizers" /\ ~Known(db) => x = Typed)
                         \/ \E i \in Ids[Here] : {r} = {update(Here, i, x)} /\ Meant(db, Here, i, x)
    <3>1. CASE v.selected = None
      BY <1>3, <1>6, <3>1
    <3>2. CASE v.selected # None
      <4>1. v.selected.id \in Ids[Here] /\ Meant(db, Here, v.selected.id, v.selected.text)
        BY <1>5, <3>2, FieldsAre
      <4>2. v.form \in {v.selected.text, Typed}
        BY <1>2, <1>5, <3>2 DEF FormMeant
      <4>3. Meant(db, Here, v.selected.id, v.form)
        BY <1>6, <4>1, <4>2 DEF Meant
      <4>4. QED
        BY <1>3, <1>6, <3>2, <4>1, <4>3
    <3>3. QED
      BY <3>1, <3>2
  <2>2. QED
    BY <1>5, <1>9, <2>1 DEF Asks
<1>11. PICK w : w = [ui.view EXCEPT !.loading = TRUE]
  OBVIOUS
<1>12. PICK s : s = [ui EXCEPT !.view = w]
  OBVIOUS
<1>13. PICK at : at = "save"
  OBVIOUS
<1>14. PICK t : t = Writing(at, id, r)
  OBVIOUS
<1>15. at \in WritesAt /\ Starts(at, id, r) /\ Asks(db, at, WriteArg(id), {r})
  BY <1>4, <1>7, <1>8, <1>10, <1>13 DEF WritesAt
<1>16. t.at = at /\ t.arg.id = id /\ t.sent = {r} /\ DOMAIN t.got = {} /\ t.live
  BY <1>14, <1>15, WriterIs
<1>17. s.view = w /\ Mounted(s) = Here /\ s.tab = ui.tab /\ s.hasAuthorizers = ui.hasAuthorizers
  BY <1>5, <1>12, WithView
<1>18. Same([v EXCEPT !.loading = TRUE], w) /\ w.loading
  <2>1. w = [v EXCEPT !.loading = TRUE]
    BY <1>1, <1>11
  <2>2. w.loading
    BY <1>5, <2>1, FieldsAre DEF Shaped
  <2>3. QED
    BY <2>1, <2>2 DEF Same
<1>19. Allows(s, t)
  <2>1. CASE v.selected = None
    <3>1. r[1] = "create"
      BY <1>3, <2>1, WordIs
    <3>2. QED
      BY <1>1, <1>2, <1>7, <1>13, <1>16, <1>17, <1>18, <2>1, <3>1, CreateBegins
  <2>2. CASE v.selected # None
    <3>1. r[1] = "update" /\ r[2] = Here /\ r[3] = v.selected.id /\ r[4] = v.form
      BY <1>3, <2>2, WordIs
    <3>2. QED
      BY <1>1, <1>2, <1>7, <1>13, <1>16, <1>17, <1>18, <2>2, <3>1, UpdateBegins
  <2>3. QED
    BY <2>1, <2>2
<1>20. QED
  BY <1>2, <1>11, <1>12, <1>14, <1>15, <1>19, StartKeeps

-----------------------------------------------------------------------------
(* The handlers after their awaits.                                        *)

\* What each handler is about, and what it has asked.
LEMMA ArgIs ==
    ASSUME NEW d, NEW at, NEW arg, NEW q, Asks(d, at, arg, q)
    PROVE  /\ at = "choices" => q = {getAll("authorizers")}
           /\ at # "choices" => arg.tab \in PageTabs
           /\ at = "list" => /\ arg.then \in Thens /\ arg.id \in Ids[arg.tab] \cup {None}
                             /\ q = {getAll(arg.tab)}
           /\ at = "details" => /\ arg.then \in Thens \ {"delete"} /\ arg.id \in Ids[arg.tab]
                                /\ q = {getById(arg.tab, arg.id)}
           /\ at = "save" => /\ arg.id \in Ids[arg.tab] \cup {None}
                             /\ \E x \in Texts : \/ q = {create(arg.tab, x)}
                                                 \/ \E i \in Ids[arg.tab] : q = {update(arg.tab, i, x)}
           /\ at = "delete" => arg.id \in Ids[arg.tab] /\ q = {delete(arg.tab, arg.id)}
  BY DEF Asks, Thens

\* A handler whose requests are answered.
LEMMA RunsIs ==
    ASSUME PageInv, NEW k \in Slots, tasks[k].at # "idle", tasks[k].sent = {}
    PROVE  /\ GoodTask(db, tasks[k]) /\ tasks[k].live \in BOOLEAN /\ tasks[k].at \in Places
           /\ Asks(db, tasks[k].at, tasks[k].arg, DOMAIN tasks[k].got)
           /\ ~Threw(tasks[k]) => \A r \in DOMAIN tasks[k].got : tasks[k].got[r].ok /\ Tells(db, r, Data(tasks[k], r))
           /\ tasks[k].live => Here # None /\ TabOf(tasks[k]) = Here
           /\ ~tasks[k].live => Outlives(tasks[k])
<1>1. PICK t : t = tasks[k]
  OBVIOUS
<1>2. GoodTask(db, t) /\ Placed(ui, t)
  BY <1>1, ScreenIs DEF PageInv, GoodTasks, AllPlaced
<1>3. t.live \in BOOLEAN /\ t.at \in Places
  BY <1>1, <1>2, BusyIs
<1>4. /\ Asks(db, t.at, t.arg, DOMAIN t.got)
      /\ ~Threw(t) => \A r \in DOMAIN t.got : t.got[r].ok /\ Tells(db, r, Data(t, r))
  BY <1>1, <1>2, Answers
<1>5. TabOf(t) \in PageTabs
  BY <1>4, ArgIs, TabsAre DEF TabOf
<1>6. t.live => Here # None /\ TabOf(t) = Here
  BY <1>1, <1>2, <1>5, TabsAre DEF Placed, Here
<1>7. ~t.live => Outlives(t)
  BY <1>1, <1>2 DEF Placed
<1>8. QED
  BY <1>1, <1>2, <1>3, <1>4, <1>6, <1>7

\* The handler of a user who waits.
LEMMA PatientTask ==
    ASSUME PageInv, ~hasty, ~failed, NEW k \in Slots, tasks[k].at # "idle"
    PROVE  /\ Settled(db, ui, tasks, due) /\ Relies(ui.view, tasks[k]) /\ tasks[k].live /\ ~Threw(tasks[k])
           /\ \A r \in DOMAIN tasks[k].got : StillSo(db, r, tasks[k].got[r])
           /\ Single(db, ui.view, tasks) /\ AnswersHold(db, tasks) /\ GateHolds(db, ui, tasks)
           /\ Counted(db, ui.view, tasks, due)
           /\ Here # None => ListHolds(db, Here, ui.view, tasks) /\ DetailsHold(db, Here, ui.view, tasks)
<1>1. Settled(db, ui, tasks, due)
  BY DEF PageInv, CalmInv
<1>2. /\ Single(db, ui.view, tasks) /\ AnswersHold(db, tasks) /\ GateHolds(db, ui, tasks)
      /\ Counted(db, ui.view, tasks, due)
      /\ Here # None => ListHolds(db, Here, ui.view, tasks) /\ DetailsHold(db, Here, ui.view, tasks)
  BY <1>1 DEF Settled, Here
<1>3. Relies(ui.view, tasks[k]) /\ tasks[k].live
  BY <1>2 DEF Single, Relies
<1>4. \A r \in DOMAIN tasks[k].got : StillSo(db, r, tasks[k].got[r])
  BY <1>2 DEF AnswersHold
<1>5. ~Threw(tasks[k])
  BY <1>4 DEF Threw, StillSo
<1>6. QED
  BY <1>1, <1>2, <1>3, <1>4, <1>5

\* The handlers beside the one in slot k.
LEMMA OthersAre ==
    ASSUME NEW d, NEW v, NEW ts, Single(d, v, ts), NEW k \in Slots, ts[k].at # "idle"
    PROVE  /\ \A j \in Slots : j # k /\ ts[j].at # "idle" =>
                 /\ Relies(v, ts[j])
                 /\ IF Late(ts[k]) THEN Beside(d, ts[j], ts[k]) ELSE Beside(d, ts[k], ts[j])
           /\ \A i, j \in Slots : i # k /\ j # k /\ ts[i].at # "idle" /\ ts[j].at # "idle" => i = j
<1>1. ASSUME NEW j \in Slots, j # k, ts[j].at # "idle"
      PROVE  IF Late(ts[k]) THEN Beside(d, ts[j], ts[k]) ELSE Beside(d, ts[k], ts[j])
  <2>1. Beside(d, ts[j], ts[k]) \/ Beside(d, ts[k], ts[j])
    BY <1>1 DEF Single
  <2>2. QED
    BY <2>1 DEF Beside
<1>2. ASSUME NEW i \in Slots, NEW j \in Slots, i # k, j # k, ts[i].at # "idle", ts[j].at # "idle", i # j PROVE FALSE
  <2>1. Beside(d, ts[i], ts[j]) \/ Beside(d, ts[j], ts[i])
    BY <1>2 DEF Single
  <2>2. (Late(ts[i]) /\ ~Late(ts[j])) \/ (Late(ts[j]) /\ ~Late(ts[i]))
    BY <2>1 DEF Beside
  <2>3. Late(ts[i]) <=> Late(ts[j])
    BY <1>1, <1>2 DEF Beside
  <2>4. QED
    BY <2>2, <2>3
<1>3. \A j \in Slots : ts[j].at # "idle" => Relies(v, ts[j])
  BY DEF Single
<1>4. QED
  BY <1>1, <1>2, <1>3

\* The handlers that run when that in slot k ends or becomes t.
LEMMA NextSingle ==
    ASSUME NEW d, NEW v, NEW ts, Single(d, v, ts), NEW k \in Slots, ts[k].at # "idle",
           NEW t, NEW us, \A j \in Slots : us[j] = IF j = k THEN t ELSE ts[j],
           NEW w, t.at # "idle" => Relies(w, t),
           \A j \in Slots : j # k /\ ts[j].at # "idle" =>
              Relies(w, ts[j]) /\ (t.at # "idle" => Beside(d, t, ts[j]) \/ Beside(d, ts[j], t))
    PROVE  Single(d, w, us)
<1>1. ASSUME NEW j \in Slots, us[j].at # "idle" PROVE Relies(w, us[j])
  BY <1>1
<1>2. ASSUME NEW i \in Slots, NEW j \in Slots, i # j, us[i].at # "idle", us[j].at # "idle"
      PROVE  Beside(d, us[i], us[j]) \/ Beside(d, us[j], us[i])
  <2>1. i = k \/ j = k
    BY <1>2, OthersAre
  <2>2. QED
    BY <1>2, <2>1
<1>3. QED
  BY <1>1, <1>2 DEF Single

\* A step of the handler in slot k that renders s and becomes t.
LEMMA HandlerKeeps ==
    ASSUME PageInv, NEW k \in Slots, NEW t, GoodTask(db, t), Placed(ui, t), NEW s, Page(s), Viewed(s.view), NEW ts,
           DOMAIN ts = Slots, \A j \in Slots : ts[j] = IF j = k THEN t ELSE tasks[j],
           Render(s, url, ts), Stay, s.view.loading => Turns(ts),
           ~hasty /\ ~failed => Ready(s, ts, due)
    PROVE  PageInv'
<1>1. /\ GoodTasks(db, tasks) /\ AllPlaced(ui, tasks) /\ url \in PageTabs \cup {None} /\ due \in Nat
  BY ScreenIs DEF PageInv
<1>2. GoodTasks(db, ts) /\ AllPlaced(ui, ts)
  BY <1>1 DEF GoodTasks, AllPlaced
<1>3. UNCHANGED <<db, failed, hasty, due>>
  BY DEF Stay
<1>4. PICK u : u = url
  OBVIOUS
<1>5. s = Turned(s, u)
  BY <1>4 DEF Turned
<1>6. Render(s, u, ts) /\ u \in PageTabs \cup {None} /\ due' \in Nat
  BY <1>1, <1>3, <1>4
<1>7. ~hasty' /\ ~failed => Ready(s, ts, due')
  BY <1>3
<1>8. QED
  BY <1>2, <1>3, <1>5, <1>6, <1>7, RenderKeeps

\* The spinner of another handler turns on.
LEMMA SpinsOn ==
    ASSUME PageInv, NEW k \in Slots, ~tasks[k].live \/ tasks[k].at = "choices", NEW t, NEW ts,
           \A j \in Slots : ts[j] = IF j = k THEN t ELSE tasks[j]
    PROVE  ui.view.loading => Turns(ts)
  BY DEF PageInv, SpinInv, Turns

\* A handler that ends.
LEMMA EndIs ==
    ASSUME NEW ts, DOMAIN ts = Slots, NEW k \in Slots, NEW t, NEW us, us = [ts EXCEPT ![k] = t]
    PROVE  DOMAIN us = Slots /\ \A j \in Slots : us[j] = IF j = k THEN t ELSE ts[j]
  OBVIOUS

\* The page when the handler in slot k shows the view w.
Shown(k, w) == IF tasks[k].live THEN [ui EXCEPT !.view = w] ELSE ui
\* A step of the handler in slot k that shows w, if its tab is still there.
LEMMA ShownKeeps ==
    ASSUME PageInv, NEW k \in Slots, tasks[k].at # "idle", tasks[k].sent = {}, Stay,
           NEW w, Here # None /\ tasks[k].live => GoodView(db, Here, w),
           w.id = None /\ ui.view.id # None => w.selected = None,
           NEW s, s = Shown(k, w), NEW t, GoodTask(db, t), Placed(ui, t),
           NEW ts, DOMAIN ts = Slots, \A j \in Slots : ts[j] = IF j = k THEN t ELSE tasks[j],
           Render(s, url, ts), tasks[k].live /\ w.loading => t.at = "list" /\ t.live,
           ~hasty /\ ~failed => Ready(s, ts, due)
    PROVE  PageInv'
<1>1. Page(ui) /\ Viewed(ui.view) /\ (Here # None => GoodView(db, Here, ui.view))
  BY ScreenIs DEF PageInv
<1>2. (tasks[k].live => Here # None) /\ tasks[k].live \in BOOLEAN
  BY RunsIs
<1>3. Page(s) /\ Viewed(s.view)
  <2>1. CASE tasks[k].live
    <3>1. s = [ui EXCEPT !.view = w]
      BY <2>1 DEF Shown
    <3>2. Page(s) /\ s.view = w
      BY <1>1, <3>1, WithView
    <3>3. QED
      BY <1>1, <1>2, <2>1, <3>2 DEF Viewed
  <2>2. CASE ~tasks[k].live
    <3>1. s = ui
      BY <2>2 DEF Shown
    <3>2. QED
      BY <1>1, <3>1
  <2>3. QED
    BY <2>1, <2>2
<1>4. s.view.loading => Turns(ts)
  <2>1. CASE tasks[k].live
    <3>1. s.view = w
      BY <1>1, <2>1, WithView DEF Shown
    <3>2. QED
      BY <2>1, <3>1 DEF Turns
  <2>2. CASE ~tasks[k].live
    BY <2>2, SpinsOn DEF Shown
  <2>3. QED
    BY <2>1, <2>2
<1>5. QED
  BY <1>3, <1>4, HandlerKeeps

\* A handler that fails ends its spinner.
LEMMA FailedEnds ==
    ASSUME PageInv, NEW k \in Slots, tasks[k].at # "idle", tasks[k].sent = {}, Threw(tasks[k]), Stay,
           NEW w, Here # None => GoodView(db, Here, w), w.id = ui.view.id, w.selected = ui.view.selected, w.loading = FALSE,
           NEW s, s = Shown(k, w), Render(s, url, End(tasks, k))
    PROVE  PageInv'
<1>1. DOMAIN tasks = Slots
  BY ScreenIs DEF PageInv, GoodTasks
<1>2. PICK ts, t : ts = End(tasks, k) /\ t = Idle
  OBVIOUS
<1>3. ts = [tasks EXCEPT ![k] = t]
  BY <1>2 DEF End
<1>4. DOMAIN ts = Slots /\ \A j \in Slots : ts[j] = IF j = k THEN t ELSE tasks[j]
  BY <1>1, <1>3, EndIs
<1>5. GoodTask(db, t) /\ Placed(ui, t)
  BY <1>2, IdleIs DEF Placed
<1>6. w.id = None /\ ui.view.id # None => w.selected = None
  OBVIOUS
<1>7. ~hasty /\ ~failed => Ready(s, ts, due)
  BY PatientTask
<1>8. Render(s, url, ts)
  BY <1>2
<1>9. QED
  BY <1>4, <1>5, <1>6, <1>7, <1>8, ShownKeeps

LEMMA SaveFailedKeeps ==
    ASSUME PageInv, NEW k \in Slots, SaveFailed(k)
    PROVE  PageInv'
<1>1. PICK v : v = ui.view
  OBVIOUS
<1>2. PICK w : w = [v EXCEPT !.loading = FALSE]
  OBVIOUS
<1>3. PICK s : s = Shown(k, w)
  OBVIOUS
<1>4. PICK x : x = Show(k, [ui EXCEPT !.view.loading = FALSE])
  OBVIOUS
<1>5. x = s
  BY <1>1, <1>2, <1>3, <1>4 DEF Show, Shown
<1>6. tasks[k].at = "save" /\ tasks[k].sent = {} /\ Threw(tasks[k]) /\ Stay /\ Render(x, url, End(tasks, k))
  BY <1>4 DEF SaveFailed, Answered
<1>7. Here # None => GoodView(db, Here, v)
  BY <1>1, ScreenIs DEF PageInv
<1>8. Shaped(v)
  BY <1>1, ScreenIs, ViewedIs DEF PageInv
<1>9. /\ w.list = v.list /\ w.choices = v.choices /\ w.id = v.id /\ w.selected = v.selected /\ w.loading = FALSE
      /\ w.open = v.open /\ w.form = v.form /\ w.temp = v.temp /\ w.confirm = v.confirm /\ Shaped(w)
  BY <1>2, <1>8 DEF Shaped
<1>10. Here # None => GoodView(db, Here, w)
  BY <1>7, <1>9, FieldsAre
<1>11. tasks[k].at # "idle"
  BY <1>6
<1>12. Render(s, url, End(tasks, k))
  BY <1>5, <1>6, Zenon
<1>13. QED
  BY <1>1, <1>3, <1>6, <1>9, <1>10, <1>11, <1>12, FailedEnds

LEMMA DeleteFailedKeeps ==
    ASSUME PageInv, NEW k \in Slots, DeleteFailed(k)
    PROVE  PageInv'
<1>1. PICK v : v = ui.view
  OBVIOUS
<1>2. PICK w : w = [v EXCEPT !.loading = FALSE, !.confirm = None]
  OBVIOUS
<1>3. PICK s : s = Shown(k, w)
  OBVIOUS
<1>4. PICK x : x = Show(k, [ui EXCEPT !.view = [@ EXCEPT !.loading = FALSE, !.confirm = None]])
  OBVIOUS
<1>5. x = s
  BY <1>1, <1>2, <1>3, <1>4 DEF Show, Shown
<1>6. tasks[k].at = "delete" /\ tasks[k].sent = {} /\ Threw(tasks[k]) /\ Stay /\ Render(x, url, End(tasks, k))
  BY <1>4 DEF DeleteFailed, Answered
<1>7. Here # None => GoodView(db, Here, v)
  BY <1>1, ScreenIs DEF PageInv
<1>8. Shaped(v)
  BY <1>1, ScreenIs, ViewedIs DEF PageInv
<1>9. /\ w.list = v.list /\ w.choices = v.choices /\ w.id = v.id /\ w.selected = v.selected /\ w.loading = FALSE
      /\ w.open = v.open /\ w.form = v.form /\ w.temp = v.temp /\ w.confirm = None /\ Shaped(w)
  BY <1>2, <1>8 DEF Shaped
<1>10. Here # None => GoodView(db, Here, w)
  BY <1>7, <1>9, FieldsAre
<1>11. tasks[k].at # "idle"
  BY <1>6
<1>12. Render(s, url, End(tasks, k))
  BY <1>5, <1>6, Zenon
<1>13. QED
  BY <1>1, <1>3, <1>6, <1>9, <1>10, <1>11, <1>12, FailedEnds

\* A handler that goes on with the list.
Lists(k, after, t, ts) ==
    /\ \A j \in Slots : ts[j] = IF j = k THEN t ELSE tasks[j]
    /\ GoodTask(db, t) /\ Placed(ui, t)
    /\ tasks[k].live => /\ t.at = "list" /\ t.arg.tab = Here /\ t.arg.then = after /\ t.arg.id = tasks[k].arg.id
                        /\ t.live /\ DOMAIN t.got = {} /\ t.sent = {getAll(Here)}
LEMMA ToListIs ==
    ASSUME PageInv, NEW k \in Slots, tasks[k].at # "idle", tasks[k].sent = {}, tasks[k].at \in WritesAt,
           NEW after \in Thens, NEW ts, ts = ToList(k, after)
    PROVE  DOMAIN ts = Slots /\ \E t : Lists(k, after, t, ts)
<1>1. PICK o, arg : o = tasks[k] /\ arg = tasks[k].arg
  OBVIOUS
<1>2. /\ Asks(db, o.at, arg, DOMAIN o.got) /\ o.live \in BOOLEAN
      /\ o.live => Here # None /\ TabOf(o) = Here
      /\ ~o.live => Outlives(o)
  BY <1>1, RunsIs
<1>3. arg.tab \in PageTabs /\ arg.id \in Ids[arg.tab] \cup {None} /\ o.at # "choices" /\ o.at # "list"
  BY <1>1, <1>2, ArgIs DEF WritesAt
<1>4. o.live => arg.tab = Here
  BY <1>1, <1>2, <1>3 DEF TabOf
<1>5. PICK e : e = fetchList(arg.tab, after, arg.id)
  OBVIOUS
<1>6. /\ GoodTask(db, e) /\ e.at = "list" /\ e.arg.tab = arg.tab /\ e.arg.then = after /\ e.arg.id = arg.id
      /\ e.live /\ DOMAIN e.got = {} /\ e.sent = {getAll(arg.tab)}
  BY <1>3, <1>5, FetchesAre
<1>7. /\ e = [at |-> e.at, arg |-> e.arg, sent |-> e.sent, got |-> e.got, live |-> e.live]
      /\ e.sent \cap DOMAIN e.got = {} /\ Asks(db, e.at, e.arg, e.sent \cup DOMAIN e.got)
      /\ \A r \in DOMAIN e.got : GoodAnswer(db, r, e.got[r])
  BY <1>6, BusyIs
<1>8. PICK f : f = [e EXCEPT !.live = o.live]
  OBVIOUS
<1>9. /\ f = [at |-> f.at, arg |-> f.arg, sent |-> f.sent, got |-> f.got, live |-> f.live]
      /\ f.at = e.at /\ f.arg = e.arg /\ f.sent = e.sent /\ f.got = e.got /\ f.live = o.live
  BY <1>7, <1>8
<1>10. GoodTask(db, f)
  BY <1>2, <1>7, <1>9 DEF GoodTask
<1>11. PICK t : t = IF o.live \/ arg.tab = "authorizers" THEN f ELSE Idle
  OBVIOUS
<1>12. GoodTask(db, t)
  BY <1>10, <1>11, IdleIs
<1>13. Placed(ui, t)
  <2>1. CASE t = Idle
    BY <2>1, IdleIs DEF Placed
  <2>2. CASE t = f /\ (o.live \/ arg.tab = "authorizers")
    BY <1>4, <1>6, <1>9, <2>2 DEF Placed, TabOf, Outlives, Here
  <2>3. QED
    BY <1>11, <2>1, <2>2
<1>14. DOMAIN tasks = Slots
  BY ScreenIs DEF PageInv, GoodTasks
<1>15. ts = [tasks EXCEPT ![k] = t]
  BY <1>1, <1>5, <1>8, <1>11 DEF ToList, End
<1>16. DOMAIN ts = Slots /\ \A j \in Slots : ts[j] = IF j = k THEN t ELSE tasks[j]
  BY <1>14, <1>15, EndIs
<1>17. tasks[k].live => /\ t.at = "list" /\ t.arg.tab = Here /\ t.arg.then = after /\ t.arg.id = tasks[k].arg.id
                        /\ t.live /\ DOMAIN t.got = {} /\ t.sent = {getAll(Here)}
  BY <1>1, <1>4, <1>6, <1>9, <1>11
<1>18. QED
  BY <1>12, <1>13, <1>16, <1>17 DEF Lists

\* A record that was created is selected, and its details are fetched beside the list.
LEMMA CreatedReady ==
    ASSUME PageInv, ~hasty, ~failed, NEW k \in Slots, tasks[k].at = "save", tasks[k].sent = {}, Here # None,
           NEW r \in DOMAIN tasks[k].got, r[1] = "create", r[2] = Here, NEW v, v = ui.view,
           NEW s, s.tab = ui.tab, s.hasAuthorizers = ui.hasAuthorizers, Mounted(s) = Here,
           s.view.id = Data(tasks[k], r), s.view.confirm = v.confirm, s.view.id # None,
           NEW t, t.at = "list", t.arg.then = "save", t.arg.id = tasks[k].arg.id, t.live, DOMAIN t.got = {},
           t.sent = {getAll(Here)},
           NEW ts, \A j \in Slots : ts[j] = IF j = k THEN t ELSE tasks[j]
    PROVE  Ready(s, ts, due)
<1>1. /\ Single(db, v, tasks) /\ Relies(v, tasks[k]) /\ AnswersHold(db, tasks) /\ GateHolds(db, ui, tasks)
      /\ Counted(db, v, tasks, due) /\ StillSo(db, r, tasks[k].got[r])
  BY PatientTask
<1>2. v.id = None /\ tasks[k].arg.id = None /\ v.confirm = None
  BY <1>1 DEF Relies, Requested, Deletes
<1>3. ~Late(tasks[k])
  BY DEF Late
<1>4. \A j \in Slots : j # k => tasks[j].at = "idle"
  BY <1>1, <1>3, OthersAre DEF Beside, Requested
<1>5. Late(t) /\ Saves(t)
  BY <1>2 DEF Late, Saves
<1>6. s.view.id \in DOMAIN db.records[Here]
  BY <1>1 DEF StillSo, Data
<1>7. \A j \in Slots : ts[j].at # "idle" => j = k /\ ts[j] = t
  BY <1>4
<1>8. AnswersHold(db, ts)
  BY <1>1 DEF AnswersHold
<1>9. GateHolds(db, s, ts)
  BY <1>1 DEF GateHolds
<1>10. Counted(db, s.view, ts, due)
  <2>1. ~NewForm(s.view, ts)
    BY <1>5 DEF NewForm
  <2>2. \A j \in Slots : ~Creating(ts[j])
    BY <1>7 DEF Creating
  <2>3. QED
    BY <1>1, <2>1, <2>2 DEF Counted
<1>11. ListHolds(db, Here, s.view, ts)
  BY DEF ListHolds
<1>12. FetchReady(s, ts, due)
  BY <1>2, <1>5, <1>6, <1>7, <1>8, <1>9, <1>10, <1>11 DEF FetchReady
<1>13. ~Moves(s) /\ Selects(s)
  BY <1>2 DEF Moves, Selects
<1>14. QED
  BY <1>12, <1>13 DEF Ready

\* A record that was updated is fetched after the list.
LEMMA UpdatedReady ==
    ASSUME PageInv, ~hasty, ~failed, NEW k \in Slots, tasks[k].at = "save", tasks[k].sent = {}, Here # None,
           NEW r \in DOMAIN tasks[k].got, r[1] # "create", r[3] # None, NEW v, v = ui.view,
           NEW w, w.list = v.list, w.id = v.id, w.selected = v.selected, w.open = v.open, w.confirm = v.confirm, w.loading,
           NEW s, s.tab = ui.tab, s.hasAuthorizers = ui.hasAuthorizers, Mounted(s) = Here, s.view = w,
           NEW t, t.at = "list", t.arg.then = "save", t.arg.id = tasks[k].arg.id, t.live, DOMAIN t.got = {},
           t.sent = {getAll(Here)},
           NEW ts, \A j \in Slots : ts[j] = IF j = k THEN t ELSE tasks[j]
    PROVE  Ready(s, ts, due)
<1>1. /\ Single(db, v, tasks) /\ Relies(v, tasks[k]) /\ AnswersHold(db, tasks) /\ GateHolds(db, ui, tasks)
      /\ Counted(db, v, tasks, due) /\ DetailsHold(db, Here, v, tasks)
  BY PatientTask
<1>2. v.id # None /\ tasks[k].arg.id = v.id /\ v.confirm = None
  BY <1>1 DEF Relies, Requested, Deletes
<1>3. ~Late(tasks[k]) /\ ~Late(t) /\ Saves(t) /\ ~Deletes(t) /\ Loads(t)
  BY <1>2 DEF Late, Saves, Deletes, Loads
<1>4. ASSUME NEW j \in Slots, j # k, tasks[j].at # "idle"
      PROVE  /\ Relies(v, tasks[j]) /\ Late(tasks[j]) /\ tasks[j].at = "list" /\ tasks[j].live
  <2>1. Relies(v, tasks[j]) /\ Beside(db, tasks[k], tasks[j])
    BY <1>1, <1>3, <1>4, OthersAre
  <2>2. Late(tasks[j]) /\ tasks[j].at # "choices"
    BY <2>1 DEF Beside
  <2>3. QED
    BY <2>1, <2>2 DEF Late, Relies
<1>5. Relies(w, t)
  BY <1>2, <1>3 DEF Relies
<1>6. ASSUME NEW j \in Slots, j # k, tasks[j].at # "idle"
      PROVE  Relies(w, tasks[j]) /\ Beside(db, t, tasks[j])
  <2>1. Relies(w, tasks[j])
    BY <1>4, <1>6 DEF Relies
  <2>2. Beside(db, t, tasks[j])
    BY <1>3, <1>4, <1>6 DEF Beside
  <2>3. QED
    BY <2>1, <2>2
<1>7. Single(db, w, ts)
  BY <1>1, <1>5, <1>6, NextSingle
<1>8. AnswersHold(db, ts)
  BY <1>1 DEF AnswersHold
<1>9. GateHolds(db, s, ts)
  BY <1>1 DEF GateHolds
<1>10. Counted(db, w, ts, due)
  <2>1. ~NewForm(w, ts)
    BY <1>3 DEF NewForm
  <2>2. \A j \in Slots : ~Creating(ts[j])
    BY <1>4 DEF Creating
  <2>3. QED
    BY <1>1, <2>1, <2>2 DEF Counted
<1>11. ListHolds(db, Here, w, ts)
  BY DEF ListHolds
<1>12. DetailsHold(db, Here, w, ts)
  <2>1. ~Deleted(tasks)
    BY <1>4 DEF Deleted
  <2>2. v.id \in DOMAIN db.records[Here]
    BY <1>1, <1>2, <2>1 DEF DetailsHold
  <2>3. \E j \in Slots : Loads(ts[j])
    BY <1>3
  <2>4. QED
    BY <1>2, <2>2, <2>3 DEF DetailsHold
<1>13. Settled(db, s, ts, due)
  BY <1>7, <1>8, <1>9, <1>10, <1>11, <1>12 DEF Settled
<1>14. ~Moves(s) /\ ~Selects(s)
  BY DEF Moves, Selects
<1>15. QED
  BY <1>13, <1>14 DEF Ready

LEMMA SaveAnsweredKeeps ==
    ASSUME PageInv, NEW k \in Slots, SaveAnswered(k)
    PROVE  PageInv'
<1>1. PICK v : v = ui.view
  OBVIOUS
<1>2. PICK o : o = tasks[k]
  OBVIOUS
<1>3. o.at = "save" /\ o.sent = {} /\ ~Threw(o) /\ Stay
  BY <1>2 DEF SaveAnswered, Answered
<1>4. PICK r \in DOMAIN o.got :
         Render(Show(k, [ui EXCEPT !.view = [View EXCEPT !.loading = TRUE,
                            !.id = IF r[1] = "create" THEN Data(tasks[k], r) ELSE @]]), url, ToList(k, "save"))
  BY <1>2 DEF SaveAnswered
<1>5. PICK i : i = IF r[1] = "create" THEN Data(o, r) ELSE v.id
  OBVIOUS
<1>6. PICK w : w = [v EXCEPT !.loading = TRUE, !.id = i]
  OBVIOUS
<1>7. PICK s : s = Shown(k, w)
  OBVIOUS
<1>8. PICK after, ts : after = "save" /\ ts = ToList(k, after)
  OBVIOUS
<1>9. Render(s, url, ts)
  <2>1. PICK x : x = Show(k, [ui EXCEPT !.view = [View EXCEPT !.loading = TRUE,
                                  !.id = IF r[1] = "create" THEN Data(tasks[k], r) ELSE @]])
    OBVIOUS
  <2>2. x = s
    BY <1>1, <1>2, <1>5, <1>6, <1>7, <2>1 DEF Show, Shown, View
  <2>3. Render(x, url, ts)
    BY <1>4, <1>8, <2>1
  <2>4. QED
    BY <2>2, <2>3, Zenon
<1>10. Shaped(v) /\ (Here # None => GoodView(db, Here, v)) /\ Page(ui)
  BY <1>1, ScreenIs, ViewedIs DEF PageInv
<1>11. /\ w.list = v.list /\ w.choices = v.choices /\ w.id = i /\ w.selected = v.selected /\ w.loading = TRUE
       /\ w.open = v.open /\ w.form = v.form /\ w.temp = v.temp /\ w.confirm = v.confirm /\ Shaped(w)
  BY <1>6, <1>10 DEF Shaped
<1>12. /\ Asks(db, o.at, o.arg, DOMAIN o.got) /\ Tells(db, r, Data(o, r)) /\ o.live \in BOOLEAN
       /\ o.live => Here # None /\ TabOf(o) = Here
  BY <1>2, <1>3, <1>4, RunsIs
<1>13. /\ o.arg.tab \in PageTabs
       /\ \E x \in Texts : \/ DOMAIN o.got = {create(o.arg.tab, x)}
                           \/ \E j \in Ids[o.arg.tab] : DOMAIN o.got = {update(o.arg.tab, j, x)}
  BY <1>3, <1>12, ArgIs
<1>14. /\ r[1] = "create" => r[2] = o.arg.tab /\ i \in Ids[o.arg.tab]
       /\ r[1] # "create" => r[3] # None
  BY <1>5, <1>12, <1>13, WordIs, TabsAre DEF Tells
<1>15. o.live => o.arg.tab = Here
  BY <1>3, <1>12 DEF TabOf
<1>16. Here # None /\ o.live => GoodView(db, Here, w)
  <2>1. ASSUME Here # None, o.live PROVE i \in Ids[Here] \cup {None}
    BY <1>5, <1>10, <1>14, <1>15, <2>1, FieldsAre
  <2>2. QED
    BY <1>10, <1>11, <2>1, FieldsAre
<1>18. i = None /\ v.id # None => v.selected = None
  BY <1>5, <1>13, <1>14, TabsAre
<1>19. after \in Thens /\ o.at \in WritesAt /\ o.at # "idle"
  BY <1>3, <1>8 DEF Thens, WritesAt
<1>20. DOMAIN ts = Slots /\ \E t : Lists(k, after, t, ts)
  BY <1>2, <1>3, <1>8, <1>19, ToListIs
<1>21. PICK t : /\ \A j \in Slots : ts[j] = IF j = k THEN t ELSE tasks[j]
                /\ GoodTask(db, t) /\ Placed(ui, t)
                /\ o.live => /\ t.at = "list" /\ t.arg.tab = Here /\ t.arg.then = after /\ t.arg.id = o.arg.id
                             /\ t.live /\ DOMAIN t.got = {} /\ t.sent = {getAll(Here)}
  BY <1>2, <1>20 DEF Lists
<1>22. ASSUME ~hasty, ~failed PROVE Ready(s, ts, due)
  <2>1. o.live /\ Here # None
    BY <1>2, <1>12, <1>19, <1>22, PatientTask
  <2>2. s.view = w /\ Mounted(s) = Here /\ s.tab = ui.tab /\ s.hasAuthorizers = ui.hasAuthorizers
    BY <1>2, <1>7, <1>10, <2>1, WithView DEF Shown
  <2>3. CASE r[1] = "create"
    <3>1. i = Data(tasks[k], r) /\ r[2] = Here /\ i # None
      BY <1>2, <1>5, <1>13, <1>14, <1>15, <2>1, <2>3, TabsAre
    <3>2. QED
      BY <1>1, <1>2, <1>3, <1>4, <1>8, <1>11, <1>21, <1>22, <2>1, <2>2, <2>3, <3>1, CreatedReady
  <2>4. CASE r[1] # "create"
    <3>1. i = v.id /\ r[3] # None
      BY <1>5, <1>14, <2>4
    <3>2. QED
      BY <1>1, <1>2, <1>3, <1>4, <1>8, <1>11, <1>21, <1>22, <2>1, <2>2, <2>4, <3>1, UpdatedReady
  <2>5. QED
    BY <2>3, <2>4
<1>23. w.id = None /\ ui.view.id # None => w.selected = None
  BY <1>1, <1>11, <1>18
<1>24. tasks[k].live /\ w.loading => t.at = "list" /\ t.live
  BY <1>2, <1>21
<1>25. QED
  BY <1>2, <1>3, <1>7, <1>9, <1>16, <1>19, <1>20, <1>21, <1>22, <1>23, <1>24, ShownKeeps

\* A record that was deleted is selected no more.
LEMMA DeletedReady ==
    ASSUME PageInv, ~hasty, ~failed, NEW k \in Slots, tasks[k].at = "delete", tasks[k].sent = {}, Here # None,
           NEW v, v = ui.view,
           NEW w, w.list = v.list, w.id = None, w.selected = None, w.open = v.open, w.confirm = v.confirm, w.loading,
           NEW s, s.tab = ui.tab, s.hasAuthorizers = ui.hasAuthorizers, Mounted(s) = Here, s.view = w,
           NEW t, t.at = "list", t.arg.then = "delete", t.live, DOMAIN t.got = {}, t.sent = {getAll(Here)},
           NEW ts, \A j \in Slots : ts[j] = IF j = k THEN t ELSE tasks[j]
    PROVE  Ready(s, ts, due)
<1>1. /\ Single(db, v, tasks) /\ Relies(v, tasks[k]) /\ AnswersHold(db, tasks) /\ GateHolds(db, ui, tasks)
      /\ Counted(db, v, tasks, due)
  BY PatientTask
<1>2. ~Late(tasks[k]) /\ Deletes(tasks[k]) /\ ~Saves(tasks[k])
  BY DEF Late, Deletes, Saves
<1>3. \A j \in Slots : j # k => tasks[j].at = "idle"
  BY <1>1, <1>2, OthersAre DEF Beside, Late
<1>4. ~v.open
  BY <1>1, <1>2 DEF Relies
<1>5. ~Late(t) /\ Deletes(t)
  BY DEF Late, Deletes
<1>6. Relies(w, t)
  BY <1>4, <1>5 DEF Relies
<1>7. Single(db, w, ts)
  BY <1>1, <1>3, <1>6, NextSingle
<1>8. AnswersHold(db, ts)
  BY <1>1 DEF AnswersHold
<1>9. GateHolds(db, s, ts)
  BY <1>1 DEF GateHolds
<1>10. Counted(db, w, ts, due)
  <2>1. \A j \in Slots : ~Creating(ts[j])
    BY <1>3 DEF Creating
  <2>2. QED
    BY <1>1, <1>4, <2>1 DEF Counted, NewForm
<1>11. ListHolds(db, Here, w, ts)
  BY DEF ListHolds
<1>12. DetailsHold(db, Here, w, ts)
  BY <1>4, <1>5 DEF DetailsHold
<1>13. Settled(db, s, ts, due)
  BY <1>7, <1>8, <1>9, <1>10, <1>11, <1>12 DEF Settled
<1>14. ~Moves(s) /\ ~Selects(s)
  BY DEF Moves, Selects
<1>15. QED
  BY <1>13, <1>14 DEF Ready

LEMMA DeleteAnsweredKeeps ==
    ASSUME PageInv, NEW k \in Slots, DeleteAnswered(k)
    PROVE  PageInv'
<1>1. PICK v, o : v = ui.view /\ o = tasks[k]
  OBVIOUS
<1>2. o.at = "delete" /\ o.sent = {} /\ ~Threw(o) /\ Stay
  BY <1>1 DEF DeleteAnswered, Answered
<1>3. PICK w : w = [v EXCEPT !.loading = TRUE, !.id = None, !.selected = None]
  OBVIOUS
<1>4. PICK s : s = Shown(k, w)
  OBVIOUS
<1>5. PICK after, ts : after = "delete" /\ ts = ToList(k, after)
  OBVIOUS
<1>6. Render(s, url, ts)
  <2>1. PICK x : x = Show(k, [ui EXCEPT !.view = [View EXCEPT !.loading = TRUE, !.id = None, !.selected = None]])
    OBVIOUS
  <2>2. x = s
    BY <1>1, <1>3, <1>4, <2>1 DEF Show, Shown, View
  <2>3. Render(x, url, ts)
    BY <1>5, <2>1 DEF DeleteAnswered
  <2>4. QED
    BY <2>2, <2>3, Zenon
<1>7. Shaped(v) /\ (Here # None => GoodView(db, Here, v)) /\ Page(ui)
  BY <1>1, ScreenIs, ViewedIs DEF PageInv
<1>8. /\ w.list = v.list /\ w.choices = v.choices /\ w.id = None /\ w.selected = None /\ w.loading = TRUE
      /\ w.open = v.open /\ w.form = v.form /\ w.temp = v.temp /\ w.confirm = v.confirm /\ Shaped(w)
  BY <1>3, <1>7 DEF Shaped
<1>9. Here # None => GoodView(db, Here, w)
  BY <1>7, <1>8, FieldsAre
<1>10. after \in Thens /\ o.at \in WritesAt /\ o.at # "idle"
  BY <1>2, <1>5 DEF Thens, WritesAt
<1>11. DOMAIN ts = Slots /\ \E t : Lists(k, after, t, ts)
  BY <1>1, <1>2, <1>5, <1>10, ToListIs
<1>12. PICK t : /\ \A j \in Slots : ts[j] = IF j = k THEN t ELSE tasks[j]
                /\ GoodTask(db, t) /\ Placed(ui, t)
                /\ o.live => /\ t.at = "list" /\ t.arg.tab = Here /\ t.arg.then = after /\ t.arg.id = o.arg.id
                             /\ t.live /\ DOMAIN t.got = {} /\ t.sent = {getAll(Here)}
  BY <1>1, <1>11 DEF Lists
<1>13. ASSUME ~hasty, ~failed PROVE Ready(s, ts, due)
  <2>1. o.live
    BY <1>1, <1>10, <1>13, PatientTask
  <2>2. Here # None
    BY <1>1, <1>2, <1>10, <2>1, RunsIs
  <2>3. s.view = w /\ Mounted(s) = Here /\ s.tab = ui.tab /\ s.hasAuthorizers = ui.hasAuthorizers
    BY <1>1, <1>4, <1>7, <2>1, WithView DEF Shown
  <2>4. QED
    BY <1>1, <1>2, <1>5, <1>8, <1>12, <1>13, <2>1, <2>2, <2>3, DeletedReady
<1>14. w.id = None /\ ui.view.id # None => w.selected = None
  BY <1>8
<1>15. tasks[k].live /\ w.loading => t.at = "list" /\ t.live
  BY <1>1, <1>12
<1>16. QED
  BY <1>1, <1>2, <1>4, <1>6, <1>9, <1>10, <1>11, <1>12, <1>13, <1>14, <1>15, ShownKeeps

\* The list that the handler in slot k has fetched, and what the page takes from it.
LEMMA TheListIs ==
    ASSUME PageInv, NEW k \in Slots, tasks[k].at = "list", tasks[k].sent = {}
    PROVE  /\ tasks[k].arg.tab \in PageTabs /\ tasks[k].arg.then \in Thens
           /\ tasks[k].arg.id \in Ids[tasks[k].arg.tab] \cup {None} /\ Told(k) \in BOOLEAN
           /\ tasks[k].live \in BOOLEAN
           /\ tasks[k].live => tasks[k].arg.tab = Here /\ Here \in PageTabs
           /\ ~Threw(tasks[k]) =>
                 Data(tasks[k], getAll(tasks[k].arg.tab)) \in Partial(Ids[tasks[k].arg.tab], Texts)
           /\ ~hasty /\ ~failed =>
                 /\ tasks[k].live /\ ~Threw(tasks[k]) /\ Data(tasks[k], getAll(Here)) = db.records[Here]
                 /\ Here = "authorizers" => Told(k) = Any(db)
                 /\ Here # "authorizers" => Told(k) = ui.hasAuthorizers
<1>1. PICK o, arg : o = tasks[k] /\ arg = tasks[k].arg
  OBVIOUS
<1>2. /\ Asks(db, o.at, arg, DOMAIN o.got) /\ o.live \in BOOLEAN
      /\ o.live => Here # None /\ TabOf(o) = Here
      /\ ~Threw(o) => \A r \in DOMAIN o.got : Tells(db, r, Data(o, r))
  BY <1>1, RunsIs
<1>3. arg.tab \in PageTabs /\ arg.then \in Thens /\ arg.id \in Ids[arg.tab] \cup {None} /\ DOMAIN o.got = {getAll(arg.tab)}
  BY <1>1, <1>2, ArgIs
<1>4. o.live => arg.tab = Here /\ Here \in PageTabs
  BY <1>1, <1>2, <1>3 DEF TabOf
<1>5. ~Threw(o) => Data(o, getAll(arg.tab)) \in Partial(Ids[arg.tab], Texts)
  BY <1>2, <1>3, WordIs DEF Tells
<1>6. Page(ui)
  BY ScreenIs DEF PageInv
<1>7. Told(k) \in BOOLEAN
  BY <1>1, <1>6 DEF Told, Page
<1>8. ASSUME ~hasty, ~failed
      PROVE  /\ o.live /\ ~Threw(o) /\ Data(o, getAll(Here)) = db.records[Here]
             /\ Here = "authorizers" => Told(k) = Any(db)
             /\ Here # "authorizers" => Told(k) = ui.hasAuthorizers
  <2>1. o.live /\ ~Threw(o) /\ \A r \in DOMAIN o.got : StillSo(db, r, o.got[r])
    BY <1>1, <1>8, PatientTask
  <2>2. Data(o, getAll(Here)) = db.records[Here]
    BY <1>3, <1>4, <2>1, WordIs DEF StillSo, Data
  <2>3. Here = "authorizers" => Told(k) = Any(db)
    BY <1>1, <1>4, <2>1, <2>2 DEF Told, Any
  <2>4. Here # "authorizers" => Told(k) = ui.hasAuthorizers
    BY <1>1, <1>4, <2>1 DEF Told
  <2>5. QED
    BY <2>1, <2>2, <2>3, <2>4
<1>9. QED
  BY <1>1, <1>2, <1>3, <1>4, <1>5, <1>7, <1>8

\* The tab with that list.
WithList(v, x) ==
    /\ GoodView(db, Here, x) /\ Shaped(x) /\ x.loading = FALSE
    /\ x.choices = v.choices /\ x.id = v.id /\ x.selected = v.selected
    /\ x.open = v.open /\ x.form = v.form /\ x.temp = v.temp /\ x.confirm = v.confirm
    /\ ~hasty /\ ~failed => x.list = db.records[Here]
LEMMA ListedIs ==
    ASSUME PageInv, NEW k \in Slots, tasks[k].at = "list", tasks[k].sent = {}, tasks[k].live,
           NEW v, v = ui.view, NEW x, x = Listed(k)
    PROVE  WithList(v, x)
<1>1. PICK l : l = IF Threw(tasks[k]) THEN v.list ELSE Data(tasks[k], getAll(tasks[k].arg.tab))
  OBVIOUS
<1>2. tasks[k].arg.tab = Here /\ Here \in PageTabs
  BY TheListIs
<1>3. Here # None
  BY <1>2, TabsAre
<1>4. GoodView(db, Here, v)
  BY <1>3, ScreenIs DEF PageInv
<1>5. l \in Partial(Ids[Here], Texts)
  BY <1>1, <1>2, <1>4, FieldsAre, TheListIs
<1>6. x = [v EXCEPT !.loading = FALSE, !.list = l]
  BY <1>1 DEF Listed, View
<1>7. /\ Shaped(x) /\ x.loading = FALSE /\ x.list = l
      /\ x.choices = v.choices /\ x.id = v.id /\ x.selected = v.selected
      /\ x.open = v.open /\ x.form = v.form /\ x.temp = v.temp /\ x.confirm = v.confirm
  BY <1>4, <1>6, FieldsAre DEF Shaped
<1>8. GoodView(db, Here, x)
  BY <1>4, <1>5, <1>7, FieldsAre
<1>9. ~hasty /\ ~failed => x.list = db.records[Here]
  BY <1>1, <1>2, <1>7, TheListIs
<1>10. QED
  BY <1>7, <1>8, <1>9 DEF WithList

\* The page when the handler in slot k shows the view w and the page has heard of the list.
Heard(k, w) == [Shown(k, w) EXCEPT !.hasAuthorizers = Told(k)]
LEMMA HeardIs ==
    ASSUME Page(ui), NEW k, Told(k) \in BOOLEAN, tasks[k].live \in BOOLEAN, NEW w, NEW s, s = Heard(k, w)
    PROVE  /\ Page(s) /\ s.tab = ui.tab /\ s.hasAuthorizers = Told(k)
           /\ tasks[k].live => s.view = w
           /\ ~tasks[k].live => s.view = ui.view
<1>1. PICK x : x = Shown(k, w)
  OBVIOUS
<1>2. Page(x) /\ x.tab = ui.tab /\ (tasks[k].live => x.view = w) /\ (~tasks[k].live => x.view = ui.view)
  BY <1>1 DEF Shown, Page
<1>3. PICK b \in BOOLEAN : b = Told(k)
  OBVIOUS
<1>4. s = [x EXCEPT !.hasAuthorizers = b]
  BY <1>1, <1>3 DEF Heard
<1>5. Page(s) /\ s.tab = x.tab /\ s.hasAuthorizers = b /\ s.view = x.view
  BY <1>2, <1>4 DEF Page
<1>6. QED
  BY <1>2, <1>3, <1>5

\* The tab that has been told stays mounted.
LEMMA ToldStays ==
    ASSUME PageInv, ~hasty, ~failed, NEW k \in Slots, tasks[k].at = "list", tasks[k].sent = {},
           NEW s, s.tab = ui.tab, s.hasAuthorizers = Told(k)
    PROVE  Mounted(s) = Here /\ \A ts : GateHolds(db, s, ts)
<1>1. Page(ui) /\ Here \in PageTabs /\ Here = ui.tab
  BY ScreenIs, TheListIs, TabsAre DEF PageInv
<1>2. /\ Here = "authorizers" => Told(k) = Any(db)
      /\ Here # "authorizers" => Told(k) = ui.hasAuthorizers
  BY TheListIs
<1>3. GateHolds(db, ui, tasks)
  BY PatientTask
<1>4. Mounted(s) = Here
  BY <1>1, <1>2, TabsAre DEF Mounted, Here
<1>5. s.tab = "connections" /\ s.hasAuthorizers => Any(db)
  BY <1>1, <1>2, <1>3, TabsAre DEF GateHolds
<1>6. s.tab = "authorizers" => s.hasAuthorizers = Any(db)
  BY <1>1, <1>2
<1>7. QED
  BY <1>4, <1>5, <1>6 DEF GateHolds

\* A list that ends leaves a tab that is settled.
ListShown(k, v, w) ==
    /\ w.list = db.records[Here] /\ w.id = v.id /\ w.selected = v.selected
    /\ tasks[k].arg.then = "save" \/ w.open = v.open
    /\ tasks[k].arg.then # "save" \/ w.open = FALSE
    /\ tasks[k].arg.then = "delete" \/ w.confirm = v.confirm
    /\ tasks[k].arg.then # "delete" \/ w.confirm = None
LEMMA ListedReady ==
    ASSUME PageInv, ~hasty, ~failed, NEW k \in Slots, tasks[k].at = "list", tasks[k].sent = {}, ~ToDetails(k),
           NEW v, v = ui.view,
           NEW w, ListShown(k, v, w),
           NEW s, s.tab = ui.tab, s.hasAuthorizers = Told(k), s.view = w,
           NEW t, t = Idle, NEW ts, \A j \in Slots : ts[j] = IF j = k THEN t ELSE tasks[j]
    PROVE  Ready(s, ts, due)
<1>0. /\ w.list = db.records[Here] /\ w.id = v.id /\ w.selected = v.selected
      /\ tasks[k].arg.then = "save" \/ w.open = v.open
      /\ tasks[k].arg.then # "save" \/ w.open = FALSE
      /\ tasks[k].arg.then = "delete" \/ w.confirm = v.confirm
      /\ tasks[k].arg.then # "delete" \/ w.confirm = None
  BY DEF ListShown
<1>1. /\ Single(db, v, tasks) /\ Relies(v, tasks[k]) /\ AnswersHold(db, tasks)
      /\ Counted(db, v, tasks, due) /\ tasks[k].live
  BY PatientTask
<1>2. Here \in PageTabs /\ tasks[k].arg.then \in Thens
  BY <1>1, TheListIs
<1>3. DetailsHold(db, Here, v, tasks)
  BY <1>2, PatientTask, TabsAre
<1>4. t.at = "idle" /\ DOMAIN t.got = {} /\ t.sent = {}
  BY IdleIs
<1>5. ~w.open /\ w.confirm = None
  <2>1. CASE tasks[k].arg.then = "nothing"
    BY <1>0, <1>1, <2>1 DEF Relies, Deletes
  <2>2. CASE tasks[k].arg.then = "save"
    BY <1>0, <1>1, <2>2 DEF Relies, Deletes
  <2>3. CASE tasks[k].arg.then = "delete"
    BY <1>0, <1>1, <2>3 DEF Relies, Deletes
  <2>4. QED
    BY <1>2, <2>1, <2>2, <2>3 DEF Thens
<1>6. ASSUME NEW j \in Slots, j # k, tasks[j].at # "idle"
      PROVE  Relies(w, tasks[j]) /\ tasks[j].at # "delete"
  <2>1. /\ Relies(v, tasks[j])
        /\ IF Late(tasks[k]) THEN Beside(db, tasks[j], tasks[k]) ELSE Beside(db, tasks[k], tasks[j])
    BY <1>1, <1>6, OthersAre
  <2>2. Relies(w, tasks[j])
    BY <1>0, <1>5, <2>1 DEF Relies
  <2>3. tasks[j].at # "delete"
    BY <2>1 DEF Beside, Late, Saves
  <2>4. QED
    BY <2>2, <2>3
<1>7. Single(db, w, ts)
  BY <1>1, <1>4, <1>6, NextSingle
<1>8. AnswersHold(db, ts)
  BY <1>1, <1>4 DEF AnswersHold
<1>9. Mounted(s) = Here /\ GateHolds(db, s, ts)
  BY ToldStays
<1>10. Counted(db, w, ts, due)
  <2>1. ASSUME NEW j \in Slots, Creating(ts[j]) PROVE Creating(tasks[j])
    BY <1>4, <2>1 DEF Creating
  <2>2. QED
    BY <1>1, <1>5, <2>1 DEF Counted, NewForm
<1>11. ListHolds(db, Here, w, ts)
  BY <1>0 DEF ListHolds
<1>12. DetailsHold(db, Here, w, ts)
  <2>1. ~Deleted(tasks)
    BY <1>6 DEF Deleted
  <2>2. ~Loads(tasks[k])
    BY <1>1 DEF Loads, ToDetails
  <2>3. ASSUME NEW j \in Slots, Loads(tasks[j]) PROVE Loads(ts[j])
    BY <2>2, <2>3
  <2>4. QED
    BY <1>0, <1>3, <1>5, <2>1, <2>3 DEF DetailsHold
<1>13. Settled(db, s, ts, due)
  BY <1>7, <1>8, <1>9, <1>10, <1>11, <1>12 DEF Settled
<1>14. ~Moves(s) /\ ~Selects(s)
  BY <1>0, <1>9 DEF Moves, Selects
<1>15. QED
  BY <1>13, <1>14 DEF Ready

LEMMA ListFetchedKeeps ==
    ASSUME PageInv, NEW k \in Slots, ListFetched(k)
    PROVE  PageInv'
<1>1. PICK v, o : v = ui.view /\ o = tasks[k]
  OBVIOUS
<1>2. o.at = "list" /\ o.sent = {} /\ ~ToDetails(k) /\ Stay
  BY <1>1 DEF ListFetched, Answered
<1>3. PICK x : x = Listed(k)
  OBVIOUS
<1>4. PICK w : w = CASE o.arg.then = "save" -> Closed(x)
                     [] o.arg.then = "delete" -> [x EXCEPT !.confirm = None]
                     [] OTHER -> x
  OBVIOUS
<1>5. PICK s : s = Heard(k, w)
  OBVIOUS
<1>6. PICK ts, t : ts = End(tasks, k) /\ t = Idle
  OBVIOUS
<1>7. Render(s, url, ts)
  <2>1. PICK z : z = CASE o.arg.then = "save" -> Closed(Listed(k))
                       [] o.arg.then = "delete" -> [Listed(k) EXCEPT !.confirm = None]
                       [] OTHER -> Listed(k)
    OBVIOUS
  <2>2. PICK y : y = [Show(k, [ui EXCEPT !.view = z]) EXCEPT !.hasAuthorizers = Told(k)]
    OBVIOUS
  <2>3. Render(y, url, ts)
    BY <1>1, <1>6, <2>1, <2>2 DEF ListFetched
  <2>4. z = w
    BY <1>3, <1>4, <2>1
  <2>5. y = s
    BY <1>5, <2>2, <2>4 DEF Heard, Show, Shown
  <2>6. QED
    BY <2>3, <2>5, Zenon
<1>8. Page(ui) /\ Viewed(ui.view) /\ DOMAIN tasks = Slots
  BY ScreenIs DEF PageInv, GoodTasks
<1>9. /\ o.live \in BOOLEAN /\ Told(k) \in BOOLEAN /\ (o.live => Here # None) /\ o.arg.then \in Thens
  BY <1>1, <1>2, TheListIs, TabsAre
<1>10. /\ Page(s) /\ s.tab = ui.tab /\ s.hasAuthorizers = Told(k)
       /\ o.live => s.view = w
       /\ ~o.live => s.view = ui.view
  BY <1>1, <1>5, <1>8, <1>9, HeardIs
<1>11. ASSUME o.live
       PROVE  /\ GoodView(db, Here, w) /\ w.loading = FALSE /\ w.list = x.list /\ w.id = v.id /\ w.selected = v.selected
              /\ o.arg.then = "save" \/ w.open = v.open
              /\ o.arg.then # "save" \/ w.open = FALSE
              /\ o.arg.then = "delete" \/ w.confirm = v.confirm
              /\ o.arg.then # "delete" \/ w.confirm = None
  <2>1. /\ GoodView(db, Here, x) /\ Shaped(x) /\ x.loading = FALSE
        /\ x.choices = v.choices /\ x.id = v.id /\ x.selected = v.selected
        /\ x.open = v.open /\ x.form = v.form /\ x.temp = v.temp /\ x.confirm = v.confirm
    <3>1. tasks[k].at = "list" /\ tasks[k].sent = {} /\ tasks[k].live
      BY <1>1, <1>2, <1>11
    <3>2. WithList(v, x)
      BY <1>1, <1>3, <3>1, ListedIs
    <3>3. QED
      BY <3>2 DEF WithList
  <2>2. CASE o.arg.then = "nothing"
    BY <1>4, <2>1, <2>2
  <2>3. CASE o.arg.then = "save"
    <3>1. w = [x EXCEPT !.open = FALSE, !.temp = FALSE]
      BY <1>4, <2>3 DEF Closed
    <3>2. /\ w.list = x.list /\ w.choices = x.choices /\ w.id = x.id /\ w.selected = x.selected /\ w.loading = FALSE
          /\ w.open = FALSE /\ w.form = x.form /\ w.temp = FALSE /\ w.confirm = x.confirm /\ Shaped(w)
      BY <2>1, <3>1 DEF Shaped
    <3>3. GoodView(db, Here, w)
      BY <2>1, <3>2, FieldsAre
    <3>4. QED
      BY <2>1, <2>3, <3>2, <3>3
  <2>4. CASE o.arg.then = "delete"
    <3>1. w = [x EXCEPT !.confirm = None]
      BY <1>4, <2>4
    <3>2. /\ w.list = x.list /\ w.choices = x.choices /\ w.id = x.id /\ w.selected = x.selected /\ w.loading = FALSE
          /\ w.open = x.open /\ w.form = x.form /\ w.temp = x.temp /\ w.confirm = None /\ Shaped(w)
      BY <2>1, <3>1 DEF Shaped
    <3>3. GoodView(db, Here, w)
      BY <2>1, <3>2, FieldsAre
    <3>4. QED
      BY <2>1, <2>4, <3>2, <3>3
  <2>5. QED
    BY <1>9, <2>2, <2>3, <2>4 DEF Thens
<1>12. Viewed(s.view)
  BY <1>1, <1>8, <1>9, <1>10, <1>11 DEF Viewed
<1>13. ts = [tasks EXCEPT ![k] = t]
  BY <1>6 DEF End
<1>14. DOMAIN ts = Slots /\ \A j \in Slots : ts[j] = IF j = k THEN t ELSE tasks[j]
  BY <1>8, <1>13, EndIs
<1>15. GoodTask(db, t) /\ Placed(ui, t)
  BY <1>6, IdleIs DEF Placed
<1>16. s.view.loading => Turns(ts)
  <2>1. CASE o.live
    BY <1>10, <1>11, <2>1
  <2>2. CASE ~o.live
    BY <1>1, <1>10, <1>14, <2>2, SpinsOn
  <2>3. QED
    BY <2>1, <2>2
<1>17. ASSUME ~hasty, ~failed PROVE Ready(s, ts, due)
  <2>1. o.live
    BY <1>1, <1>2, <1>17, TheListIs
  <2>2. w.list = db.records[Here]
    <3>1. tasks[k].at = "list" /\ tasks[k].sent = {} /\ tasks[k].live
      BY <1>1, <1>2, <2>1
    <3>2. WithList(v, x)
      BY <1>1, <1>3, <3>1, ListedIs
    <3>3. QED
      BY <1>11, <1>17, <2>1, <3>2 DEF WithList
  <2>3. /\ tasks[k].at = "list" /\ tasks[k].sent = {}
        /\ w.id = v.id /\ w.selected = v.selected
        /\ tasks[k].arg.then = "save" \/ w.open = v.open
        /\ tasks[k].arg.then # "save" \/ w.open = FALSE
        /\ tasks[k].arg.then = "delete" \/ w.confirm = v.confirm
        /\ tasks[k].arg.then # "delete" \/ w.confirm = None
    BY <1>1, <1>2, <1>11, <2>1
  <2>4. s.tab = ui.tab /\ s.hasAuthorizers = Told(k) /\ s.view = w
    BY <1>10, <2>1
  <2>5. ListShown(k, v, w)
    BY <2>2, <2>3 DEF ListShown
  <2>6. QED
    BY <1>1, <1>2, <1>6, <1>14, <1>17, <2>3, <2>4, <2>5, ListedReady
<1>18. QED
  BY <1>2, <1>7, <1>10, <1>12, <1>14, <1>15, <1>16, <1>17, HandlerKeeps

\* A list that was fetched after a save goes on with the details of the record.
LEMMA ListedAgainReady ==
    ASSUME PageInv, ~hasty, ~failed, NEW k \in Slots, tasks[k].at = "list", tasks[k].sent = {}, ToDetails(k),
           NEW v, v = ui.view,
           NEW w, w.list = db.records[Here], w.id = v.id, w.selected = v.selected, w.open = v.open, w.confirm = v.confirm,
           w.loading, NEW s, s.tab = ui.tab, s.hasAuthorizers = Told(k), s.view = w,
           NEW t, t.at = "details", t.arg.then = "save", t.arg.id = tasks[k].arg.id, t.live, DOMAIN t.got = {},
           NEW r, r[1] = "getById", t.sent = {r},
           NEW ts, \A j \in Slots : ts[j] = IF j = k THEN t ELSE tasks[j]
    PROVE  Ready(s, ts, due)
<1>1. /\ Single(db, v, tasks) /\ Relies(v, tasks[k]) /\ AnswersHold(db, tasks)
      /\ Counted(db, v, tasks, due) /\ tasks[k].live
  BY PatientTask
<1>2. Here \in PageTabs
  BY <1>1, TheListIs
<1>3. DetailsHold(db, Here, v, tasks)
  BY <1>2, PatientTask, TabsAre
<1>4. tasks[k].arg.then = "save" /\ tasks[k].arg.id # None /\ tasks[k].arg.id = v.id /\ ~Late(tasks[k])
  BY <1>1 DEF ToDetails, Relies, Late
<1>5. v.confirm = None
  BY <1>1, <1>4 DEF Relies, Deletes
<1>6. ~Late(t) /\ ~Deletes(t) /\ Saves(t) /\ Loads(t)
  BY DEF Late, Deletes, Saves, Loads
<1>7. Relies(w, t)
  BY <1>4, <1>5, <1>6 DEF Relies
<1>8. ASSUME NEW j \in Slots, j # k, tasks[j].at # "idle"
      PROVE  Relies(w, tasks[j]) /\ Beside(db, t, tasks[j]) /\ tasks[j].at = "list"
  <2>1. Relies(v, tasks[j]) /\ Beside(db, tasks[k], tasks[j])
    BY <1>1, <1>4, <1>8, OthersAre
  <2>2. Late(tasks[j]) /\ tasks[j].at = "list"
    BY <1>4, <2>1 DEF Beside, Late
  <2>3. Relies(w, tasks[j])
    BY <1>5, <2>1 DEF Relies
  <2>4. QED
    BY <1>6, <2>2, <2>3 DEF Beside
<1>9. Single(db, w, ts)
  BY <1>1, <1>7, <1>8, NextSingle
<1>10. AnswersHold(db, ts)
  BY <1>1 DEF AnswersHold
<1>11. Mounted(s) = Here /\ GateHolds(db, s, ts)
  BY ToldStays
<1>12. Counted(db, w, ts, due)
  <2>1. ~NewForm(w, ts)
    BY <1>6 DEF NewForm
  <2>2. \A j \in Slots : ~Creating(ts[j])
    BY <1>8 DEF Creating
  <2>3. QED
    BY <1>1, <2>1, <2>2 DEF Counted
<1>13. ListHolds(db, Here, w, ts)
  BY DEF ListHolds
<1>14. DetailsHold(db, Here, w, ts)
  <2>1. ~Deleted(tasks)
    BY <1>8 DEF Deleted
  <2>2. \E j \in Slots : Loads(ts[j])
    BY <1>6
  <2>3. QED
    BY <1>3, <1>4, <1>5, <2>1, <2>2 DEF DetailsHold
<1>15. Settled(db, s, ts, due)
  BY <1>9, <1>10, <1>11, <1>12, <1>13, <1>14 DEF Settled
<1>16. ~Moves(s) /\ ~Selects(s)
  BY <1>11 DEF Moves, Selects
<1>17. QED
  BY <1>15, <1>16 DEF Ready

LEMMA ListedAgainKeeps ==
    ASSUME PageInv, NEW k \in Slots, ListedAgain(k)
    PROVE  PageInv'
<1>1. PICK v, o : v = ui.view /\ o = tasks[k]
  OBVIOUS
<1>2. /\ o.at = "list" /\ o.sent = {} /\ ToDetails(k) /\ Stay
      /\ o.live /\ o.arg.then = "save" /\ o.arg.id # None
  BY <1>1 DEF ListedAgain, Answered, ToDetails
<1>3. PICK x : x = Listed(k)
  OBVIOUS
<1>4. PICK w : w = [x EXCEPT !.loading = TRUE]
  OBVIOUS
<1>5. PICK s : s = Heard(k, w)
  OBVIOUS
<1>6. PICK after, i : after = "save" /\ i = o.arg.id
  OBVIOUS
<1>7. PICK t : t = fetchDetails(o.arg.tab, i, after)
  OBVIOUS
<1>8. PICK ts : ts = [tasks EXCEPT ![k] = t]
  OBVIOUS
<1>9. Render(s, url, ts)
  <2>1. PICK y, z : /\ y = [ui EXCEPT !.view = [Listed(k) EXCEPT !.loading = TRUE], !.hasAuthorizers = Told(k)]
                    /\ z = [tasks EXCEPT ![k] = fetchDetails(tasks[k].arg.tab, tasks[k].arg.id, "save")]
    OBVIOUS
  <2>2. Render(y, url, z)
    BY <2>1 DEF ListedAgain
  <2>3. y = s
    <3>1. PICK a, b : a = Told(k) /\ b = Shown(k, w)
      OBVIOUS
    <3>2. b = [ui EXCEPT !.view = w]
      BY <1>1, <1>2, <3>1 DEF Shown
    <3>3. s = [b EXCEPT !.hasAuthorizers = a]
      BY <1>5, <3>1 DEF Heard
    <3>4. y = [ui EXCEPT !.view = w, !.hasAuthorizers = a]
      BY <1>3, <1>4, <2>1, <3>1
    <3>5. QED
      BY <3>2, <3>3, <3>4
  <2>4. z = ts
    BY <1>1, <1>6, <1>7, <1>8, <2>1
  <2>5. QED
    BY <2>2, <2>3, <2>4, Zenon
<1>10. Page(ui) /\ DOMAIN tasks = Slots
  BY ScreenIs DEF PageInv, GoodTasks
<1>11. /\ tasks[k].at = "list" /\ tasks[k].sent = {} /\ tasks[k].live /\ tasks[k].arg = o.arg
  BY <1>1, <1>2
<1>12. /\ Told(k) \in BOOLEAN /\ Here \in PageTabs /\ o.arg.tab = Here /\ o.arg.id \in Ids[Here] /\ Here # None
  BY <1>2, <1>11, TheListIs, TabsAre
<1>13. Page(s) /\ s.tab = ui.tab /\ s.hasAuthorizers = Told(k) /\ s.view = w
  <2>1. /\ Page(s) /\ s.tab = ui.tab /\ s.hasAuthorizers = Told(k)
        /\ tasks[k].live => s.view = w
        /\ ~tasks[k].live => s.view = ui.view
    <3>1. tasks[k].live \in BOOLEAN /\ Told(k) \in BOOLEAN
      BY <1>11, TheListIs
    <3>2. QED
      BY <1>5, <1>10, <3>1, HeardIs
  <2>2. QED
    BY <1>11, <2>1
<1>14. WithList(v, x)
  BY <1>1, <1>3, <1>11, ListedIs
<1>15. /\ w.list = x.list /\ w.choices = x.choices /\ w.id = v.id /\ w.selected = v.selected /\ w.loading = TRUE
       /\ w.open = v.open /\ w.form = x.form /\ w.temp = x.temp /\ w.confirm = v.confirm /\ Shaped(w)
  BY <1>4, <1>14 DEF WithList, Shaped
<1>16. GoodView(db, Here, w)
  BY <1>14, <1>15, FieldsAre DEF WithList
<1>17. Viewed(s.view)
  BY <1>1, <1>12, <1>13, <1>15, <1>16 DEF Viewed
<1>18. DOMAIN ts = Slots /\ \A j \in Slots : ts[j] = IF j = k THEN t ELSE tasks[j]
  BY <1>8, <1>10, EndIs
<1>19. after \in Thens \ {"delete"} /\ i \in Ids[Here] /\ t = fetchDetails(Here, i, after)
  BY <1>6, <1>7, <1>12 DEF Thens
<1>20. /\ GoodTask(db, t) /\ t.at = "details" /\ t.arg.tab = Here /\ t.arg.then = after /\ t.arg.id = i
       /\ t.live /\ DOMAIN t.got = {} /\ t.sent = {getById(Here, i)}
  BY <1>12, <1>19, FetchDetailsIs
<1>21. Placed(ui, t)
  BY <1>20 DEF Placed, TabOf, Here
<1>22. Turns(ts)
  BY <1>18, <1>20 DEF Turns
<1>23. ASSUME ~hasty, ~failed PROVE Ready(s, ts, due)
  <2>1. w.list = db.records[Here]
    BY <1>14, <1>15, <1>23 DEF WithList
  <2>2. PICK r : r = getById(Here, i)
    OBVIOUS
  <2>3. t.sent = {r} /\ r[1] = "getById" /\ t.arg.then = "save" /\ t.arg.id = tasks[k].arg.id
    BY <1>6, <1>11, <1>20, <2>2, WordIs
  <2>4. QED
    BY <1>1, <1>2, <1>11, <1>13, <1>15, <1>18, <1>20, <1>23, <2>1, <2>3, ListedAgainReady
<1>24. QED
  BY <1>2, <1>9, <1>11, <1>13, <1>17, <1>18, <1>20, <1>21, <1>22, <1>23, HandlerKeeps

\* What the tasks us owe is owed to the page z as it was by ts to s.
StillCalm(d, s, ts, z, us, n) ==
    /\ GateHolds(d, z, us) /\ AnswersHold(d, us) /\ Counted(d, z.view, us, n)
    /\ \A t : ListHolds(d, t, s.view, ts) => ListHolds(d, t, z.view, us)

\* A handler that fetched no list and wrote nothing ends: what was so stays so.
LEMMA EndsCalm ==
    ASSUME NEW d, NEW s, NEW ts, NEW n, GateHolds(d, s, ts), AnswersHold(d, ts), Counted(d, s.view, ts, n),
           NEW k \in Slots, ts[k].at # "list", ts[k].at # "save", ts[k].at # "delete",
           NEW i, i = Idle, NEW us, \A j \in Slots : us[j] = IF j = k THEN i ELSE ts[j],
           NEW z, z.tab = s.tab, z.hasAuthorizers = s.hasAuthorizers, z.view.list = s.view.list,
           z.view.selected # None \/ ~z.view.open
    PROVE  StillCalm(d, s, ts, z, us, n)
<1>1. i.at = "idle" /\ DOMAIN i.got = {} /\ i.sent = {}
  BY IdleIs
<1>2. \A j \in Slots : ts[j].at = "list" \/ Written(ts[j]) => us[j] = ts[j]
  BY DEF Written
<1>3. GateHolds(d, z, us)
  <2>1. ASSUME \E j \in Slots : ts[j].at = "list" \/ Written(ts[j])
        PROVE  \E j \in Slots : us[j].at = "list" \/ Written(us[j])
    BY <1>2, <2>1
  <2>2. QED
    BY <2>1 DEF GateHolds
<1>4. AnswersHold(d, us)
  BY <1>1 DEF AnswersHold
<1>5. Counted(d, z.view, us, n)
  <2>1. ~NewForm(z.view, us)
    BY DEF NewForm
  <2>2. (\E j \in Slots : Creating(us[j])) => \E j \in Slots : Creating(ts[j])
    BY <1>1 DEF Creating
  <2>3. QED
    BY <2>1, <2>2 DEF Counted
<1>6. ASSUME NEW t, ListHolds(d, t, s.view, ts) PROVE ListHolds(d, t, z.view, us)
  BY <1>2, <1>6 DEF ListHolds
<1>7. QED
  BY <1>3, <1>4, <1>5, <1>6 DEF StillCalm

\* Details that are shown are those of the selected record.
LEMMA DetailsReady ==
    ASSUME PageInv, ~hasty, ~failed, NEW k \in Slots, tasks[k].at = "details", tasks[k].sent = {}, Here # None,
           NEW v, v = ui.view,
           NEW w, w.list = v.list, w.id = v.id, w.selected = Found(db.records[Here], v.id), w.selected # None,
           v.id \in DOMAIN db.records[Here],
           w.confirm = v.confirm, NEW s, s.tab = ui.tab, s.hasAuthorizers = ui.hasAuthorizers, s.view = w, Mounted(s) = Here,
           NEW ts, \A j \in Slots : ts[j] = IF j = k THEN Idle ELSE tasks[j], v.id # None
    PROVE  Ready(s, ts, due)
<1>1. /\ Single(db, v, tasks) /\ Relies(v, tasks[k]) /\ AnswersHold(db, tasks) /\ GateHolds(db, ui, tasks)
      /\ Counted(db, v, tasks, due) /\ ListHolds(db, Here, v, tasks)
  BY PatientTask
<1>2. v.confirm = None
  BY <1>1 DEF Relies, Deletes
<1>3. ASSUME NEW j \in Slots, j # k, tasks[j].at # "idle" PROVE Relies(w, tasks[j])
  <2>1. Relies(v, tasks[j]) /\ Beside(db, tasks[k], tasks[j])
    BY <1>1, <1>3, OthersAre DEF Late
  <2>2. Late(tasks[j]) /\ tasks[j].at = "list" /\ ~Deletes(tasks[j])
    BY <2>1 DEF Beside, Late, Deletes
  <2>3. QED
    BY <1>2, <2>1, <2>2 DEF Relies, Late
<1>4. PICK t : t = Idle
  OBVIOUS
<1>5. t.at = "idle"
  BY <1>4, IdleIs
<1>6. \A j \in Slots : ts[j] = IF j = k THEN t ELSE tasks[j]
  BY <1>4
<1>7. Single(db, w, ts)
  BY <1>1, <1>3, <1>5, <1>6, NextSingle
<1>8. GateHolds(db, s, ts) /\ AnswersHold(db, ts) /\ Counted(db, w, ts, due) /\ ListHolds(db, Here, w, ts)
  <2>1. PICK q : q = ui
    OBVIOUS
  <2>2. /\ AnswersHold(db, tasks) /\ GateHolds(db, q, tasks) /\ Counted(db, q.view, tasks, due)
        /\ ListHolds(db, Here, q.view, tasks)
    BY <1>1, <2>1
  <2>3. /\ s.tab = q.tab /\ s.hasAuthorizers = q.hasAuthorizers /\ s.view.list = q.view.list
        /\ s.view.selected # None \/ ~s.view.open
        /\ tasks[k].at # "list" /\ tasks[k].at # "save" /\ tasks[k].at # "delete"
    BY <2>1
  <2>4. StillCalm(db, q, tasks, s, ts, due)
    BY <1>4, <1>6, <2>2, <2>3, EndsCalm
  <2>5. QED
    BY <2>2, <2>4 DEF StillCalm
<1>9. DetailsHold(db, Here, w, ts)
  BY <1>2 DEF DetailsHold
<1>10. Settled(db, s, ts, due)
  BY <1>7, <1>8, <1>9 DEF Settled
<1>11. ~Moves(s) /\ ~Selects(s)
  BY DEF Moves, Selects
<1>12. QED
  BY <1>10, <1>11 DEF Ready

LEMMA DetailsFetchedKeeps ==
    ASSUME PageInv, NEW k \in Slots, DetailsFetched(k)
    PROVE  PageInv'
<1>1. PICK v, o : v = ui.view /\ o = tasks[k]
  OBVIOUS
<1>2. o.at = "details" /\ o.sent = {} /\ Stay
  BY <1>1 DEF DetailsFetched, Answered
<1>3. /\ Asks(db, o.at, o.arg, DOMAIN o.got) /\ o.live \in BOOLEAN
      /\ o.live => Here # None /\ TabOf(o) = Here
      /\ ~o.live => Outlives(o)
      /\ ~Threw(o) => \A r \in DOMAIN o.got : Tells(db, r, Data(o, r))
  BY <1>1, <1>2, RunsIs
<1>4. o.live /\ Here # None /\ o.arg.tab = Here /\ o.arg.id \in Ids[Here] /\ DOMAIN o.got = {getById(Here, o.arg.id)}
  BY <1>2, <1>3, ArgIs DEF Outlives, TabOf
<1>5. PICK x : x = IF Threw(o) THEN v.selected ELSE Data(o, getById(Here, o.arg.id))
  OBVIOUS
<1>6. PICK y : y = [v EXCEPT !.loading = FALSE, !.selected = x]
  OBVIOUS
<1>7. PICK w : w = IF o.arg.then = "save" THEN Closed(y) ELSE y
  OBVIOUS
<1>8. PICK s : s = Shown(k, w)
  OBVIOUS
<1>9. PICK ts, t : ts = End(tasks, k) /\ t = Idle
  OBVIOUS
<1>10. s = [ui EXCEPT !.view = w]
  BY <1>1, <1>4, <1>8 DEF Shown
<1>11. Render(s, url, ts)
  <2>1. PICK a : a = [View EXCEPT !.loading = FALSE,
                         !.selected = IF Threw(tasks[k]) THEN @
                                      ELSE Data(tasks[k], getById(tasks[k].arg.tab, tasks[k].arg.id))]
    OBVIOUS
  <2>2. PICK b : b = [ui EXCEPT !.view = IF tasks[k].arg.then = "save" THEN Closed(a) ELSE a]
    OBVIOUS
  <2>3. Render(b, url, ts)
    BY <1>9, <2>1, <2>2 DEF DetailsFetched
  <2>4. a = y
    BY <1>1, <1>4, <1>5, <1>6, <2>1 DEF View
  <2>5. b = s
    BY <1>1, <1>7, <1>10, <2>2, <2>4
  <2>6. QED
    BY <2>3, <2>5, Zenon
<1>12. Page(ui) /\ DOMAIN tasks = Slots /\ GoodView(db, Here, v) /\ Here \in PageTabs /\ Shaped(v)
  BY <1>1, <1>4, ScreenIs, ViewedIs DEF PageInv, GoodTasks
<1>13. /\ y.list = v.list /\ y.choices = v.choices /\ y.id = v.id /\ y.selected = x /\ y.loading = FALSE
       /\ y.open = v.open /\ y.form = v.form /\ y.temp = v.temp /\ y.confirm = v.confirm /\ Shaped(y)
  BY <1>6, <1>12 DEF Shaped
<1>14. /\ w.list = v.list /\ w.choices = v.choices /\ w.id = v.id /\ w.selected = x /\ w.loading = FALSE
       /\ w.form = v.form /\ w.confirm = v.confirm /\ Shaped(w)
       /\ \/ w.open = FALSE /\ w.temp = FALSE
          \/ w.open = v.open /\ w.temp = v.temp
  <2>1. CASE o.arg.then = "save"
    <3>1. w = [y EXCEPT !.open = FALSE, !.temp = FALSE]
      BY <1>7, <2>1 DEF Closed
    <3>2. /\ w.list = y.list /\ w.choices = y.choices /\ w.id = y.id /\ w.selected = y.selected /\ w.loading = FALSE
          /\ w.open = FALSE /\ w.form = y.form /\ w.temp = FALSE /\ w.confirm = y.confirm /\ Shaped(w)
      BY <1>13, <3>1 DEF Shaped
    <3>3. QED
      BY <1>13, <3>2
  <2>2. CASE o.arg.then # "save"
    BY <1>7, <1>13, <2>2
  <2>3. QED
    BY <2>1, <2>2
<1>15. x \in {None} \cup [id : Ids[Here], text : Texts] /\ (x # None => Meant(db, Here, x.id, x.text))
  <2>1. CASE Threw(o)
    BY <1>5, <1>12, <2>1, FieldsAre
  <2>2. CASE ~Threw(o)
    <3>1. PICK r : r = getById(Here, o.arg.id)
      OBVIOUS
    <3>2. r[1] = "getById" /\ r[2] = Here /\ r[3] = o.arg.id /\ x = Data(o, r) /\ r \in DOMAIN o.got
      BY <1>4, <1>5, <2>2, <3>1, WordIs
    <3>3. x \in [id : {o.arg.id}, text : Texts] /\ Meant(db, Here, o.arg.id, x.text)
      BY <1>3, <2>2, <3>2 DEF Tells
    <3>4. QED
      BY <1>4, <3>3
  <2>3. QED
    BY <2>1, <2>2
<1>16. GoodView(db, Here, w)
  BY <1>12, <1>14, <1>15, FieldsAre
<1>17. ts = [tasks EXCEPT ![k] = t]
  BY <1>9 DEF End
<1>18. DOMAIN ts = Slots /\ \A j \in Slots : ts[j] = IF j = k THEN t ELSE tasks[j]
  BY <1>12, <1>17, EndIs
<1>19. GoodTask(db, t) /\ Placed(ui, t)
  BY <1>9, IdleIs DEF Placed
<1>20. ASSUME ~hasty, ~failed PROVE Ready(s, ts, due)
  <2>1. tasks[k].at = "details" /\ tasks[k].sent = {} /\ tasks[k].at # "idle"
    BY <1>1, <1>2
  <2>2. Relies(v, tasks[k]) /\ ~Threw(tasks[k]) /\ \A r \in DOMAIN tasks[k].got : StillSo(db, r, tasks[k].got[r])
    BY <1>1, <1>20, <2>1, PatientTask
  <2>3. o.arg.id = v.id
    BY <1>1, <2>1, <2>2 DEF Relies
  <2>4. PICK r : r = getById(Here, v.id)
    OBVIOUS
  <2>5. r[1] = "getById" /\ r[2] = Here /\ r[3] = v.id /\ r \in DOMAIN o.got /\ x = Data(o, r)
    BY <1>1, <1>4, <1>5, <2>2, <2>3, <2>4, WordIs
  <2>6. v.id \in DOMAIN db.records[Here] /\ x = Found(db.records[Here], v.id)
    BY <1>1, <2>2, <2>5 DEF StillSo, Data
  <2>7. v.id \in Ids[Here] /\ v.id # None
    BY <1>4, <1>12, <2>3, TabsAre
  <2>8. x # None
    <3>1. x.id = v.id /\ db.records[Here] \in Partial(Ids[Here], Texts)
      BY <1>12, <2>6, ScreenIs DEF Found, PageInv, GoodDb
    <3>2. x \in [id : Authorizers \cup Connections, text : Authorizers \cup Connections \cup {Typed}]
      <4>1. db.records[Here][v.id] \in Texts
        BY <2>6, <3>1, PartialIs
      <4>2. v.id \in Authorizers \cup Connections
        BY <1>12, <2>7, TabsAre
      <4>3. QED
        BY <2>6, <4>1, <4>2 DEF Found, Texts
    <3>3. QED
      BY <3>2, SettingsAssumption
  <2>9. Page(s) /\ s.view = w /\ Mounted(s) = Here /\ s.tab = ui.tab /\ s.hasAuthorizers = ui.hasAuthorizers
    BY <1>10, <1>12, WithView
  <2>10. QED
    BY <1>1, <1>4, <1>9, <1>14, <1>18, <1>20, <2>1, <2>6, <2>7, <2>8, <2>9, DetailsReady
<1>21. tasks[k].at # "idle" /\ tasks[k].sent = {}
  BY <1>1, <1>2
<1>22. w.loading = FALSE /\ (w.id = None /\ ui.view.id # None => w.selected = None)
  BY <1>1, <1>14
<1>23. QED
  BY <1>2, <1>8, <1>11, <1>16, <1>18, <1>19, <1>20, <1>21, <1>22, ShownKeeps

\* The choices of the form change nothing else.
LEMMA ChoicesReady ==
    ASSUME PageInv, ~hasty, ~failed, NEW k \in Slots, tasks[k].at = "choices", tasks[k].sent = {}, Here # None,
           NEW v, v = ui.view,
           NEW w, w.list = v.list, w.id = v.id, w.selected = v.selected, w.loading = v.loading, w.open = v.open,
           w.confirm = v.confirm, NEW s, s.tab = ui.tab, s.hasAuthorizers = ui.hasAuthorizers, s.view = w, Mounted(s) = Here,
           NEW i, i = Idle, NEW ts, \A j \in Slots : ts[j] = IF j = k THEN i ELSE tasks[j]
    PROVE  Ready(s, ts, due)
<1>1. /\ Single(db, v, tasks) /\ Relies(v, tasks[k]) /\ AnswersHold(db, tasks) /\ GateHolds(db, ui, tasks)
      /\ Counted(db, v, tasks, due) /\ ListHolds(db, Here, v, tasks) /\ DetailsHold(db, Here, v, tasks)
  BY PatientTask
<1>2. ~v.open
  BY <1>1 DEF Relies
<1>3. ASSUME NEW j \in Slots, j # k, tasks[j].at # "idle" PROVE Relies(w, tasks[j])
  <2>1. Relies(v, tasks[j])
    BY <1>1, <1>3 DEF Single
  <2>2. QED
    BY <2>1 DEF Relies
<1>4. i.at = "idle"
  BY IdleIs
<1>5. Single(db, w, ts)
  BY <1>1, <1>3, <1>4, NextSingle
<1>6. GateHolds(db, s, ts) /\ AnswersHold(db, ts) /\ Counted(db, w, ts, due) /\ ListHolds(db, Here, w, ts)
  <2>1. PICK q : q = ui
    OBVIOUS
  <2>2. /\ AnswersHold(db, tasks) /\ GateHolds(db, q, tasks) /\ Counted(db, q.view, tasks, due)
        /\ ListHolds(db, Here, q.view, tasks)
    BY <1>1, <2>1
  <2>3. /\ s.tab = q.tab /\ s.hasAuthorizers = q.hasAuthorizers /\ s.view.list = q.view.list
        /\ s.view.selected # None \/ ~s.view.open
        /\ tasks[k].at # "list" /\ tasks[k].at # "save" /\ tasks[k].at # "delete"
    BY <1>2, <2>1
  <2>4. StillCalm(db, q, tasks, s, ts, due)
    BY <2>2, <2>3, EndsCalm
  <2>5. QED
    BY <2>2, <2>4 DEF StillCalm
<1>7. DetailsHold(db, Here, w, ts)
  <2>1. \A j \in Slots : tasks[j].at # "choices" => ts[j] = tasks[j]
    OBVIOUS
  <2>2. Deleted(tasks) => Deleted(ts)
    BY <2>1 DEF Deleted
  <2>3. (\E j \in Slots : Loads(tasks[j])) => \E j \in Slots : Loads(ts[j])
    BY <2>1 DEF Loads
  <2>4. (\E j \in Slots : tasks[j].at = "list" /\ Deletes(tasks[j])) => \E j \in Slots : ts[j].at = "list" /\ Deletes(ts[j])
    BY <2>1
  <2>5. QED
    BY <1>1, <1>2, <2>2, <2>3, <2>4 DEF DetailsHold
<1>8. Settled(db, s, ts, due)
  BY <1>5, <1>6, <1>7 DEF Settled
<1>9. ~Moves(s) /\ ~Selects(s)
  BY DEF Moves, Selects
<1>10. QED
  BY <1>8, <1>9 DEF Ready

LEMMA ChoicesFetchedKeeps ==
    ASSUME PageInv, NEW k \in Slots, ChoicesFetched(k)
    PROVE  PageInv'
<1>1. PICK v, o : v = ui.view /\ o = tasks[k]
  OBVIOUS
<1>2. o.at = "choices" /\ o.sent = {} /\ Stay
  BY <1>1 DEF ChoicesFetched, Answered
<1>3. /\ Asks(db, o.at, o.arg, DOMAIN o.got) /\ o.live \in BOOLEAN
      /\ o.live => Here # None /\ TabOf(o) = Here
      /\ ~o.live => Outlives(o)
      /\ ~Threw(o) => \A r \in DOMAIN o.got : Tells(db, r, Data(o, r))
  BY <1>1, <1>2, RunsIs
<1>4. o.live /\ Here # None /\ DOMAIN o.got = {getAll("authorizers")}
  BY <1>2, <1>3, ArgIs DEF Outlives
<1>5. PICK found : found = IF Threw(o) THEN v.choices ELSE DOMAIN Data(o, getAll("authorizers"))
  OBVIOUS
<1>6. PICK w : w = [v EXCEPT !.choices = found]
  OBVIOUS
<1>7. PICK s : s = [ui EXCEPT !.view = w]
  OBVIOUS
<1>8. PICK ts, t : ts = End(tasks, k) /\ t = Idle
  OBVIOUS
<1>9. Page(ui) /\ DOMAIN tasks = Slots /\ GoodView(db, Here, v) /\ Here \in PageTabs /\ Shaped(v)
  BY <1>1, <1>4, ScreenIs, ViewedIs DEF PageInv, GoodTasks
<1>10. Render(s, url, ts)
  <2>1. PICK f : f = IF Threw(tasks[k]) THEN View.choices ELSE DOMAIN Data(tasks[k], getAll("authorizers"))
    OBVIOUS
  <2>2. PICK b : b = [ui EXCEPT !.view.choices = f]
    OBVIOUS
  <2>3. Render(b, url, ts)
    BY <1>8, <2>1, <2>2 DEF ChoicesFetched
  <2>4. f = found
    BY <1>1, <1>5, <2>1 DEF View
  <2>5. b = s
    BY <1>1, <1>6, <1>7, <1>9, <2>2, <2>4 DEF Page
  <2>6. QED
    BY <2>3, <2>5, Zenon
<1>11. found \in SUBSET Authorizers
  <2>1. CASE Threw(o)
    BY <1>5, <1>9, <2>1, FieldsAre
  <2>2. CASE ~Threw(o)
    <3>1. PICK r : r = getAll("authorizers")
      OBVIOUS
    <3>2. r[1] = "getAll" /\ r[2] = "authorizers" /\ found = DOMAIN Data(o, r) /\ r \in DOMAIN o.got
      BY <1>4, <1>5, <2>2, <3>1, WordIs
    <3>3. Data(o, r) \in Partial(Authorizers, Texts)
      BY <1>3, <2>2, <3>2, TabsAre DEF Tells
    <3>4. QED
      BY <3>2, <3>3, PartialIs
  <2>3. QED
    BY <2>1, <2>2
<1>12. /\ w.list = v.list /\ w.choices = found /\ w.id = v.id /\ w.selected = v.selected /\ w.loading = v.loading
       /\ w.open = v.open /\ w.form = v.form /\ w.temp = v.temp /\ w.confirm = v.confirm /\ Shaped(w)
  BY <1>6, <1>9 DEF Shaped
<1>13. GoodView(db, Here, w)
  BY <1>9, <1>11, <1>12, FieldsAre
<1>14. /\ Page(s) /\ s.view = w /\ Mounted(s) = Here /\ s.tab = ui.tab /\ s.hasAuthorizers = ui.hasAuthorizers
  BY <1>7, <1>9, WithView
<1>15. Viewed(s.view)
  <2>1. Viewed(v)
    BY <1>1, ScreenIs DEF PageInv
  <2>2. QED
    BY <1>4, <1>12, <1>13, <1>14, <2>1 DEF Viewed
<1>16. ts = [tasks EXCEPT ![k] = t]
  BY <1>8 DEF End
<1>17. DOMAIN ts = Slots /\ \A j \in Slots : ts[j] = IF j = k THEN t ELSE tasks[j]
  BY <1>9, <1>16, EndIs
<1>18. GoodTask(db, t) /\ Placed(ui, t)
  BY <1>8, IdleIs DEF Placed
<1>19. s.view.loading => Turns(ts)
  <2>1. tasks[k].at = "choices"
    BY <1>1, <1>2
  <2>2. ui.view.loading => Turns(ts)
    BY <1>17, <2>1, SpinsOn
  <2>3. QED
    BY <1>1, <1>12, <1>14, <2>2
<1>20. ASSUME ~hasty, ~failed PROVE Ready(s, ts, due)
  <2>1. tasks[k].at = "choices" /\ tasks[k].sent = {}
    BY <1>1, <1>2
  <2>2. QED
    BY <1>1, <1>4, <1>8, <1>12, <1>14, <1>17, <1>20, <2>1, ChoicesReady
<1>21. QED
  BY <1>2, <1>10, <1>14, <1>15, <1>17, <1>18, <1>19, <1>20, HandlerKeeps

\* Every click keeps the invariant.
LEMMA ClicksKeep ==
    ASSUME PageInv, ClickStep
    PROVE  PageInv'
  BY TabChangeKeeps, SelectKeeps, AddKeeps, EditKeeps, TypeTextKeeps, CloseFormKeeps, SaveKeeps, ShowDeleteKeeps,
     CloseConfirmationKeeps, ConfirmDeleteKeeps
     DEF ClickStep

\* Every handler keeps the invariant.
LEMMA HandlersKeep ==
    ASSUME PageInv, NEW k \in Slots, HandlerStep(k)
    PROVE  PageInv'
  BY SaveFailedKeeps, SaveAnsweredKeeps, DeleteFailedKeeps, DeleteAnsweredKeeps, ListFetchedKeeps, ListedAgainKeeps,
     DetailsFetchedKeeps, ChoicesFetchedKeeps
     DEF HandlerStep

-----------------------------------------------------------------------------
(* The server.                                                             *)

\* Records to which one is added, and from which one is taken.
LEMMA PartialKept ==
    ASSUME NEW S, NEW T, NEW f \in Partial(S, T), NEW x \in S
    PROVE  /\ \A v \in T : /\ With(f, x, v) \in Partial(S, T)
                           /\ x \in DOMAIN f => [f EXCEPT ![x] = v] \in Partial(S, T)
           /\ [y \in DOMAIN f \ {x} |-> f[y]] \in Partial(S, T)
<1>1. DOMAIN f \subseteq S /\ \A y \in DOMAIN f : f[y] \in T
  BY PartialIs
<1>2. ASSUME NEW v \in T PROVE With(f, x, v) \in Partial(S, T)
  <2> DEFINE g == With(f, x, v)
  <2>1. /\ g = [y \in DOMAIN g |-> g[y]]
        /\ DOMAIN g = DOMAIN f \cup {x}
        /\ \A y \in DOMAIN g : g[y] = IF y = x THEN v ELSE f[y]
    BY DEF With
  <2> HIDE DEF g
  <2>2. QED
    BY <1>1, <2>1, PartialIs DEF g
<1>3. ASSUME x \in DOMAIN f, NEW v \in T PROVE [f EXCEPT ![x] = v] \in Partial(S, T)
  <2> DEFINE g == [f EXCEPT ![x] = v]
  <2>1. /\ g = [y \in DOMAIN g |-> g[y]]
        /\ DOMAIN g = DOMAIN f
        /\ \A y \in DOMAIN g : g[y] = IF y = x THEN v ELSE f[y]
    OBVIOUS
  <2> HIDE DEF g
  <2>2. QED
    BY <1>1, <2>1, PartialIs DEF g
<1>4. [y \in DOMAIN f \ {x} |-> f[y]] \in Partial(S, T)
  <2> DEFINE g == [y \in DOMAIN f \ {x} |-> f[y]]
  <2>1. /\ g = [y \in DOMAIN g |-> g[y]]
        /\ DOMAIN g = DOMAIN f \ {x}
        /\ \A y \in DOMAIN g : g[y] = f[y]
    OBVIOUS
  <2> HIDE DEF g
  <2>2. QED
    BY <1>1, <2>1, PartialIs DEF g
<1>5. QED
  BY <1>2, <1>3, <1>4

\* The requests that read, and those that write.
Reads(r) == \E t \in PageTabs : r = getAll(t) \/ \E i \in Ids[t] : r = getById(t, i)
Changes(at, t, r) ==
    \/ /\ at = "save"
       /\ \E x \in Texts : \/ r = create(t, x) /\ (t = "authorizers" /\ ~Known(db) => x = Typed)
                           \/ \E i \in Ids[t] : r = update(t, i, x) /\ Meant(db, t, i, x)
    \/ at = "delete" /\ \E i \in Ids[t] : r = delete(t, i)

\* A handler waits for one request at a time.
LEMMA RequestIs ==
    ASSUME NEW at, NEW arg, NEW q, Asks(db, at, arg, q), NEW r \in q
    PROVE  q = {r} /\ (Reads(r) \/ (arg.tab \in PageTabs /\ Changes(at, arg.tab, r)))
<1>1. CASE at = "choices"
  BY <1>1, TabsAre DEF Asks, Reads
<1>2. CASE at = "list"
  BY <1>2 DEF Asks, Reads
<1>3. CASE at = "details"
  BY <1>3 DEF Asks, Reads
<1>4. CASE at = "save"
  BY <1>4 DEF Asks, Changes
<1>5. CASE at = "delete"
  BY <1>5 DEF Asks, Changes
<1>6. QED
  BY <1>1, <1>2, <1>3, <1>4, <1>5 DEF Asks

\* What the server answers to a request that reads.
LEMMA AnswersAre ==
    ASSUME NEW r, Reads(r), GoodDb(db), Accepts(r)
    PROVE  Effect(r) = db /\ Tells(db, r, Returns(r)) /\ StillSo(db, r, Ok(Returns(r)))
<1>1. \A data : Ok(data).ok /\ Ok(data).data = data
  BY DEF Ok
<1>2. CASE \E t \in PageTabs : r = getAll(t)
  <2>1. r[1] = "getAll" /\ r[2] \in PageTabs
    BY <1>2, WordIs
  <2>2. Effect(r) = db /\ Returns(r) = db.records[r[2]]
    BY <2>1 DEF Effect, Returns, Records
  <2>3. db.records[r[2]] \in Partial(Ids[r[2]], Texts)
    BY <2>1 DEF GoodDb
  <2>4. QED
    BY <1>1, <2>1, <2>2, <2>3 DEF Tells, StillSo
<1>3. CASE \E t \in PageTabs : \E i \in Ids[t] : r = getById(t, i)
  <2>1. r[1] = "getById" /\ r[2] \in PageTabs
    BY <1>3, WordIs
  <2>2. r[3] \in DOMAIN db.records[r[2]]
    BY <2>1 DEF Accepts, Records
  <2>3. Effect(r) = db /\ Returns(r) = Found(db.records[r[2]], r[3])
    BY <2>1 DEF Effect, Returns, Records, Found
  <2>4. db.records[r[2]] \in Partial(Ids[r[2]], Texts) /\ Meant(db, r[2], r[3], db.records[r[2]][r[3]])
    BY <2>1, <2>2 DEF GoodDb
  <2>5. db.records[r[2]][r[3]] \in Texts
    BY <2>2, <2>4, PartialIs
  <2>6. PICK a : a = Found(db.records[r[2]], r[3])
    OBVIOUS
  <2>7. a \in [id : {r[3]}, text : Texts] /\ a.text = db.records[r[2]][r[3]]
    BY <2>5, <2>6 DEF Found
  <2>8. Tells(db, r, a)
    BY <2>1, <2>4, <2>7 DEF Tells
  <2>9. StillSo(db, r, Ok(a))
    BY <1>1, <2>1, <2>2, <2>6 DEF StillSo
  <2>10. QED
    BY <2>3, <2>6, <2>8, <2>9
<1>4. QED
  BY <1>2, <1>3 DEF Reads

\* What is meant of a record stays so while ids are given.
LEMMA MeantStays ==
    ASSUME NEW d, NEW e, d.given \subseteq e.given
    PROVE  /\ Known(d) => Known(e)
           /\ \A t, i, x : Meant(d, t, i, x) => Meant(e, t, i, x)
           /\ \A t, v : GoodView(d, t, v) => GoodView(e, t, v)
           /\ \A r, x : Tells(d, r, x) => Tells(e, r, x)
           /\ \A r, a : GoodAnswer(d, r, a) => GoodAnswer(e, r, a)
           /\ \A at, arg, q : Asks(d, at, arg, q) => Asks(e, at, arg, q)
<1>1. Known(d) => Known(e)
  BY DEF Known
<1>2. \A t, i, x : Meant(d, t, i, x) => Meant(e, t, i, x)
  BY <1>1 DEF Meant
<1>3. \A t, v : GoodView(d, t, v) => GoodView(e, t, v)
  BY <1>1, <1>2 DEF GoodView
<1>4. \A r, x : Tells(d, r, x) => Tells(e, r, x)
  BY <1>2 DEF Tells
<1>5. \A r, a : GoodAnswer(d, r, a) => GoodAnswer(e, r, a)
  BY <1>4 DEF GoodAnswer
<1>6. ASSUME NEW at, NEW arg, NEW q, Asks(d, at, arg, q) PROVE Asks(e, at, arg, q)
  <2>1. CASE at = "save"
    <3>1. PICK t \in PageTabs : /\ \E i \in Ids[t] \cup {None} : arg = [tab |-> t, id |-> i]
                                /\ \E x \in Texts : \/ q = {create(t, x)} /\ (t = "authorizers" /\ ~Known(d) => x = Typed)
                                                    \/ \E i \in Ids[t] : q = {update(t, i, x)} /\ Meant(d, t, i, x)
      BY <1>6, <2>1 DEF Asks
    <3>2. \E x \in Texts : \/ q = {create(t, x)} /\ (t = "authorizers" /\ ~Known(e) => x = Typed)
                           \/ \E i \in Ids[t] : q = {update(t, i, x)} /\ Meant(e, t, i, x)
      BY <1>1, <1>2, <3>1
    <3>3. QED
      BY <2>1, <3>1, <3>2 DEF Asks
  <2>2. CASE at # "save"
    BY <1>6, <2>2 DEF Asks
  <2>3. QED
    BY <2>1, <2>2
<1>7. QED
  BY <1>1, <1>2, <1>3, <1>4, <1>5, <1>6

\* The records of one tab change.
WithRecords(d, t, f, g) ==
    /\ d = [records |-> d.records, given |-> d.given]
    /\ d.given = g /\ d.records = [db.records EXCEPT ![t] = f]
LEMMA StaysGood ==
    ASSUME GoodDb(db), NEW t \in PageTabs, NEW f \in Partial(Ids[t], Texts), NEW g, IsFiniteSet(g),
           db.given \subseteq g, g \subseteq Authorizers \cup Connections, DOMAIN f \subseteq g,
           NEW d, WithRecords(d, t, f, g),
           \A i \in DOMAIN f : Meant(d, t, i, f[i])
    PROVE  GoodDb(d) /\ d.records[t] = f /\ \A o \in PageTabs : o # t => d.records[o] = db.records[o]
<1> PICK h : h = db.records
  OBVIOUS
<1>1. /\ h = [o \in PageTabs |-> h[o]] /\ d.records = [h EXCEPT ![t] = f]
      /\ d = [records |-> d.records, given |-> d.given] /\ d.given = g
  BY DEF GoodDb, WithRecords
<1>2. d.records = [o \in PageTabs |-> IF o = t THEN f ELSE h[o]]
  BY <1>1
<1>3. d.records[t] = f /\ \A o \in PageTabs : o # t => d.records[o] = h[o]
  BY <1>2
<1>4. d.records = [o \in PageTabs |-> d.records[o]]
  BY <1>2
<1>5. ASSUME NEW o \in PageTabs
      PROVE  /\ d.records[o] \in Partial(Ids[o], Texts) /\ DOMAIN d.records[o] \subseteq d.given
             /\ \A i \in DOMAIN d.records[o] : Meant(d, o, i, d.records[o][i])
  <2>1. CASE o = t
    BY <1>1, <1>3, <2>1
  <2>2. CASE o # t
    <3>1. /\ h[o] \in Partial(Ids[o], Texts) /\ DOMAIN h[o] \subseteq db.given
          /\ \A i \in DOMAIN h[o] : Meant(db, o, i, h[o][i])
      BY DEF GoodDb
    <3>2. \A i \in DOMAIN h[o] : Meant(d, o, i, h[o][i])
      BY <1>1, <3>1, MeantStays
    <3>3. QED
      BY <1>1, <1>3, <2>2, <3>1, <3>2
  <2>3. QED
    BY <2>1, <2>2
<1>6. GoodDb(d)
  BY <1>1, <1>4, <1>5 DEF GoodDb
<1>7. QED
  BY <1>3, <1>6

\* What a request that writes does to the records of tab t.
Done(at, t, r, d) ==
    /\ GoodDb(d) /\ db.given \subseteq d.given /\ Tells(d, r, Returns(r)) /\ StillSo(d, r, Ok(Returns(r)))
    /\ \A o \in PageTabs : o # t => d.records[o] = db.records[o]
    /\ \/ at = "save" /\ r[1] = "create" /\ \E i : i \notin db.given /\ d.given = db.given \cup {i}
       \/ /\ at = "save" /\ r[1] = "update" /\ r[2] = t /\ d.given = db.given
          /\ DOMAIN d.records[t] = DOMAIN db.records[t]
          /\ db.records[t][r[3]] = r[4] => d = db
       \/ at = "delete" /\ r[1] = "delete" /\ d.given = db.given

\* A record is created, with an id that was never given before.
LEMMA CreateIs ==
    ASSUME GoodDb(db), NEW t \in PageTabs, NEW x \in Texts, t = "authorizers" /\ ~Known(db) => x = Typed,
           NEW r, r = create(t, x), HasId(r), NEW d, d = Effect(r)
    PROVE  Done("save", t, r, d)
<1>1. r[1] = "create" /\ r[2] = t /\ r[3] = x
  BY WordIs
<1>2. PICK i \in Ids[t] : i \notin db.given /\ i = Fresh(t)
  <2>1. \E i \in Ids[t] : i \notin db.given
    BY <1>1 DEF HasId
  <2>2. QED
    BY <2>1 DEF Fresh
<1>3. PICK h, o : h = db.records /\ o = db.records[t]
  OBVIOUS
<1>4. PICK f, g : f = With(o, i, x) /\ g = db.given \cup {i}
  OBVIOUS
<1>5. /\ db = [records |-> db.records, given |-> db.given] /\ o \in Partial(Ids[t], Texts)
      /\ h = [y \in PageTabs |-> h[y]] /\ DOMAIN o \subseteq db.given
      /\ db.given \subseteq Authorizers \cup Connections /\ IsFiniteSet(db.given)
      /\ \A j \in DOMAIN o : Meant(db, t, j, o[j])
  BY <1>3 DEF GoodDb
<1>6. d = [db EXCEPT !.records[t] = f, !.given = g]
  <2>1. d = [db EXCEPT !.records[r[2]] = With(@, Fresh(r[2]), r[3]), !.given = @ \cup {Fresh(r[2])}]
    BY <1>1 DEF Effect
  <2>2. [db EXCEPT !.records[r[2]] = With(@, Fresh(r[2]), r[3]), !.given = @ \cup {Fresh(r[2])}]
        = [db EXCEPT !.records[t] = With(db.records[t], i, x), !.given = db.given \cup {i}]
    BY <1>1, <1>2, Zenon
  <2>3. QED
    BY <1>3, <1>4, <2>1, <2>2, Zenon
<1>7. d = [records |-> d.records, given |-> d.given] /\ d.given = g /\ d.records = [h EXCEPT ![t] = f]
  BY <1>3, <1>5, <1>6
<1>8. f \in Partial(Ids[t], Texts)
  BY <1>4, <1>5, PartialKept
<1>9. DOMAIN f = DOMAIN o \cup {i} /\ \A j \in DOMAIN f : f[j] = IF j = i THEN x ELSE o[j]
  BY <1>4 DEF With
<1>10. /\ IsFiniteSet(g) /\ g \subseteq Authorizers \cup Connections /\ db.given \subseteq g /\ DOMAIN f \subseteq g
  <2>1. IsFiniteSet(g)
    BY <1>4, <1>5, FS_AddElement
  <2>2. i \in Authorizers \cup Connections
    BY <1>2, TabsAre
  <2>3. QED
    BY <1>4, <1>5, <1>9, <2>1, <2>2
<1>11. ASSUME NEW j \in DOMAIN f PROVE Meant(d, t, j, f[j])
  <2>1. CASE j = i
    <3>1. ~Known(d) => ~Known(db)
      BY <1>7, <1>10, MeantStays
    <3>2. i \in InitialAuthorizers => ~Known(db)
      BY <1>2 DEF Known
    <3>3. f[j] = x
      BY <1>9, <2>1
    <3>4. QED
      BY <2>1, <3>1, <3>2, <3>3 DEF Meant
  <2>2. CASE j # i
    <3>1. j \in DOMAIN o /\ f[j] = o[j]
      BY <1>9, <2>2
    <3>2. Meant(db, t, j, o[j])
      BY <1>5, <3>1
    <3>3. QED
      BY <1>7, <1>10, <3>1, <3>2, MeantStays
  <2>3. QED
    BY <2>1, <2>2
<1>12. GoodDb(d) /\ d.records[t] = f /\ \A y \in PageTabs : y # t => d.records[y] = db.records[y]
  <2>1. \A j \in DOMAIN f : Meant(d, t, j, f[j])
    BY <1>11
  <2>2. WithRecords(d, t, f, g)
    BY <1>3, <1>7 DEF WithRecords
  <2>3. QED
    BY <1>8, <1>10, <2>1, <2>2, StaysGood
<1>13. Returns(r) = i
  BY <1>1, <1>2 DEF Returns
<1>14. Tells(d, r, i)
  BY <1>1 DEF Tells
<1>15. StillSo(d, r, Ok(i))
  <2>1. Ok(i).ok /\ Ok(i).data = i
    BY DEF Ok
  <2>2. QED
    BY <1>1, <1>9, <1>12, <2>1 DEF StillSo
<1>16. QED
  BY <1>1, <1>2, <1>4, <1>7, <1>10, <1>12, <1>13, <1>14, <1>15 DEF Done

\* What is answered to a request that only changes records.
LEMMA NothingTold ==
    ASSUME NEW r, r[1] # "getAll", r[1] # "getById", r[1] # "create"
    PROVE  \A d, x : Tells(d, r, x) /\ StillSo(d, r, Ok(x))
<1>1. \A data : Ok(data).ok
  BY DEF Ok
<1>2. QED
  BY <1>1 DEF Tells, StillSo

\* A record is changed.
LEMMA UpdateIs ==
    ASSUME GoodDb(db), NEW t \in PageTabs, NEW x \in Texts, NEW i \in Ids[t], Meant(db, t, i, x),
           NEW r, r = update(t, i, x), Accepts(r), NEW d, d = Effect(r)
    PROVE  Done("save", t, r, d)
<1>1. r[1] = "update" /\ r[2] = t /\ r[3] = i /\ r[4] = x
  BY WordIs
<1>2. PICK h, o, g : h = db.records /\ o = db.records[t] /\ g = db.given
  OBVIOUS
<1>3. i \in DOMAIN o
  BY <1>1, <1>2 DEF Accepts, Records
<1>4. PICK f : f = [o EXCEPT ![i] = x]
  OBVIOUS
<1>5. /\ db = [records |-> db.records, given |-> db.given] /\ o \in Partial(Ids[t], Texts)
      /\ h = [y \in PageTabs |-> h[y]] /\ DOMAIN o \subseteq db.given
      /\ db.given \subseteq Authorizers \cup Connections /\ IsFiniteSet(db.given)
      /\ \A j \in DOMAIN o : Meant(db, t, j, o[j])
  BY <1>2 DEF GoodDb
<1>6. d = [db EXCEPT !.records[t][i] = x]
  BY <1>1, Zenon DEF Effect
<1>7. d = [records |-> d.records, given |-> d.given] /\ d.given = g /\ d.records = [h EXCEPT ![t] = f]
  BY <1>2, <1>4, <1>5, <1>6
<1>8. f \in Partial(Ids[t], Texts)
  BY <1>3, <1>4, <1>5, PartialKept
<1>9. DOMAIN f = DOMAIN o /\ \A j \in DOMAIN f : f[j] = IF j = i THEN x ELSE o[j]
  BY <1>4
<1>10. \A j \in DOMAIN f : Meant(d, t, j, f[j])
  <2>1. \A j \in DOMAIN f : Meant(db, t, j, f[j])
    BY <1>5, <1>9
  <2>2. QED
    BY <1>2, <1>7, <2>1, MeantStays
<1>11. GoodDb(d) /\ d.records[t] = f /\ \A y \in PageTabs : y # t => d.records[y] = db.records[y]
  <2>1. WithRecords(d, t, f, g)
    BY <1>2, <1>7 DEF WithRecords
  <2>2. QED
    BY <1>2, <1>5, <1>8, <1>9, <1>10, <2>1, StaysGood
<1>12. ASSUME o[i] = x PROVE d = db
  <2>1. o = [j \in DOMAIN o |-> o[j]]
    BY <1>5, PartialIs
  <2>2. f = o
    BY <1>4, <1>12, <2>1
  <2>3. d.records = h
    BY <1>2, <1>5, <1>7, <2>2
  <2>4. QED
    BY <1>2, <1>5, <1>7, <2>3
<1>13. \A y : Tells(d, r, y) /\ StillSo(d, r, Ok(y))
  BY <1>1, NothingTold
<1>14. QED
  BY <1>1, <1>2, <1>7, <1>9, <1>11, <1>12, <1>13 DEF Done

\* A record is deleted.
LEMMA DeleteIs ==
    ASSUME GoodDb(db), NEW t \in PageTabs, NEW i \in Ids[t],
           NEW r, r = delete(t, i), NEW d, d = Effect(r)
    PROVE  Done("delete", t, r, d)
<1>1. r[1] = "delete" /\ r[2] = t /\ r[3] = i
  BY WordIs
<1>2. PICK h, o, g : h = db.records /\ o = db.records[t] /\ g = db.given
  OBVIOUS
<1>3. PICK f : f = [y \in DOMAIN o \ {i} |-> o[y]]
  OBVIOUS
<1>4. /\ db = [records |-> db.records, given |-> db.given] /\ o \in Partial(Ids[t], Texts)
      /\ h = [y \in PageTabs |-> h[y]] /\ DOMAIN o \subseteq db.given
      /\ db.given \subseteq Authorizers \cup Connections /\ IsFiniteSet(db.given)
      /\ \A j \in DOMAIN o : Meant(db, t, j, o[j])
  BY <1>2 DEF GoodDb
<1>5. d = [db EXCEPT !.records[t] = f]
  <2>1. d = [db EXCEPT !.records[r[2]] = [y \in DOMAIN @ \ {r[3]} |-> @[y]]]
    BY <1>1 DEF Effect
  <2>2. [db EXCEPT !.records[r[2]] = [y \in DOMAIN @ \ {r[3]} |-> @[y]]]
        = [db EXCEPT !.records[t] = [y \in DOMAIN db.records[t] \ {i} |-> db.records[t][y]]]
    BY <1>1, Zenon
  <2>3. QED
    BY <1>2, <1>3, <2>1, <2>2, Zenon
<1>6. d = [records |-> d.records, given |-> d.given] /\ d.given = g /\ d.records = [h EXCEPT ![t] = f]
  BY <1>2, <1>4, <1>5
<1>7. f \in Partial(Ids[t], Texts)
  BY <1>3, <1>4, PartialKept
<1>8. DOMAIN f \subseteq DOMAIN o /\ \A j \in DOMAIN f : f[j] = o[j]
  BY <1>3
<1>9. \A j \in DOMAIN f : Meant(d, t, j, f[j])
  <2>1. \A j \in DOMAIN f : Meant(db, t, j, f[j])
    BY <1>4, <1>8
  <2>2. QED
    BY <1>2, <1>6, <2>1, MeantStays
<1>10. GoodDb(d) /\ \A y \in PageTabs : y # t => d.records[y] = db.records[y]
  <2>1. WithRecords(d, t, f, g)
    BY <1>2, <1>6 DEF WithRecords
  <2>2. DOMAIN f \subseteq g
    BY <1>2, <1>4, <1>8
  <2>3. QED
    BY <1>2, <1>4, <1>7, <1>9, <2>1, <2>2, StaysGood
<1>11. \A y : Tells(d, r, y) /\ StillSo(d, r, Ok(y))
  BY <1>1, NothingTold
<1>12. QED
  BY <1>1, <1>2, <1>6, <1>10, <1>11 DEF Done

\* What the server does for a request that writes.
LEMMA WritesAre ==
    ASSUME GoodDb(db), NEW at, NEW t \in PageTabs, NEW r, Changes(at, t, r), Accepts(r), HasId(r), NEW d, d = Effect(r)
    PROVE  Done(at, t, r, d)
<1>1. CASE at = "save" /\ \E x \in Texts : r = create(t, x) /\ (t = "authorizers" /\ ~Known(db) => x = Typed)
  BY <1>1, CreateIs
<1>2. CASE at = "save" /\ \E x \in Texts : \E i \in Ids[t] : r = update(t, i, x) /\ Meant(db, t, i, x)
  BY <1>2, UpdateIs
<1>3. CASE at = "delete" /\ \E i \in Ids[t] : r = delete(t, i)
  BY <1>3, DeleteIs
<1>4. QED
  BY <1>1, <1>2, <1>3 DEF Changes

\* A handler that is answered, when the records are d.
Received(d, ts, k, r, a) ==
    /\ GoodTasks(d, ts) /\ \A j \in Slots : j # k => ts[j] = tasks[j]
    /\ ts[k].at = tasks[k].at /\ ts[k].arg = tasks[k].arg /\ ts[k].live = tasks[k].live
    /\ ts[k].sent = tasks[k].sent \ {r}
    /\ DOMAIN ts[k].got = DOMAIN tasks[k].got \cup {r} /\ ts[k].got[r] = a
    /\ \A q \in DOMAIN tasks[k].got : ts[k].got[q] = tasks[k].got[q]
LEMMA ReceiveIs ==
    ASSUME GoodTasks(db, tasks), NEW d, db.given \subseteq d.given,
           NEW k \in Slots, NEW r \in tasks[k].sent, NEW a, GoodAnswer(d, r, a),
           NEW ts, ts = Receive(tasks, k, r, a)
    PROVE  Received(d, ts, k, r, a)
<1>1. PICK t : t = tasks[k]
  OBVIOUS
<1>2. PICK g : g = With(t.got, r, a)
  OBVIOUS
<1>3. PICK n : n = [t EXCEPT !.sent = t.sent \ {r}, !.got = g]
  OBVIOUS
<1>4. GoodTask(db, t) /\ DOMAIN tasks = Slots /\ r \in t.sent
  BY <1>1 DEF GoodTasks
<1>5. /\ t = [at |-> t.at, arg |-> t.arg, sent |-> t.sent, got |-> t.got, live |-> t.live]
      /\ t.live \in BOOLEAN /\ t.sent \cap DOMAIN t.got = {}
      /\ Asks(db, t.at, t.arg, t.sent \cup DOMAIN t.got)
      /\ \A q \in DOMAIN t.got : GoodAnswer(db, q, t.got[q])
  BY <1>4, BusyIs
<1>6. DOMAIN ts = Slots /\ ts[k] = n /\ \A j \in Slots : j # k => ts[j] = tasks[j]
  BY <1>1, <1>2, <1>3, <1>4 DEF Receive
<1>7. DOMAIN g = DOMAIN t.got \cup {r} /\ g[r] = a /\ \A q \in DOMAIN t.got : q # r => g[q] = t.got[q]
  BY <1>2 DEF With
<1>8. /\ n.at = t.at /\ n.arg = t.arg /\ n.live = t.live /\ n.sent = t.sent \ {r} /\ n.got = g
      /\ n = [at |-> n.at, arg |-> n.arg, sent |-> n.sent, got |-> n.got, live |-> n.live]
  BY <1>3, <1>5
<1>9. n.sent \cup DOMAIN n.got = t.sent \cup DOMAIN t.got /\ n.sent \cap DOMAIN n.got = {}
  BY <1>4, <1>5, <1>7, <1>8
<1>10. \A q \in DOMAIN t.got : q # r /\ n.got[q] = t.got[q]
  BY <1>4, <1>5, <1>7, <1>8
<1>11. \A q \in DOMAIN n.got : GoodAnswer(d, q, n.got[q])
  <2>1. \A q \in DOMAIN t.got : GoodAnswer(d, q, t.got[q])
    BY <1>5, MeantStays
  <2>2. QED
    BY <1>7, <1>8, <1>10, <2>1
<1>12. GoodTask(d, n)
  <2>1. Asks(d, n.at, n.arg, n.sent \cup DOMAIN n.got)
    BY <1>5, <1>8, <1>9, MeantStays
  <2>2. QED
    BY <1>5, <1>8, <1>9, <1>11, <2>1 DEF GoodTask
<1>13. ASSUME NEW j \in Slots PROVE GoodTask(d, ts[j])
  <2>1. CASE j = k
    BY <1>6, <1>12, <2>1
  <2>2. CASE j # k
    <3>1. PICK o : o = tasks[j]
      OBVIOUS
    <3>2. GoodTask(db, o) /\ ts[j] = o
      BY <1>6, <2>2, <3>1 DEF GoodTasks
    <3>3. GoodTask(d, o)
      <4>1. Asks(db, o.at, o.arg, o.sent \cup DOMAIN o.got) => Asks(d, o.at, o.arg, o.sent \cup DOMAIN o.got)
        BY MeantStays
      <4>2. \A q : GoodAnswer(db, q, o.got[q]) => GoodAnswer(d, q, o.got[q])
        BY MeantStays
      <4>3. QED
        BY <3>2, <4>1, <4>2 DEF GoodTask
    <3>4. QED
      BY <3>2, <3>3
  <2>3. QED
    BY <2>1, <2>2
<1>14. GoodTasks(d, ts)
  BY <1>6, <1>13 DEF GoodTasks
<1>15. QED
  BY <1>1, <1>6, <1>7, <1>8, <1>10, <1>14 DEF Received

\* An answer keeps the types and the spinners, whatever the server has done.
LEMMA AnswerKeeps ==
    ASSUME PageInv, NEW k \in Slots, NEW r, NEW a, Received(db', tasks', k, r, a),
           UNCHANGED <<url, ui, due>>, GoodDb(db'), db.given \subseteq db'.given
    PROVE  TypeInv' /\ SpinInv'
<1>1. \A j \in Slots : tasks'[j].at = tasks[j].at /\ tasks'[j].arg = tasks[j].arg /\ tasks'[j].live = tasks[j].live
  BY DEF Received
<1>2. GoodUi(db', ui)
  <2>1. GoodUi(db, ui)
    BY DEF PageInv, TypeInv
  <2>2. \A t, v : GoodView(db, t, v) => GoodView(db', t, v)
    BY MeantStays
  <2>3. QED
    BY <2>1, <2>2 DEF GoodUi
<1>3. AllPlaced(ui, tasks')
  <2>1. AllPlaced(ui, tasks)
    BY DEF PageInv, TypeInv
  <2>2. QED
    BY <1>1, <2>1 DEF AllPlaced, Placed, TabOf, Outlives
<1>4. GoodTasks(db', tasks') /\ url' \in PageTabs \cup {None} /\ due' \in Nat
  BY DEF Received, PageInv, TypeInv
<1>5. TypeInv'
  <2>1. (GoodDb(db)' <=> GoodDb(db')) /\ (GoodUi(db, ui)' <=> GoodUi(db', ui'))
    OBVIOUS
  <2>2. (GoodTasks(db, tasks)' <=> GoodTasks(db', tasks')) /\ (AllPlaced(ui, tasks)' <=> AllPlaced(ui', tasks'))
    OBVIOUS
  <2>3. GoodUi(db', ui') /\ AllPlaced(ui', tasks')
    BY <1>2, <1>3
  <2>4. QED
    BY <1>4, <2>1, <2>2, <2>3 DEF TypeInv
<1>6. Turns(tasks) => Turns(tasks')
  BY <1>1 DEF Turns
<1>7. SpinInv'
  BY <1>6 DEF PageInv, SpinInv
<1>8. QED
  BY <1>5, <1>7

\* What is the same of every handler when one is answered.
LEMMA ReceivedIs ==
    ASSUME NEW k \in Slots, NEW r \in tasks[k].sent, NEW d, NEW a, NEW ts, Received(d, ts, k, r, a), NEW j \in Slots
    PROVE  /\ ts[j].at = tasks[j].at /\ ts[j].arg = tasks[j].arg /\ ts[j].live = tasks[j].live
           /\ Requested(ts[j]) = Requested(tasks[j])
           /\ Written(tasks[j]) => Written(ts[j])
           /\ Creating(ts[j]) => Creating(tasks[j])
           /\ Loads(tasks[j]) => Loads(ts[j])
<1>1. CASE j # k
  BY <1>1 DEF Received
<1>2. CASE j = k
  <2>1. /\ ts[j].at = tasks[j].at /\ ts[j].arg = tasks[j].arg /\ ts[j].live = tasks[j].live
        /\ ts[j].sent = tasks[j].sent \ {r} /\ DOMAIN ts[j].got = DOMAIN tasks[j].got \cup {r}
        /\ r \in tasks[j].sent
    BY <1>2 DEF Received
  <2>2. Requested(ts[j]) = Requested(tasks[j])
    BY <2>1 DEF Requested
  <2>3. Written(tasks[j]) => Written(ts[j])
    BY <2>1 DEF Written
  <2>4. Creating(ts[j]) => Creating(tasks[j])
    BY <2>1 DEF Creating
  <2>5. Loads(tasks[j]) => Loads(ts[j])
    BY <2>1, <2>3 DEF Loads
  <2>6. QED
    BY <2>1, <2>2, <2>3, <2>4, <2>5
<1>3. QED
  BY <1>1, <1>2

\* Handlers in other states of the same awaits rely on the same.
LEMMA SameHandler ==
    ASSUME NEW v, NEW t, NEW o, o.at = t.at, o.arg = t.arg, o.live = t.live, Requested(o) = Requested(t)
    PROVE  /\ Relies(v, o) <=> Relies(v, t)
           /\ Late(o) <=> Late(t)
           /\ Saves(o) <=> Saves(t)
           /\ Deletes(o) <=> Deletes(t)
           /\ \A d, u : Beside(d, o, u) <=> Beside(d, t, u)
           /\ \A d, u : Beside(d, u, o) <=> Beside(d, u, t)
<1>1. (Late(o) <=> Late(t)) /\ (Saves(o) <=> Saves(t)) /\ (Deletes(o) <=> Deletes(t))
  BY DEF Late, Saves, Deletes
<1>2. Relies(v, o) <=> Relies(v, t)
  BY <1>1 DEF Relies
<1>3. \A d, u : Beside(d, o, u) <=> Beside(d, t, u)
  BY <1>1 DEF Beside
<1>4. \A d, u : Beside(d, u, o) <=> Beside(d, u, t)
  BY <1>1 DEF Beside
<1>5. QED
  BY <1>1, <1>2, <1>3, <1>4

\* A request that changes nothing keeps what a user who waits sees.
LEMMA AnswerCalm ==
    ASSUME NEW k \in Slots, NEW r \in tasks[k].sent, NEW a, NEW ts, Received(db, ts, k, r, a),
           StillSo(db, r, a), Settled(db, ui, tasks, due)
    PROVE  Settled(db, ui, ts, due)
<1>1. \A j \in Slots :
        /\ ts[j].at = tasks[j].at /\ ts[j].arg = tasks[j].arg /\ ts[j].live = tasks[j].live
        /\ Requested(ts[j]) = Requested(tasks[j])
        /\ Written(tasks[j]) => Written(ts[j])
        /\ Creating(ts[j]) => Creating(tasks[j])
        /\ Loads(tasks[j]) => Loads(ts[j])
  BY ReceivedIs
<1>2. PICK v : v = ui.view
  OBVIOUS
<1>3. \A j \in Slots : /\ Relies(v, ts[j]) <=> Relies(v, tasks[j])
                       /\ Saves(ts[j]) <=> Saves(tasks[j])
                       /\ Deletes(ts[j]) <=> Deletes(tasks[j])
                       /\ \A d, u : Beside(d, ts[j], u) <=> Beside(d, tasks[j], u)
                       /\ \A d, u : Beside(d, u, ts[j]) <=> Beside(d, u, tasks[j])
  BY <1>1, SameHandler
<1>4. /\ Single(db, v, tasks) /\ AnswersHold(db, tasks) /\ GateHolds(db, ui, tasks) /\ Counted(db, v, tasks, due)
      /\ Mounted(ui) # None => ListHolds(db, Mounted(ui), v, tasks) /\ DetailsHold(db, Mounted(ui), v, tasks)
  BY <1>2 DEF Settled
<1>5. Single(db, v, ts)
  <2>1. \A j \in Slots : ts[j].at # "idle" => Relies(v, ts[j])
    BY <1>1, <1>3, <1>4 DEF Single
  <2>2. ASSUME NEW i \in Slots, NEW j \in Slots, i # j, ts[i].at # "idle", ts[j].at # "idle"
        PROVE  Beside(db, ts[i], ts[j]) \/ Beside(db, ts[j], ts[i])
    <3>1. Beside(db, tasks[i], tasks[j]) \/ Beside(db, tasks[j], tasks[i])
      BY <1>1, <1>4, <2>2 DEF Single
    <3>2. QED
      BY <1>3, <3>1
  <2>3. QED
    BY <2>1, <2>2 DEF Single
<1>6. AnswersHold(db, ts)
  <2> SUFFICES ASSUME NEW j \in Slots, NEW q \in DOMAIN ts[j].got PROVE StillSo(db, q, ts[j].got[q])
    BY DEF AnswersHold
  <2>1. CASE q \in DOMAIN tasks[j].got
    <3>1. ts[j].got[q] = tasks[j].got[q]
      BY <2>1 DEF Received
    <3>2. QED
      BY <1>4, <2>1, <3>1 DEF AnswersHold
  <2>2. CASE q \notin DOMAIN tasks[j].got
    <3>1. q = r /\ ts[j].got[q] = a
      BY <2>2 DEF Received
    <3>2. QED
      BY <3>1
  <2>3. QED
    BY <2>1, <2>2
<1>7. GateHolds(db, ui, ts)
  BY <1>1, <1>4 DEF GateHolds
<1>8. Counted(db, v, ts, due)
  <2>1. NewForm(v, ts) => NewForm(v, tasks)
    BY <1>3 DEF NewForm
  <2>2. QED
    BY <1>1, <1>4, <2>1 DEF Counted
<1>9. \A t : ListHolds(db, t, v, tasks) => ListHolds(db, t, v, ts)
  BY <1>1 DEF ListHolds
<1>10. ASSUME NEW t, DetailsHold(db, t, v, tasks) PROVE DetailsHold(db, t, v, ts)
  <2>1. Deleted(tasks) => Deleted(ts)
    BY <1>1 DEF Deleted
  <2>2. (\E j \in Slots : Loads(tasks[j])) => \E j \in Slots : Loads(ts[j])
    BY <1>1
  <2>3. (\E j \in Slots : tasks[j].at = "list" /\ Deletes(tasks[j])) => \E j \in Slots : ts[j].at = "list" /\ Deletes(ts[j])
    BY <1>1, <1>3
  <2>4. QED
    BY <1>10, <2>1, <2>2, <2>3 DEF DetailsHold
<1>11. QED
  BY <1>2, <1>4, <1>5, <1>6, <1>7, <1>8, <1>9, <1>10 DEF Settled

\* A handler that writes beside another changes nothing.
LEMMA WritesAlone ==
    ASSUME PageInv, ~hasty, ~failed, NEW k \in Slots, NEW r \in tasks[k].sent, tasks[k].at \in WritesAt,
           NEW t, NEW d, Done(tasks[k].at, t, r, d), d # db
    PROVE  \A j \in Slots : j # k => tasks[j].at = "idle"
<1> SUFFICES ASSUME NEW j \in Slots, j # k, tasks[j].at # "idle" PROVE FALSE
  OBVIOUS
<1>1. tasks[k].at = "save" \/ tasks[k].at = "delete"
  BY DEF WritesAt
<1>2. Single(db, ui.view, tasks)
  BY <1>1, PatientTask
<1>3. ~Late(tasks[k])
  BY <1>1 DEF Late
<1>4. Beside(db, tasks[k], tasks[j])
  BY <1>1, <1>2, <1>3, OthersAre
<1>5. tasks[k].at = "save"
  BY <1>1, <1>4 DEF Beside, Late, Saves
<1>6. r[1] = "update" /\ r[3] \in DOMAIN db.records[r[2]] /\ db.records[r[2]][r[3]] = r[4]
  BY <1>4, <1>5 DEF Beside, Requested
<1>7. QED
  BY <1>5, <1>6 DEF Done

\* A request that writes keeps what a user who waits sees: the handler that sent it will
\* show what it has done.
LEMMA WriteCalm ==
    ASSUME PageInv, ~hasty, ~failed, NEW k \in Slots, NEW r \in tasks[k].sent, tasks[k].at \in WritesAt,
           NEW t \in PageTabs, t = tasks[k].arg.tab, NEW d, Done(tasks[k].at, t, r, d),
           NEW a, StillSo(d, r, a), NEW ts, Received(d, ts, k, r, a),
           \A j \in Slots : j # k => tasks[j].at = "idle"
    PROVE  Settled(d, ui, ts, due)
<1>1. tasks[k].at = "save" \/ tasks[k].at = "delete"
  BY DEF WritesAt
<1>2. PICK v : v = ui.view
  OBVIOUS
<1>3. /\ Relies(v, tasks[k]) /\ tasks[k].live /\ AnswersHold(db, tasks) /\ GateHolds(db, ui, tasks)
      /\ Counted(db, v, tasks, due)
      /\ Here # None => ListHolds(db, Here, v, tasks) /\ DetailsHold(db, Here, v, tasks)
  BY <1>1, <1>2, PatientTask
<1>4. GoodTasks(db, tasks) /\ GoodTask(db, tasks[k]) /\ Placed(ui, tasks[k])
  BY ScreenIs DEF PageInv, GoodTasks, AllPlaced
<1>5. Mounted(ui) = t /\ Here = t /\ t # None /\ ui.tab = t
  <2>1. Mounted(ui) = t
    BY <1>1, <1>3, <1>4 DEF Placed, TabOf
  <2>2. t # None
    BY TabsAre
  <2>3. Here = t
    BY <2>1 DEF Here
  <2>4. QED
    BY <2>1, <2>2, <2>3, ScreenIs DEF PageInv
<1>6. \A j \in Slots :
        /\ ts[j].at = tasks[j].at /\ ts[j].arg = tasks[j].arg /\ ts[j].live = tasks[j].live
        /\ Requested(ts[j]) = Requested(tasks[j])
        /\ Written(tasks[j]) => Written(ts[j])
        /\ Creating(ts[j]) => Creating(tasks[j])
  BY ReceivedIs
<1>7. \A j \in Slots : j # k => /\ ts[j].at = "idle" /\ DOMAIN ts[j].got = {} /\ tasks[j].at = "idle"
                                /\ ~Written(tasks[j]) /\ ts[j].sent = {}
  BY <1>4, IdleIs DEF Received, GoodTasks, Written
<1>8. tasks[k].sent = {r} /\ DOMAIN tasks[k].got = {}
  <2>1. /\ Asks(db, tasks[k].at, tasks[k].arg, Requested(tasks[k]))
        /\ tasks[k].sent \cap DOMAIN tasks[k].got = {}
    BY <1>1, <1>4, BusyIs DEF Requested
  <2>2. Requested(tasks[k]) = {r}
    <3>1. r \in Requested(tasks[k])
      BY DEF Requested
    <3>2. QED
      BY <2>1, <3>1, RequestIs
  <2>3. QED
    BY <2>1, <2>2 DEF Requested
<1>9. DOMAIN ts[k].got = {r} /\ ts[k].got[r] = a /\ ts[k].sent = {} /\ Written(ts[k])
  BY <1>1, <1>6, <1>8 DEF Received, Written
<1>10. Single(d, v, ts)
  <2>1. \A j \in Slots : ts[j].at # "idle" => j = k
    BY <1>7
  <2>2. Relies(v, ts[k])
    BY <1>3, <1>6, SameHandler
  <2>3. QED
    BY <2>1, <2>2 DEF Single
<1>11. AnswersHold(d, ts)
  BY <1>7, <1>9 DEF AnswersHold
<1>12. GateHolds(d, ui, ts)
  <2>1. ui.tab = "connections" /\ ui.hasAuthorizers => Any(d)
    <3>1. ASSUME t = "connections" PROVE d.records["authorizers"] = db.records["authorizers"]
      BY <3>1, TabsAre DEF Done
    <3>2. QED
      BY <1>3, <1>5, <3>1 DEF GateHolds, Any
  <2>2. QED
    BY <1>9, <2>1 DEF GateHolds
<1>13. Counted(d, v, ts, due)
  <2>1. ~\E j \in Slots : Creating(ts[j])
    BY <1>7, <1>9 DEF Creating
  <2>2. NewForm(v, ts) => NewForm(v, tasks) /\ tasks[k].at # "save"
    <3>1. \A j \in Slots : Saves(ts[j]) <=> Saves(tasks[j])
      BY <1>6, SameHandler
    <3>2. QED
      BY <3>1 DEF NewForm, Saves
  <2>3. CASE tasks[k].at = "save" /\ r[1] = "create"
    <3>1. Creating(tasks[k])
      BY <2>3 DEF Creating
    <3>2. Cardinality(db.given) + 1 <= due
      BY <1>3, <3>1 DEF Counted
    <3>3. PICK i : i \notin db.given /\ d.given = db.given \cup {i}
      BY <2>3 DEF Done
    <3>4. IsFiniteSet(db.given)
      BY ScreenIs DEF PageInv, GoodDb
    <3>5. Cardinality(d.given) = Cardinality(db.given) + 1
      BY <3>3, <3>4, FS_AddElement
    <3>6. QED
      BY <2>1, <2>2, <2>3, <3>2, <3>5 DEF Counted
  <2>4. CASE d.given = db.given
    BY <1>3, <2>1, <2>2, <2>4 DEF Counted
  <2>5. QED
    BY <2>3, <2>4 DEF Done
<1>14. ListHolds(d, t, v, ts)
  BY <1>9 DEF ListHolds
<1>15. DetailsHold(d, t, v, ts)
  <2>1. DetailsHold(db, t, v, tasks)
    BY <1>3, <1>5
  <2>2. ~Deleted(tasks)
    BY <1>7, <1>8 DEF Deleted, Written
  <2>3. v.confirm # None => ~v.open /\ v.confirm = v.id
    <3>1. ~\E j \in Slots : tasks[j].at = "list" /\ Deletes(tasks[j])
      BY <1>1, <1>7
    <3>2. QED
      BY <2>1, <3>1 DEF DetailsHold
  <2>4. CASE tasks[k].at = "delete"
    <3>1. Deleted(ts)
      BY <1>6, <1>9, <2>4 DEF Deleted
    <3>2. QED
      BY <2>1, <2>3, <3>1 DEF DetailsHold
  <2>5. CASE tasks[k].at = "save"
    <3>1. Loads(ts[k])
      BY <1>6, <1>9, <2>5 DEF Loads
    <3>2. ASSUME v.id # None PROVE v.id \in DOMAIN d.records[t]
      <4>1. r \in Requested(tasks[k])
        BY DEF Requested
      <4>2. r[1] # "create"
        BY <1>3, <2>5, <3>2, <4>1 DEF Relies
      <4>3. DOMAIN d.records[t] = DOMAIN db.records[t]
        BY <2>5, <4>2 DEF Done
      <4>4. v.id \in DOMAIN db.records[t]
        BY <2>1, <2>2, <3>2 DEF DetailsHold
      <4>5. QED
        BY <4>3, <4>4
    <3>3. QED
      BY <2>1, <2>3, <3>1, <3>2 DEF DetailsHold
  <2>6. QED
    BY <1>1, <2>4, <2>5
<1>16. QED
  BY <1>2, <1>5, <1>10, <1>11, <1>12, <1>13, <1>14, <1>15 DEF Settled

\* Every answer of the server, and every request that does not come through.
LEMMA ServerKeeps ==
    ASSUME PageInv, NEW k \in Slots, NEW r \in tasks[k].sent, Serve(k, r) \/ Fail(k, r)
    PROVE  PageInv'
<1>1. GoodDb(db) /\ GoodTasks(db, tasks) /\ GoodTask(db, tasks[k])
  BY ScreenIs DEF PageInv, GoodTasks
<1>2. HasId(r) /\ UNCHANGED <<url, ui, hasty, due>>
  BY DEF Serve, Fail
<1>3. PICK at, t : at = tasks[k].at /\ t = tasks[k].arg.tab
  OBVIOUS
<1>4. Reads(r) \/ (t \in PageTabs /\ Changes(at, t, r))
  <2>1. Asks(db, at, tasks[k].arg, tasks[k].sent \cup DOMAIN tasks[k].got)
    BY <1>1, <1>3, BusyIs
  <2>2. QED
    BY <1>3, <2>1, RequestIs
<1>5. PICK d : d = Effect(r)
  OBVIOUS
<1>6. Accepts(r) => \/ Reads(r) /\ d = db /\ Tells(d, r, Returns(r)) /\ StillSo(d, r, Ok(Returns(r)))
                    \/ t \in PageTabs /\ Changes(at, t, r) /\ Done(at, t, r, d)
  BY <1>1, <1>2, <1>4, <1>5, AnswersAre, WritesAre
<1>7. Accepts(r) => /\ GoodDb(d) /\ db.given \subseteq d.given
                    /\ Tells(d, r, Returns(r)) /\ StillSo(d, r, Ok(Returns(r)))
  BY <1>1, <1>6 DEF Done
<1>8. CASE Serve(k, r) /\ Accepts(r)
  <2>1. PICK a : a = Ok(Returns(r))
    OBVIOUS
  <2>2. db' = d /\ tasks' = Receive(tasks, k, r, a) /\ UNCHANGED failed
    BY <1>5, <1>8, <2>1 DEF Serve
  <2>3. a = Ok(a.data) /\ a.data = Returns(r)
    BY <2>1 DEF Ok
  <2>4. GoodAnswer(d, r, a) /\ StillSo(d, r, a)
    BY <1>7, <1>8, <2>1, <2>3 DEF GoodAnswer
  <2>5. Received(d, tasks', k, r, a)
    BY <1>1, <1>7, <1>8, <2>2, <2>4, ReceiveIs
  <2>6. TypeInv' /\ SpinInv'
    <3>1. Received(db', tasks', k, r, a) /\ GoodDb(db') /\ db.given \subseteq db'.given
      BY <1>7, <1>8, <2>2, <2>5
    <3>2. QED
      BY <1>2, <3>1, AnswerKeeps
  <2>7. ASSUME ~hasty, ~failed PROVE Settled(d, ui, tasks', due) /\ Unedited(ui.view, tasks')
    <3>1. Settled(db, ui, tasks, due) /\ Unedited(ui.view, tasks)
      BY <2>7 DEF PageInv, CalmInv
    <3>2. \A j \in Slots : tasks'[j].at = tasks[j].at
      BY <2>5, ReceivedIs
    <3>3. Unedited(ui.view, tasks')
      BY <3>1, <3>2 DEF Unedited
    <3>4. CASE d = db
      <4>1. Received(db, tasks', k, r, a) /\ StillSo(db, r, a)
        BY <2>4, <2>5, <3>4
      <4>2. Settled(db, ui, tasks', due)
        BY <3>1, <4>1, AnswerCalm
      <4>3. QED
        BY <3>3, <3>4, <4>2
    <3>5. CASE d # db
      <4>1. t \in PageTabs /\ Done(at, t, r, d) /\ Changes(at, t, r)
        BY <1>6, <1>8, <3>5
      <4>2. tasks[k].at \in WritesAt
        BY <1>3, <4>1 DEF Changes, WritesAt
      <4>3. Done(tasks[k].at, t, r, d)
        BY <1>3, <4>1
      <4>4. \A j \in Slots : j # k => tasks[j].at = "idle"
        BY <2>7, <3>5, <4>2, <4>3, WritesAlone
      <4>5. Settled(d, ui, tasks', due)
        BY <1>3, <2>4, <2>5, <2>7, <4>1, <4>2, <4>3, <4>4, WriteCalm
      <4>6. QED
        BY <3>3, <4>5
    <3>6. QED
      BY <3>4, <3>5
  <2>8. CalmInv'
    <3>1. ASSUME ~hasty', ~failed' PROVE Settled(db', ui', tasks', due') /\ Unedited(ui'.view, tasks')
      BY <1>2, <2>2, <2>7, <3>1
    <3>2. /\ Settled(db, ui, tasks, due)' <=> Settled(db', ui', tasks', due')
          /\ Unedited(ui.view, tasks)' <=> Unedited(ui'.view, tasks')
      OBVIOUS
    <3>3. QED
      BY <3>1, <3>2 DEF CalmInv
  <2>9. QED
    BY <2>6, <2>8 DEF PageInv
<1>9. CASE Fail(k, r) \/ ~Accepts(r)
  <2>1. tasks' = Receive(tasks, k, r, Failure) /\ failed' /\ (db' = db \/ (Accepts(r) /\ db' = d))
    BY <1>5, <1>9 DEF Fail, Serve
  <2>2. GoodDb(db') /\ db.given \subseteq db'.given
    BY <1>1, <1>7, <2>1
  <2>3. GoodAnswer(db', r, Failure)
    BY DEF GoodAnswer
  <2>4. Received(db', tasks', k, r, Failure)
    BY <1>1, <2>1, <2>2, <2>3, ReceiveIs
  <2>5. TypeInv' /\ SpinInv'
    BY <1>2, <2>2, <2>4, AnswerKeeps
  <2>6. QED
    BY <2>1, <2>5 DEF PageInv, CalmInv
<1>10. QED
  BY <1>8, <1>9

-----------------------------------------------------------------------------
(* The invariant.                                                          *)

\* The page begins with the tab of the URL and its fetch.
LEMMA InitKeeps ==
    ASSUME Init
    PROVE  PageInv
<1>1. PICK begin \in {{}, InitialAuthorizers}, u \in PageTabs \cup {None}, t \in PageTabs \cup {None} :
        /\ t = IF u = "connections" THEN None ELSE "authorizers"
        /\ db = [records |-> [authorizers |-> [a \in begin |-> a],
                              connections |-> [c \in InitialConnections |-> c]],
                 given |-> begin \cup InitialConnections]
        /\ url = u
        /\ ui = [tab |-> IF u = None THEN "authorizers" ELSE u, hasAuthorizers |-> FALSE,
                 view |-> [NoView EXCEPT !.loading = t # None]]
        /\ tasks = IF t = None THEN [k \in Slots |-> Idle]
                   ELSE Begin([k \in Slots |-> Idle], fetchList(t, "nothing", None))
        /\ due = Cardinality(begin \cup InitialConnections)
        /\ failed = FALSE /\ hasty = FALSE
  BY TabsAre DEF Init
<1>2. PICK f, g, n : /\ f = [a \in begin |-> a] /\ g = [c \in InitialConnections |-> c]
                     /\ n = begin \cup InitialConnections
  OBVIOUS
<1>3. /\ begin \subseteq InitialAuthorizers /\ InitialAuthorizers \subseteq Authorizers /\ InitialConnections \subseteq Connections
      /\ n \subseteq Authorizers \cup Connections
  BY <1>1, <1>2, SettingsAssumption
<1>4. IsFiniteSet(n)
  <2>1. n \subseteq InitialAuthorizers \cup InitialConnections
    BY <1>2, <1>3
  <2>2. QED
    BY <2>1, SettingsAssumption, FS_Subset
<1>5. /\ f \in Partial(Authorizers, Texts) /\ DOMAIN f = begin /\ \A a \in begin : f[a] = a
      /\ g \in Partial(Connections, Texts) /\ DOMAIN g = InitialConnections
  <2>1. f \in [begin -> Texts] /\ begin \in SUBSET Authorizers
    BY <1>2, <1>3 DEF Texts
  <2>2. g \in [InitialConnections -> Texts] /\ InitialConnections \in SUBSET Connections
    BY <1>2, <1>3 DEF Texts
  <2>3. QED
    BY <1>2, <2>1, <2>2 DEF Partial
<1>6. GoodDb(db) /\ db.given = n /\ db.records["authorizers"] = f
  <2>1. PICK h : h = [authorizers |-> f, connections |-> g]
    OBVIOUS
  <2>2. db = [records |-> h, given |-> n]
    BY <1>1, <1>2, <2>1
  <2>3. db.records = h /\ db.given = n /\ db = [records |-> db.records, given |-> db.given]
    BY <2>2
  <2>4. h["authorizers"] = f /\ h["connections"] = g /\ h = [o \in PageTabs |-> h[o]]
    BY <2>1 DEF PageTabs
  <2>5. ASSUME NEW o \in PageTabs
        PROVE  h[o] \in Partial(Ids[o], Texts) /\ DOMAIN h[o] \subseteq n /\ \A i \in DOMAIN h[o] : Meant(db, o, i, h[o][i])
    <3>1. CASE o = "authorizers"
      <4>1. begin # {} => Known(db)
        BY <1>1, <1>2, <2>3 DEF Known
      <4>2. \A i \in begin : Meant(db, o, i, i)
        BY <4>1 DEF Meant
      <4>3. QED
        BY <1>2, <1>5, <2>4, <3>1, <4>2, TabsAre
    <3>2. CASE o = "connections"
      <4>1. o # "authorizers"
        BY <3>2
      <4>2. QED
        BY <1>2, <1>5, <2>4, <3>2, <4>1, TabsAre DEF Meant
    <3>3. QED
      BY <3>1, <3>2, TabsAre
  <2>6. QED
    BY <1>3, <1>4, <2>3, <2>4, <2>5 DEF GoodDb
<1>7. t \in PageTabs \cup {None} /\ t # "connections"
  BY <1>1, TabsAre
<1>8. PICK w : w = NewView(t)
  OBVIOUS
<1>9. /\ Page(ui) /\ ui.view = w /\ ui.hasAuthorizers = FALSE
      /\ t = None => ui.tab = "connections"
      /\ t # None => ui.tab = "authorizers" /\ t = "authorizers"
  <2>1. PICK o \in PageTabs : o = IF u = None THEN "authorizers" ELSE u
    BY <1>1, TabsAre
  <2>2. ui = [tab |-> o, hasAuthorizers |-> FALSE, view |-> w]
    BY <1>1, <1>8, <2>1 DEF NewView
  <2>3. Page(ui) /\ ui.view = w /\ ui.hasAuthorizers = FALSE /\ ui.tab = o
    BY <2>2 DEF Page
  <2>4. o \in {"authorizers", "connections"} /\ (u = "connections" <=> o = "connections")
    BY <2>1, TabsAre
  <2>5. QED
    BY <1>1, <2>3, <2>4, TabsAre
<1>10. Mounted(ui) = t
  BY <1>9, TabsAre DEF Mounted
<1>11. /\ w.list = <<>> /\ w.id = None /\ w.selected = None /\ w.loading = (t # None) /\ w.open = FALSE
       /\ w.confirm = None
       /\ IF t = None THEN w = NoView ELSE FormMeant(w) /\ \A d : GoodView(d, t, w)
  BY <1>7, <1>8, NewViewIs
<1>12. GoodUi(db, ui)
  BY <1>9, <1>10, <1>11 DEF GoodUi
<1>13. PICK e, z : e = fetchList(t, "nothing", None) /\ z = [k \in Slots |-> Idle]
  OBVIOUS
<1>14. Idle.at = "idle" /\ DOMAIN Idle.got = {} /\ ~Idle.live /\ \A d : GoodTask(d, Idle)
  BY IdleIs
<1>15. DOMAIN z = Slots /\ \A k \in Slots : z[k] = Idle
  BY <1>13
<1>16. url \in PageTabs \cup {None} /\ due \in Nat /\ due = Cardinality(n)
  BY <1>1, <1>2, <1>4, FS_CardinalityType
<1>17. ~w.open /\ w.confirm = None
  BY <1>11
<1>18. CASE t = None
  <2>1. \A k \in Slots : tasks[k] = Idle
    BY <1>1, <1>13, <1>15, <1>18
  <2>2. DOMAIN tasks = Slots
    BY <1>1, <1>13, <1>15, <1>18
  <2>3. GoodTasks(db, tasks) /\ AllPlaced(ui, tasks) /\ AllIdle(tasks)
    BY <1>14, <2>1, <2>2 DEF GoodTasks, AllPlaced, Placed, AllIdle
  <2>4. TypeInv
    BY <1>6, <1>12, <1>16, <2>3 DEF TypeInv
  <2>5. SpinInv
    BY <1>9, <1>11, <1>18 DEF SpinInv
  <2>6. Quiet(db, ui, due)
    <3>1. Cardinality(db.given) <= due
      BY <1>6, <1>16
    <3>2. "connections" # "authorizers" /\ ~ui.hasAuthorizers /\ ui.tab = "connections" /\ ~ui.view.open
      BY <1>9, <1>17, <1>18
    <3>3. QED
      BY <1>10, <1>18, <3>1, <3>2 DEF Quiet
  <2>7. CalmInv
    <3>1. Settled(db, ui, tasks, due)
      BY <2>3, <2>6, QuietIs
    <3>2. Unedited(ui.view, tasks)
      BY <1>9, <1>17 DEF Unedited
    <3>3. QED
      BY <3>1, <3>2 DEF CalmInv
  <2>8. QED
    BY <2>4, <2>5, <2>7 DEF PageInv
<1>19. CASE t # None
  <2>1. /\ GoodTask(db, e) /\ e.at = "list" /\ e.arg.tab = t /\ e.arg.then = "nothing"
        /\ e.live /\ DOMAIN e.got = {} /\ e.sent = {getAll(t)}
    BY <1>7, <1>13, <1>19, FirstFetchIs
  <2>2. HasRoom(z)
    <3>1. 1 \in Slots
      BY MaxTasksAssumption DEF Slots
    <3>2. QED
      BY <1>14, <1>15, <3>1 DEF HasRoom, Free, Running
  <2>3. tasks = Begin(z, e)
    BY <1>1, <1>13, <1>19
  <2>4. PICK i \in Slots : DOMAIN tasks = Slots /\ \A k \in Slots : tasks[k] = IF k = i THEN e ELSE Idle
    BY <1>15, <2>2, <2>3, BeginIs
  <2>5. tasks[i] = e /\ \A k \in Slots : k # i => tasks[k] = Idle
    BY <2>4
  <2>6. GoodTasks(db, tasks)
    BY <1>14, <2>1, <2>4 DEF GoodTasks
  <2>7. AllPlaced(ui, tasks)
    <3>1. Placed(ui, e)
      BY <1>10, <2>1 DEF Placed, TabOf
    <3>2. Placed(ui, Idle)
      BY <1>14 DEF Placed
    <3>3. QED
      BY <2>4, <3>1, <3>2 DEF AllPlaced
  <2>8. TypeInv
    BY <1>6, <1>12, <1>16, <2>6, <2>7 DEF TypeInv
  <2>9. SpinInv
    BY <2>1, <2>5 DEF SpinInv, Turns
  <2>10. \A k \in Slots : k # i => tasks[k].at = "idle" /\ DOMAIN tasks[k].got = {}
    BY <1>14, <2>5
  <2>11. Single(db, w, tasks)
    <3>1. Relies(w, e)
      BY <1>17, <2>1 DEF Relies, Late, Deletes
    <3>2. QED
      BY <2>5, <2>10, <3>1 DEF Single
  <2>12. AnswersHold(db, tasks)
    BY <2>1, <2>5, <2>10 DEF AnswersHold
  <2>13. GateHolds(db, ui, tasks) /\ ListHolds(db, t, w, tasks)
    BY <1>9, <2>1, <2>5 DEF GateHolds, ListHolds
  <2>14. Counted(db, w, tasks, due)
    <3>1. ~NewForm(w, tasks)
      BY <1>17 DEF NewForm
    <3>2. ~\E k \in Slots : Creating(tasks[k])
      BY <2>1, <2>5, <2>10 DEF Creating
    <3>3. Cardinality(db.given) <= due
      BY <1>6, <1>16
    <3>4. QED
      BY <3>1, <3>2, <3>3 DEF Counted
  <2>15. DetailsHold(db, t, w, tasks)
    BY <1>11 DEF DetailsHold
  <2>16. CalmInv
    <3>1. Settled(db, ui, tasks, due)
      BY <1>9, <1>10, <2>11, <2>12, <2>13, <2>14, <2>15 DEF Settled
    <3>2. Unedited(ui.view, tasks)
      BY <1>9, <1>17 DEF Unedited
    <3>3. QED
      BY <3>1, <3>2 DEF CalmInv
  <2>17. QED
    BY <2>8, <2>9, <2>16 DEF PageInv
<1>20. QED
  BY <1>18, <1>19

\* Every step keeps the invariant.
LEMMA NextKeeps ==
    ASSUME PageInv, [Next]_vars
    PROVE  PageInv'
<1>1. CASE UNCHANGED vars
  <2>1. UNCHANGED <<db, url, ui, tasks, failed, hasty, due>>
    BY <1>1 DEF vars
  <2>2. TypeInv'
    BY <2>1 DEF PageInv, TypeInv, GoodDb, GoodUi, GoodTasks, AllPlaced
  <2>3. SpinInv'
    BY <2>1 DEF PageInv, SpinInv, Turns
  <2>4. (Settled(db, ui, tasks, due)' <=> Settled(db', ui', tasks', due')) /\ (Unedited(ui.view, tasks)' <=> Unedited(ui'.view, tasks'))
    OBVIOUS
  <2>5. CalmInv'
    BY <2>1, <2>4 DEF PageInv, CalmInv
  <2>6. QED
    BY <2>2, <2>3, <2>5 DEF PageInv
<1>2. ASSUME ClickStep \/ \E u \in PageTabs \cup {None} : Back(u) PROVE PageInv'
  BY <1>2, ClicksKeep, BackKeeps
<1>3. ASSUME NEW k \in Slots, HandlerStep(k) PROVE PageInv'
  BY <1>3, HandlersKeep
<1>4. ASSUME NEW k \in Slots, NEW r \in tasks[k].sent, Serve(k, r) \/ Fail(k, r) PROVE PageInv'
  BY <1>4, ServerKeeps
<1>5. QED
  BY <1>1, <1>2, <1>3, <1>4 DEF Next

\* What the page promises follows from the invariant.
LEMMA Promises ==
    ASSUME PageInv
    PROVE  TypeOK /\ ShownIsTrue /\ SavesAreMeant
<1>1. /\ Page(ui) /\ Here \in PageTabs \cup {None} /\ (Here # None => GoodView(db, Here, ui.view))
      /\ Here = None => ui.view = NoView
      /\ GoodDb(db) /\ url \in PageTabs \cup {None} /\ GoodTasks(db, tasks)
  BY ScreenIs DEF PageInv
<1>2. ASSUME NEW t \in PageTabs
      PROVE  /\ DOMAIN Records(t) \subseteq Ids[t] /\ Records(t) = [i \in DOMAIN Records(t) |-> Records(t)[i]]
             /\ \A i \in DOMAIN Records(t) : Records(t)[i] \in Texts /\ Meant(db, t, i, Records(t)[i])
  <2>1. Records(t) = db.records[t]
    BY DEF Records
  <2>2. db.records[t] \in Partial(Ids[t], Texts) /\ \A i \in DOMAIN db.records[t] : Meant(db, t, i, db.records[t][i])
    BY <1>1 DEF GoodDb
  <2>3. QED
    BY <2>1, <2>2, PartialIs
<1>3. TypeOK
  <2>1. PICK v : v = ui.view
    OBVIOUS
  <2>2. Here # None => /\ DOMAIN v.list \subseteq Ids[Here]
                       /\ v.id \in Ids[Here] \cup {None}
                       /\ v.selected \in {None} \cup [id : Ids[Here], text : Texts]
                       /\ v.confirm \in Ids[Here] \cup {None}
    BY <1>1, <2>1, FieldsAre, PartialIs
  <2>3. v.choices \subseteq Authorizers /\ v.form \in Texts \cup {Blank} /\ (v.temp => v.open)
    <3>1. CASE Here = None
      BY <1>1, <2>1, <3>1, ShapeIs
    <3>2. CASE Here # None
      BY <1>1, <2>1, <3>2, FieldsAre
    <3>3. QED
      BY <3>1, <3>2
  <2>4. ui.tab \in PageTabs /\ ui.hasAuthorizers \in BOOLEAN
    BY <1>1 DEF Page
  <2>5. QED
    BY <1>1, <1>2, <2>1, <2>2, <2>3, <2>4 DEF TypeOK, View
<1>4. ShownIsTrue
  <2>1. ASSUME Undisturbed PROVE Quiet(db, ui, due)
    <3>1. ~hasty /\ ~failed /\ AllIdle(tasks)
      BY <2>1 DEF Undisturbed, Busy, Running, AllIdle
    <3>2. Settled(db, ui, tasks, due)
      BY <3>1 DEF PageInv, CalmInv
    <3>3. QED
      BY <1>1, <3>1, <3>2, QuietIs
  <2>2. ListIsTrue
    BY <2>1 DEF ListIsTrue, Quiet, Here, View, Records
  <2>3. DetailsAreTrue
    BY <2>1 DEF DetailsAreTrue, Quiet, Here, View, Records, Found
  <2>4. GateIsTrue
    <3>1. PICK o, b : o = Records("authorizers") /\ b \in BOOLEAN /\ b = (o # <<>>)
      OBVIOUS
    <3>2. o = [i \in DOMAIN o |-> o[i]] /\ o = db.records["authorizers"]
      BY <1>2, <3>1, TabsAre DEF Records
    <3>3. b <=> Any(db)
      <4>1. DOMAIN <<>> = {}
        OBVIOUS
      <4>2. ASSUME DOMAIN o = {} PROVE o = <<>>
        <5>1. PICK e : e = DOMAIN o
          OBVIOUS
        <5>2. o = [i \in e |-> o[i]] /\ e = {}
          BY <3>2, <4>2, <5>1
        <5>3. [i \in {} |-> o[i]] = <<>>
          OBVIOUS
        <5>4. QED
          BY <5>2, <5>3
      <4>3. QED
        BY <3>1, <3>2, <4>1, <4>2 DEF Any
    <3>4. ASSUME Undisturbed
          PROVE  (ui.hasAuthorizers => b) /\ (ui.tab = "authorizers" => ui.hasAuthorizers = b)
      <4>1. /\ ui.tab = "connections" /\ ui.hasAuthorizers => Any(db)
            /\ ui.tab = "authorizers" => ui.hasAuthorizers = Any(db)
        BY <2>1, <3>4 DEF Quiet
      <4>2. ui.tab = "authorizers" \/ ui.tab = "connections"
        BY <1>1, TabsAre DEF Page
      <4>3. PICK h, y : h = ui.hasAuthorizers /\ y = Any(db)
        OBVIOUS
      <4>4. h \in BOOLEAN /\ y \in BOOLEAN /\ b \in BOOLEAN
        BY <1>1, <3>1, <4>3 DEF Page, Any
      <4>5. b <=> y
        BY <3>3, <4>3
      <4>6. (ui.tab = "connections" /\ h => y) /\ (ui.tab = "authorizers" => (h <=> y))
        BY <4>1, <4>3
      <4>7. (h => b) /\ (ui.tab = "authorizers" => h = b)
        BY <4>2, <4>4, <4>5, <4>6
      <4>8. QED
        BY <4>3, <4>7
    <3>5. QED
      BY <3>1, <3>4 DEF GateIsTrue
  <2>5. SpinnersEnd
    BY DEF SpinnersEnd, Busy, Running, View, PageInv, SpinInv, Turns
  <2>6. QED
    BY <2>2, <2>3, <2>4, <2>5 DEF ShownIsTrue
<1>5. SavesAreMeant
  <2>1. EditedIsUpdated
    <3> SUFFICES ASSUME NEW a \in InitialAuthorizers, a \in DOMAIN Records("authorizers")
                 PROVE  Records("authorizers")[a] \in {a, Typed}
      BY DEF EditedIsUpdated
    <3>1. Meant(db, "authorizers", a, Records("authorizers")[a])
      BY <1>2, TabsAre
    <3>2. QED
      BY <3>1 DEF Meant
  <2>2. CreatedOnce
    BY DEF CreatedOnce, PageInv, CalmInv, Settled, Counted
  <2>3. QED
    BY <2>1, <2>2 DEF SavesAreMeant
<1>6. QED
  BY <1>3, <1>4, <1>5

-----------------------------------------------------------------------------
(* The theorems.                                                           *)

\* The inductive invariant: types, spinners with the handlers that stop them, and what is
\* settled for a user who waits.
THEOREM PageCorrect == Spec => []PageInv
<1>1. Init => PageInv
  BY InitKeeps
<1>2. PageInv /\ [Next]_vars => PageInv'
  BY NextKeeps
<1>3. QED
  BY <1>1, <1>2, PTL DEF Spec

\* Every variable keeps its type: no record is saved without a text, and what a tab shows
\* are records of its own kind, whatever fails and overlaps.
THEOREM TypeCorrect == Spec => []TypeOK
<1>1. PageInv => TypeOK
  BY Promises
<1>2. QED
  BY <1>1, PageCorrect, PTL

\* The list, the selected record and the way to the other tab are the server's when nothing
\* runs any more after a patient user's clicks, and no spinner is left.
THEOREM ShownCorrect == Spec => []ShownIsTrue
<1>1. PageInv => ShownIsTrue
  BY Promises
<1>2. QED
  BY <1>1, PageCorrect, PTL

\* No update gives an authorizer that was there at first the text of another, and every
\* record a patient user creates answers a form that was opened for it.  Of the texts new
\* authorizers are created with nothing is claimed.
THEOREM SavesCorrect == Spec => []SavesAreMeant
<1>1. PageInv => SavesAreMeant
  BY Promises
<1>2. QED
  BY <1>1, PageCorrect, PTL
=============================================================================
