-------------------------- MODULE PluginSyncProofs --------------------------
(***************************************************************************)
(* Theorems about PluginSync, for every set of hosts, plugins and          *)
(* functions and every bound: what handlers that overlap, fail half way    *)
(* and meet edits of the owner leave in the tables and on the hosts.       *)
(***************************************************************************)
EXTENDS PluginSync, Integers, SequenceTheorems, FiniteSetTheorems,
        WellFoundedInduction, TLAPS

-----------------------------------------------------------------------------
(* Numbers and sequences.                                                  *)

\* Min picks the least member of a set of naturals.
LEMMA MinIsMember ==
    ASSUME NEW I \in SUBSET Nat, I # {}
    PROVE  Min(I) \in I /\ \A y \in I : Min(I) <= y
<1>1. PICK x \in I : \A y \in I : ~(<<y, x>> \in OpToRel(<, Nat))
  BY NatLessThanWellFounded, WFMin
<1>2. \A y \in I : x <= y
  <2>1. \A n, k \in Nat : n < k => <<n, k>> \in OpToRel(<, Nat)
    BY DEF OpToRel
  <2>2. \A y \in I : ~(y < x)
    BY <1>1, <2>1
  <2>3. QED
    BY <2>2
<1>3. QED
  BY <1>2 DEF Min

\* What is left when a place is removed: each place that is left was another
\* place than the removed one, and every other place is left.
LEMMA Removed ==
    ASSUME NEW S, NEW rs \in Seq(S), NEW i \in DOMAIN rs
    PROVE  LET left == RemoveAt(rs, i)
               was(k) == IF k < i THEN k ELSE k + 1
           IN  /\ left \in Seq(S)
               /\ \A k \in DOMAIN left : was(k) \in DOMAIN rs \ {i} /\ left[k] = rs[was(k)]
               /\ \A j \in DOMAIN rs \ {i} : \E k \in DOMAIN left : was(k) = j
<1> DEFINE a == SubSeq(rs, 1, i - 1)
           b == SubSeq(rs, i + 1, Len(rs))
           was(k) == IF k < i THEN k ELSE k + 1
<1>1. Len(rs) \in Nat /\ i \in 1 .. Len(rs) /\ \A j \in 1 .. Len(rs) : rs[j] \in S
  OBVIOUS
<1>2. /\ a \in Seq(S) /\ Len(a) = i - 1
      /\ \A k \in 1 .. i - 1 : a[k] = rs[k]
  BY <1>1
<1>3. /\ b \in Seq(S) /\ Len(b) = Len(rs) - i
      /\ \A k \in 1 .. Len(rs) - i : b[k] = rs[i + k]
  BY <1>1
<1> HIDE DEF a, b
<1>4. /\ a \o b \in Seq(S) /\ Len(a \o b) = Len(rs) - 1
      /\ \A k \in 1 .. Len(rs) - 1 : (a \o b)[k] = IF k < i THEN a[k] ELSE b[k - (i - 1)]
  <2>1. \A v, w \in Seq(S) :
          /\ v \o w \in Seq(S)
          /\ Len(v \o w) = Len(v) + Len(w)
          /\ \A k \in 1 .. Len(v) + Len(w) : (v \o w)[k] = IF k <= Len(v) THEN v[k] ELSE w[k - Len(v)]
    BY ConcatProperties
  <2>2. Len(a) + Len(b) = Len(rs) - 1
    BY <1>1, <1>2, <1>3
  <2>3. /\ a \o b \in Seq(S) /\ Len(a \o b) = Len(rs) - 1
        /\ \A k \in 1 .. Len(rs) - 1 : (a \o b)[k] = IF k <= i - 1 THEN a[k] ELSE b[k - (i - 1)]
    <3>1. /\ a \o b \in Seq(S) /\ Len(a \o b) = Len(a) + Len(b)
          /\ \A k \in 1 .. Len(a) + Len(b) :
                (a \o b)[k] = IF k <= Len(a) THEN a[k] ELSE b[k - Len(a)]
      BY <1>2, <1>3, <2>1, Zenon
    <3>2. QED
      BY <1>2, <2>2, <3>1
  <2>4. \A k \in 1 .. Len(rs) - 1 : k <= i - 1 <=> k < i
    BY <1>1
  <2>5. QED
    BY <2>3, <2>4
<1> DEFINE left == a \o b
<1> HIDE DEF left
<1>5. ASSUME NEW k \in DOMAIN left PROVE was(k) \in DOMAIN rs \ {i} /\ left[k] = rs[was(k)]
  <2>1. k \in 1 .. Len(rs) - 1
    BY <1>1, <1>4 DEF left
  <2>2. CASE k < i
    BY <1>1, <1>2, <1>4, <2>1, <2>2 DEF left
  <2>3. CASE k >= i
    <3>1. k - (i - 1) \in 1 .. Len(rs) - i /\ i + (k - (i - 1)) = k + 1
      BY <1>1, <2>1, <2>3
    <3>2. QED
      BY <1>1, <1>3, <1>4, <2>1, <2>3, <3>1 DEF left
  <2>4. QED
    BY <1>1, <2>1, <2>2, <2>3
<1>6. ASSUME NEW j \in DOMAIN rs \ {i} PROVE \E k \in DOMAIN left : was(k) = j
  <2>1. DOMAIN left = 1 .. Len(rs) - 1
    BY <1>1, <1>4 DEF left
  <2>2. j \in 1 .. Len(rs) /\ j # i
    BY <1>1, <1>6
  <2>3. CASE j < i
    <3>1. j \in DOMAIN left /\ was(j) = j
      BY <1>1, <2>1, <2>2, <2>3
    <3>2. QED
      BY <3>1
  <2>4. CASE j > i
    <3>1. j - 1 \in DOMAIN left /\ was(j - 1) = j
      BY <1>1, <2>1, <2>2, <2>4
    <3>2. QED
      BY <3>1
  <2>5. QED
    BY <1>1, <2>2, <2>3, <2>4
<1>7. left \in Seq(S) /\ left = RemoveAt(rs, i)
  BY <1>4 DEF RemoveAt, left, a, b
<1>8. QED
  BY <1>5, <1>6, <1>7

-----------------------------------------------------------------------------

Tasks == 1 .. MaxTasks
PluginRow == [name : PluginNames, display : Displays, was : SUBSET Label,
              functions : SUBSET Functions, complete : SUBSET Functions]
Link == [host : Hosts, id : Nat]
Plugin == [name : PluginNames, display : Displays, id : Nat]
ReadRow == [id : Nat, name : PluginNames, display : Displays]
ToRead == [id : Nat, name : PluginNames, display : Displays, welcome : Nat]
Task == [step : Steps, host : Hosts \cup {""}, sent : Seq(Plugin), todo : SUBSET Nat,
         id : Nat, missing : SUBSET Functions, function : Functions \cup {""},
         read : SUBSET ReadRow]

Types ==
    /\ plugins \in Seq(PluginRow)
    /\ deleted \subseteq DOMAIN plugins
    /\ links \in Seq(Link)
    /\ local \in [Hosts -> Seq(Plugin)]
    /\ unread \in [Hosts -> SUBSET ToRead]
    /\ tasks \in [Tasks -> Task]
    /\ {faults, edits} \subseteq Nat
    /\ answered \in [Hosts -> Nat]
    /\ \A i \in DOMAIN links : links[i].id \in DOMAIN plugins

-----------------------------------------------------------------------------
(* The invariant.                                                          *)

Distinct(list) == \A i, j \in DOMAIN list : list[i].name = list[j].name => i = j

\* A host that was built with distinct plugins keeps them distinct.
LocalInv == \A h \in Hosts : IsInjective(Provided[h]) => Distinct(local[h])

\* What is known of a record is, or was, so; nothing is deleted without an edit.
LabelOf(r) == [name |-> r.name, display |-> r.display]
Labelled(i) == LabelOf(plugins[i]) \in plugins[i].was
Known(r) == r.id \in DOMAIN plugins /\ LabelOf(r) \in plugins[r.id].was
RowInv ==
    /\ \A i \in DOMAIN plugins : Labelled(i)
    /\ \A k \in Tasks : \A r \in tasks[k].read : Known(r)
    /\ \A h \in Hosts : \A r \in unread[h] : Known(r)
    /\ edits = 0 => deleted = {}

HostInv == LocalInv /\ IdsAreTrue /\ RowInv

\* Owns: the handler has created a record and works on it; Filling: it creates the
\* functions of the record.
Filling(k) == tasks[k].step \in {"function", "parameters"}
Owns(k) == tasks[k].step = "link" \/ Filling(k)
Synced(k) == tasks[k].step \notin {"none", "sync"}

\* The places of sent that have no record on the host yet.
Pending(k) == IF Filling(k) THEN tasks[k].todo \ {Min(tasks[k].todo)} ELSE tasks[k].todo

TaskInv ==
    \A k \in Tasks : Live(k) =>
        /\ tasks[k].host \in Hosts
        /\ tasks[k].todo \subseteq DOMAIN tasks[k].sent
        /\ tasks[k].step = "plugin" \/ Owns(k) => tasks[k].todo # {}
        /\ Owns(k) => tasks[k].id \in DOMAIN plugins
        /\ edits = 0 /\ tasks[k].step = "link" => plugins[tasks[k].id].name = Current(k).name
        /\ tasks[k].step = "parameters" => tasks[k].function \in Functions
        /\ tasks[k].step \in {"list", "welcome"} => tasks[k].todo = {}
        /\ IsInjective(Provided[tasks[k].host]) => Distinct(tasks[k].sent)

\* A host that is not overlapped has one handler.
OneInv ==
    \A h \in Hosts \ overlapped, j, k \in Tasks :
        Live(j) /\ Live(k) /\ tasks[j].host = h /\ tasks[k].host = h => j = k

\* What is not pending is linked, and what is listed was linked.
NamesRead(k) == {r.name : r \in tasks[k].read}
CoverInv ==
    edits = 0 => \A k \in Tasks :
        /\ Synced(k) => \A i \in DOMAIN tasks[k].sent \ Pending(k) :
              tasks[k].sent[i].name \in NamesOf(Linked(tasks[k].host))
        /\ tasks[k].step = "welcome" => \A i \in DOMAIN tasks[k].sent :
              tasks[k].sent[i].name \in NamesRead(k)

\* What is pending is not linked, on a host with one handler, and so no name is
\* linked twice.
Repeatable(h) == edits = 0 /\ h \notin overlapped /\ IsInjective(Provided[h])
RepeatInv ==
    \A h \in Hosts : Repeatable(h) =>
        /\ ~Duplicated(h)
        /\ \A k \in Tasks : Synced(k) /\ tasks[k].host = h => \A i \in Pending(k) :
              tasks[k].sent[i].name \notin NamesOf(Linked(h))

\* A handler knows which functions are still to create.
FunctionInv ==
    \A k \in Tasks :
        /\ tasks[k].step = "function" =>
              plugins[tasks[k].id].complete \cup tasks[k].missing = Functions
        /\ tasks[k].step = "parameters" =>
              plugins[tasks[k].id].complete \cup tasks[k].missing \cup {tasks[k].function} = Functions

\* A record without all its functions is one a handler works on.
Calm == edits = 0 /\ faults = 0
CompleteInv ==
    Calm =>
        /\ \A h \in Hosts : \A i \in Linked(h) :
              \/ plugins[i].complete = Functions
              \/ \E k \in Tasks : Filling(k) /\ tasks[k].id = i /\ tasks[k].host = h
        /\ \A k \in Tasks : tasks[k].step = "welcome" /\ tasks[k].host \notin overlapped =>
              \A r \in tasks[k].read : plugins[r.id].complete = Functions

HandlerInv == TaskInv /\ OneInv /\ CoverInv /\ RepeatInv /\ FunctionInv /\ CompleteInv
IInv == Types /\ HostInv /\ HandlerInv

-----------------------------------------------------------------------------
(* The tables.                                                             *)

LEMMA RowFields ==
    ASSUME Types, NEW i \in DOMAIN plugins
    PROVE  i \in Nat /\ i <= Len(plugins) /\ plugins[i] \in PluginRow
           /\ plugins[i].name \in PluginNames /\ plugins[i].display \in Displays
           /\ plugins[i].was \in SUBSET Label /\ plugins[i].complete \in SUBSET Functions
           /\ plugins[i].functions \in SUBSET Functions
<1>1. i \in Nat /\ i <= Len(plugins) /\ plugins[i] \in PluginRow
  BY DEF Types
<1>2. QED
  BY <1>1 DEF PluginRow

LEMMA LinkedMember ==
    ASSUME NEW ls, NEW gone
    PROVE  \A g, i : i \in {l.id : l \in {x \in ToSet(ls) : x.host = g}} \ gone <=>
                      i \notin gone /\ \E l \in DOMAIN ls : ls[l].host = g /\ ls[l].id = i
<1> SUFFICES ASSUME NEW g, NEW i
             PROVE  i \in {l.id : l \in {x \in ToSet(ls) : x.host = g}} <=>
                      \E l \in DOMAIN ls : ls[l].host = g /\ ls[l].id = i
  OBVIOUS
<1> DEFINE of == {x \in ToSet(ls) : x.host = g}
<1>1. \A l : l \in of <=> \E a \in DOMAIN ls : l = ls[a] /\ ls[a].host = g
  BY DEF ToSet
<1> HIDE DEF of
<1>2. i \in {l.id : l \in of} <=> \E a \in DOMAIN ls : ls[a].host = g /\ ls[a].id = i
  BY <1>1
<1>3. QED
  BY <1>2 DEF of

LEMMA LinkedAreRows ==
    ASSUME Types, NEW h
    PROVE  Linked(h) \subseteq DOMAIN plugins
<1>1. \A g, i : i \in Linked(g) <=> i \notin deleted /\ \E l \in DOMAIN links : links[l].host = g /\ links[l].id = i
  BY LinkedMember DEF Linked
<1>2. QED
  BY <1>1 DEF Types

\* Records keep their names, and what they have is kept.
Grown ==
    /\ DOMAIN plugins \subseteq DOMAIN plugins'
    /\ \A i \in DOMAIN plugins : /\ plugins'[i].name = plugins[i].name
                                 /\ plugins'[i].display = plugins[i].display
                                 /\ plugins'[i].was = plugins[i].was
                                 /\ plugins[i].complete \subseteq plugins'[i].complete
                                 /\ plugins'[i].complete \subseteq Functions

LEMMA NamesStay ==
    ASSUME Grown, NEW ids, ids \subseteq DOMAIN plugins
    PROVE  {plugins'[i].name : i \in ids} = NamesOf(ids)
BY DEF Grown, NamesOf

\* A handler that ends, and leaves the tables alone, disturbs nothing; a record it
\* leaves unfinished is a fault.
LEMMA DyingKeeps ==
    ASSUME Types, HandlerInv, NEW k \in Tasks, Dies(k),
           UNCHANGED <<plugins, deleted, links, edits, overlapped>>, faults' \in Nat,
           edits = 0 /\ faults' = 0 => faults = 0 /\ ~Filling(k)
    PROVE  HandlerInv' /\ tasks' \in [Tasks -> Task]
<1>1. NoTask \in Task /\ NoTask.step = "none"
  BY DEF NoTask, Task, Steps
<1>2. /\ tasks' \in [Tasks -> Task]
      /\ \A j \in Tasks : tasks'[j] = IF j = k THEN NoTask ELSE tasks[j]
  BY <1>1 DEF Types, Dies
<1>3. TaskInv'
  BY <1>1, <1>2 DEF HandlerInv, TaskInv, Live, Owns, Filling, Current
<1>4. OneInv'
  BY <1>1, <1>2 DEF HandlerInv, OneInv, Live
<1>5. \A h : Linked(h)' = Linked(h)
  BY DEF Linked
<1>6. \A ids : NamesOf(ids)' = NamesOf(ids)
  BY DEF NamesOf
<1>7. CoverInv'
  BY <1>1, <1>2, <1>5, <1>6 DEF HandlerInv, CoverInv, NamesRead, Synced, Pending, Filling
<1>8. RepeatInv'
  BY <1>1, <1>2, <1>5, <1>6 DEF HandlerInv, RepeatInv, Repeatable, Duplicated, Synced, Pending, Filling
<1>9. FunctionInv'
  BY <1>1, <1>2 DEF HandlerInv, FunctionInv
<1>10. CompleteInv'
  BY <1>1, <1>2, <1>5 DEF HandlerInv, CompleteInv, Calm, Filling
<1>11. QED
  BY <1>2, <1>3, <1>4, <1>7, <1>8, <1>9, <1>10 DEF HandlerInv

\* What hosts know stays true as long as records keep what they were.
LEMMA HostKeeps ==
    ASSUME Types, HostInv, Grown, UNCHANGED <<host, deleted, edits>>,
           \A i \in DOMAIN plugins' \ DOMAIN plugins : Labelled(i)',
           \A j \in Tasks : tasks'[j].read \subseteq tasks[j].read
    PROVE  HostInv'
<1>1. LocalInv'
  BY DEF HostInv, LocalInv, Distinct, host
<1>2. IdsAreTrue'
  <2>1. SUFFICES ASSUME NEW h \in Hosts, NEW i \in DOMAIN local[h], local[h][i].id # 0
                 PROVE  /\ local[h][i].id \in DOMAIN plugins'
                        /\ \E l \in plugins'[local[h][i].id].was :
                              l.name = local[h][i].name \/ l.display = local[h][i].display
    BY DEF IdsAreTrue, Ids, host
  <2>2. QED
    BY <2>1 DEF HostInv, IdsAreTrue, Ids, Grown
<1>3. \A r : Known(r) => Known(r)'
  BY DEF Known, Grown
<1>4. \A i \in DOMAIN plugins' : Labelled(i)'
  BY DEF HostInv, RowInv, Labelled, LabelOf, Grown
<1>5. RowInv'
  BY <1>3, <1>4 DEF HostInv, RowInv, host
<1>6. QED
  BY <1>1, <1>2, <1>5 DEF HostInv

LEMMA NothingGrows ==
    ASSUME Types, UNCHANGED plugins
    PROVE  Grown
BY RowFields DEF Grown

LEMMA DyingStep ==
    ASSUME IInv, NEW k \in Tasks, Dies(k),
           UNCHANGED <<tables, host, answered, edits, overlapped>>, faults' \in Nat,
           edits = 0 /\ faults' = 0 => faults = 0 /\ ~Filling(k)
    PROVE  IInv'
<1>1. HandlerInv' /\ tasks' \in [Tasks -> Task]
  BY DyingKeeps DEF IInv, tables
<1>2. \A j \in Tasks : tasks'[j].read \subseteq tasks[j].read
  BY DEF Dies, NoTask, IInv, Types
<1>3. HostInv'
  BY <1>2, HostKeeps, NothingGrows DEF IInv, tables
<1>4. Types'
  BY <1>1 DEF IInv, Types, tables, host
<1>5. QED
  BY <1>1, <1>3, <1>4 DEF IInv

-----------------------------------------------------------------------------
(* The handler of host_connect.                                            *)

LEMMA SyncKeeps ==
    ASSUME IInv, NEW k \in Tasks, Sync(k)
    PROVE  IInv'
<1> DEFINE h == tasks[k].host
           sent == tasks[k].sent
           todo == {i \in DOMAIN sent : sent[i].name \notin NamesOf(Linked(h))}
<1>1. Types /\ HandlerInv /\ tasks[k].step = "sync"
      /\ UNCHANGED <<tables, host, answered, counters, overlapped>>
  BY DEF IInv, Sync
<1>2. CASE Duplicated(h)
  BY <1>1, <1>2, DyingStep DEF Sync, Filling, counters, Types
<1>3. CASE ~Duplicated(h)
  <2>1. tasks' = [tasks EXCEPT ![k].todo = todo, ![k].step = NextPlugin(todo)]
    BY <1>3 DEF Sync
  <2>2. NextPlugin(todo) = IF todo = {} THEN "list" ELSE "plugin"
    BY DEF NextPlugin
  <2>3. DOMAIN sent \subseteq Nat /\ todo \subseteq DOMAIN sent
    <3>1. sent \in Seq(Plugin)
      BY <1>1 DEF Types, Task
    <3>2. QED
      BY <3>1
  <2>4. \A i \in DOMAIN sent : i \in todo <=> sent[i].name \notin NamesOf(Linked(h))
    OBVIOUS
  <2> HIDE DEF todo
  <2>5. NextPlugin(todo) \in Steps
    BY <2>2 DEF Steps
  <2>6. tasks[k] \in Task
    BY <1>1 DEF Types
  <2>7. [tasks[k] EXCEPT !.todo = todo, !.step = NextPlugin(todo)] \in Task
    BY <2>3, <2>5, <2>6 DEF Task
  <2>8. \A j \in Tasks : tasks'[j] = IF j = k THEN [tasks[k] EXCEPT !.todo = todo, !.step = NextPlugin(todo)]
                                     ELSE tasks[j]
    BY <1>1, <2>1 DEF Types
  <2>9. /\ tasks'[k].todo = todo /\ tasks'[k].step = IF todo = {} THEN "list" ELSE "plugin"
        /\ tasks'[k].host = h /\ tasks'[k].sent = sent
        /\ tasks'[k].id = tasks[k].id /\ tasks'[k].read = tasks[k].read
        /\ \A j \in Tasks : j # k => tasks'[j] = tasks[j]
    BY <2>2, <2>6, <2>8 DEF Task
  <2>10. Types'
    BY <1>1, <2>1, <2>7 DEF Types, tables, counters, host
  <2>11. HostInv'
    <3>1. \A j \in Tasks : tasks'[j].read \subseteq tasks[j].read
      BY <2>9
    <3>2. QED
      BY <1>1, <3>1, HostKeeps, NothingGrows DEF IInv, tables, counters
  <2>12. (\A g : Linked(g)' = Linked(g)) /\ (\A ids : NamesOf(ids)' = NamesOf(ids))
    BY <1>1 DEF Linked, NamesOf, tables
  <2>13. TaskInv'
    BY <1>1, <2>3, <2>9 DEF HandlerInv, TaskInv, Live, Owns, Filling, Current, Distinct, tables, counters
  <2>14. OneInv'
    BY <1>1, <2>9 DEF HandlerInv, OneInv, Live
  <2>15. CoverInv'
    BY <1>1, <2>4, <2>9, <2>12 DEF HandlerInv, CoverInv, NamesRead, Synced, Pending, Filling, counters
  <2>16. RepeatInv'
    <3>1. todo \subseteq DOMAIN sent
      BY <2>3
    <3>2. \A g : Duplicated(g)' = Duplicated(g)
      BY <1>1, <2>12 DEF Duplicated, tables
    <3>3. QED
      BY <1>1, <2>4, <2>9, <2>12, <3>1, <3>2 DEF HandlerInv, RepeatInv, Repeatable, Synced, Pending, Filling, counters
  <2>17. FunctionInv' /\ CompleteInv'
    BY <1>1, <2>9, <2>12 DEF HandlerInv, FunctionInv, CompleteInv, Calm, Filling, tables, counters
  <2>18. QED
    BY <2>10, <2>11, <2>13, <2>14, <2>15, <2>16, <2>17 DEF IInv, HandlerInv
<1>4. QED
  BY <1>2, <1>3

\* The plugin a handler is at is one that was sent.
LEMMA CurrentIsSent ==
    ASSUME Types, TaskInv, NEW k \in Tasks, Live(k), tasks[k].todo # {}
    PROVE  /\ Min(tasks[k].todo) \in tasks[k].todo
           /\ Min(tasks[k].todo) \in DOMAIN tasks[k].sent
           /\ Current(k) \in Plugin /\ Current(k).name \in PluginNames
           /\ Current(k).display \in Displays
<1>1. tasks[k].todo \in SUBSET Nat /\ tasks[k].sent \in Seq(Plugin)
  BY DEF Types, Task
<1>2. Min(tasks[k].todo) \in tasks[k].todo
  BY <1>1, MinIsMember
<1>3. Min(tasks[k].todo) \in DOMAIN tasks[k].sent
  BY <1>2 DEF TaskInv
<1>4. Current(k) \in Plugin
  BY <1>1, <1>3 DEF Current
<1>5. QED
  BY <1>2, <1>3, <1>4 DEF Plugin

\* Names and links of the old records, when none is linked.
LEMMA NamesOfLinkedStay ==
    ASSUME Types, Grown, UNCHANGED <<deleted, links>>
    PROVE  \A g : Linked(g)' = Linked(g) /\ NamesOf(Linked(g))' = NamesOf(Linked(g))
                 /\ Duplicated(g)' = Duplicated(g)
<1> SUFFICES ASSUME NEW g
             PROVE  Linked(g)' = Linked(g) /\ NamesOf(Linked(g))' = NamesOf(Linked(g))
                    /\ Duplicated(g)' = Duplicated(g)
  OBVIOUS
<1>1. Linked(g)' = Linked(g)
  BY DEF Linked
<1>2. Linked(g) \subseteq DOMAIN plugins
  BY LinkedAreRows
<1>3. {plugins'[i].name : i \in Linked(g)} = NamesOf(Linked(g))
  BY <1>2, NamesStay
<1>4. NamesOf(Linked(g))' = NamesOf(Linked(g))
  BY <1>1, <1>3 DEF NamesOf
<1>5. Duplicated(g)' = Duplicated(g)
  BY <1>1, <1>2 DEF Duplicated, Grown
<1>6. QED
  BY <1>1, <1>4, <1>5

LEMMA CreatePluginKeeps ==
    ASSUME IInv, NEW k \in Tasks, CreatePlugin(k)
    PROVE  IInv'
<1> DEFINE row == NewRecord(Current(k).name, Current(k).display)
           n == Len(plugins) + 1
<1>1. Types /\ HandlerInv /\ TaskInv /\ tasks[k].step = "plugin"
      /\ UNCHANGED <<deleted, links, host, answered, counters, overlapped>>
  BY DEF IInv, HandlerInv, CreatePlugin
<1>2. CASE Current(k).id # 0
  BY <1>1, <1>2, DyingStep DEF CreatePlugin, Filling, counters, Types, tables
<1>3. CASE Current(k).id = 0
  <2>1. plugins' = Append(plugins, row) /\ tasks' = [tasks EXCEPT ![k].step = "link", ![k].id = Len(plugins')]
    BY <1>3 DEF CreatePlugin
  <2>2. tasks[k].todo # {} /\ Live(k) /\ tasks[k] \in Task
    BY <1>1 DEF TaskInv, Live, Types
  <2>3. Current(k).name \in PluginNames /\ Current(k).display \in Displays
    BY <1>1, <2>2, CurrentIsSent
  <2>4. row \in PluginRow /\ row.name = Current(k).name /\ row.complete = {} /\ LabelOf(row) \in row.was
    BY <2>3 DEF PluginRow, NewRecord, Label, LabelOf
  <2> HIDE DEF row
  <2>5. /\ plugins' \in Seq(PluginRow) /\ Len(plugins') = n /\ n \in DOMAIN plugins' /\ n \in Nat
        /\ DOMAIN plugins' = DOMAIN plugins \cup {n} /\ n \notin DOMAIN plugins
        /\ plugins'[n] = row /\ \A i \in DOMAIN plugins : plugins'[i] = plugins[i]
    BY <1>1, <2>1, <2>4 DEF Types
  <2> HIDE DEF n
  <2>6. Grown
    BY <1>1, <2>5, RowFields DEF Grown
  <2>7. \A g : Linked(g)' = Linked(g) /\ NamesOf(Linked(g))' = NamesOf(Linked(g))
              /\ Duplicated(g)' = Duplicated(g)
    BY <1>1, <2>6, NamesOfLinkedStay
  <2>8. [tasks[k] EXCEPT !.step = "link", !.id = n] \in Task
    BY <2>2, <2>5 DEF Task, Steps
  <2>9. \A j \in Tasks : tasks'[j] = IF j = k THEN [tasks[k] EXCEPT !.step = "link", !.id = n] ELSE tasks[j]
    BY <1>1, <2>1, <2>5 DEF Types
  <2>10. tasks' \in [Tasks -> Task]
    BY <1>1, <2>1, <2>5, <2>8 DEF Types
  <2>11. /\ tasks'[k].step = "link" /\ tasks'[k].id = n
         /\ tasks'[k].todo = tasks[k].todo /\ tasks'[k].host = tasks[k].host
         /\ tasks'[k].sent = tasks[k].sent /\ tasks'[k].read = tasks[k].read
         /\ \A j \in Tasks : j # k => tasks'[j] = tasks[j]
    BY <2>2, <2>9 DEF Task
  <2>12. Types'
    BY <1>1, <2>5, <2>10 DEF Types, counters, host
  <2>13. HostInv'
    <3>1. \A i \in DOMAIN plugins' \ DOMAIN plugins : Labelled(i)'
      BY <2>4, <2>5 DEF Labelled
    <3>2. \A j \in Tasks : tasks'[j].read \subseteq tasks[j].read
      BY <2>11
    <3>3. QED
      BY <1>1, <2>6, <3>1, <3>2, HostKeeps DEF IInv, counters
  <2>14. TaskInv'
    <3>1. Current(k)' = Current(k)
      BY <2>11 DEF Current
    <3>2. plugins'[n].name = Current(k)'.name
      BY <2>4, <2>5, <3>1
    <3>3. QED
      BY <1>1, <2>2, <2>5, <2>11, <3>1, <3>2 DEF TaskInv, Live, Owns, Filling, Current, Distinct, counters
  <2>15. OneInv'
    BY <1>1, <2>11 DEF HandlerInv, OneInv, Live
  <2>16. CoverInv'
    <3>1. CoverInv /\ UNCHANGED counters
      BY <1>1 DEF HandlerInv
    <3>2. ASSUME NEW j \in Tasks
          PROVE  /\ Synced(j)' = Synced(j) /\ Pending(j)' = Pending(j)
                 /\ tasks'[j].sent = tasks[j].sent /\ tasks'[j].host = tasks[j].host
                 /\ NamesRead(j)' = NamesRead(j)
                 /\ (tasks'[j].step = "welcome") = (tasks[j].step = "welcome")
      <4>1. CASE j = k
        BY <1>1, <2>11, <4>1 DEF Synced, Pending, Filling, NamesRead
      <4>2. CASE j # k
        BY <2>11, <4>2 DEF Synced, Pending, Filling, NamesRead
      <4>3. QED
        BY <4>1, <4>2
    <3>3. ASSUME NEW j \in Tasks
          PROVE  NamesOf(Linked(tasks[j].host))' = NamesOf(Linked(tasks[j].host))
      <4>1. PICK g : g = tasks[j].host
        OBVIOUS
      <4>2. NamesOf(Linked(tasks[j].host))' = NamesOf(Linked(g))'
        BY <3>2, <4>1 DEF NamesOf, Linked
      <4>3. QED
        BY <2>7, <4>1, <4>2
    <3>4. QED
      BY <3>1, <3>2, <3>3 DEF CoverInv, counters
  <2>17. RepeatInv'
    BY <1>1, <2>7, <2>11 DEF HandlerInv, RepeatInv, Repeatable, Synced, Pending, Filling, counters
  <2>18. FunctionInv'
    BY <1>1, <2>5, <2>11 DEF HandlerInv, FunctionInv, TaskInv, Live, Owns, Filling
  <2>19. CompleteInv'
    <3>1. \A g : Linked(g) \subseteq DOMAIN plugins
      BY <1>1, LinkedAreRows
    <3>2. \A j \in Tasks : \A r \in tasks[j].read : r.id \in DOMAIN plugins
      BY DEF IInv, HostInv, RowInv, Known
    <3>3. QED
      BY <1>1, <2>5, <2>7, <2>11, <3>1, <3>2 DEF HandlerInv, CompleteInv, Calm, Filling, Live, counters
  <2>20. QED
    BY <2>12, <2>13, <2>14, <2>15, <2>16, <2>17, <2>18, <2>19 DEF IInv, HandlerInv
<1>4. QED
  BY <1>2, <1>3

LEMMA CreateHostPluginKeeps ==
    ASSUME IInv, NEW k \in Tasks, CreateHostPlugin(k)
    PROVE  IInv'
<1> DEFINE h == tasks[k].host
           n == tasks[k].id
           m == Min(tasks[k].todo)
           link == [host |-> h, id |-> n]
<1>1. Types /\ HandlerInv /\ TaskInv /\ tasks[k].step = "link"
      /\ UNCHANGED <<plugins, deleted, host, answered, counters, overlapped>>
  BY DEF IInv, HandlerInv, CreateHostPlugin
<1>23. CASE n \in deleted
  BY <1>1, <1>23, DyingStep DEF CreateHostPlugin, Filling, counters, Types, tables
<1>24. SUFFICES ASSUME n \notin deleted PROVE IInv'
  BY <1>23
<1>0. /\ links' = Append(links, link)
      /\ tasks' = [tasks EXCEPT ![k].step = "function", ![k].missing = Functions]
  BY <1>24 DEF CreateHostPlugin
<1>2. /\ tasks[k].todo # {} /\ Live(k) /\ tasks[k] \in Task
      /\ h \in Hosts /\ n \in DOMAIN plugins /\ n \in Nat
      /\ edits = 0 => plugins[n].name = Current(k).name
      /\ Current(k) = tasks[k].sent[m]
  BY <1>1 DEF TaskInv, Live, Owns, Types, Task, Current
<1>3. m \in tasks[k].todo /\ m \in DOMAIN tasks[k].sent
  BY <1>1, <1>2, CurrentIsSent
<1>4. link \in Link /\ link.host = h /\ link.id = n
  BY <1>2 DEF Link
<1> HIDE DEF link
<1>5. /\ links' \in Seq(Link) /\ DOMAIN links' = DOMAIN links \cup {Len(links) + 1}
      /\ links'[Len(links) + 1] = link /\ \A i \in DOMAIN links : links'[i] = links[i]
  BY <1>0, <1>1, <1>4 DEF Types
<1>6. \A g : Linked(g)' = IF g = h THEN Linked(g) \cup {n} ELSE Linked(g)
  <2>1. \A g, i : i \in Linked(g) <=> /\ i \notin deleted
                                      /\ \E l \in DOMAIN links : links[l].host = g /\ links[l].id = i
    BY LinkedMember DEF Linked
  <2>2. \A g, i : i \in Linked(g)' <=> /\ i \notin deleted'
                                       /\ \E l \in DOMAIN links' : links'[l].host = g /\ links'[l].id = i
    BY LinkedMember DEF Linked
  <2>3. \A g, i : i \in Linked(g)' <=> i \in Linked(g) \/ (g = h /\ i = n)
    BY <1>1, <1>4, <1>5, <1>24, <2>1, <2>2
  <2>4. QED
    BY <2>3
<1>7. \A ids : NamesOf(ids)' = NamesOf(ids)
  BY <1>1 DEF NamesOf
<1>8. \A g : NamesOf(Linked(g))' = IF g = h THEN NamesOf(Linked(g)) \cup {plugins[n].name}
                                           ELSE NamesOf(Linked(g))
  BY <1>1, <1>6 DEF NamesOf
<1>9. [tasks[k] EXCEPT !.step = "function", !.missing = Functions] \in Task
  BY <1>2 DEF Task, Steps
<1>10. \A j \in Tasks : tasks'[j] = IF j = k THEN [tasks[k] EXCEPT !.step = "function", !.missing = Functions]
                                    ELSE tasks[j]
  BY <1>0, <1>1 DEF Types
<1>11. /\ tasks'[k].step = "function" /\ tasks'[k].missing = Functions /\ tasks'[k].id = n
       /\ tasks'[k].todo = tasks[k].todo /\ tasks'[k].host = h
       /\ tasks'[k].sent = tasks[k].sent /\ tasks'[k].read = tasks[k].read
       /\ \A j \in Tasks : j # k => tasks'[j] = tasks[j]
  BY <1>2, <1>10 DEF Task
<1>12. tasks' \in [Tasks -> Task]
  BY <1>0, <1>1, <1>9 DEF Types
<1> HIDE DEF n, h, m
<1>13. Types'
  BY <1>1, <1>2, <1>4, <1>5, <1>12 DEF Types, counters, host
<1>14. HostInv'
  <2>1. \A j \in Tasks : tasks'[j].read \subseteq tasks[j].read
    BY <1>11
  <2>2. QED
    BY <1>1, <2>1, HostKeeps, NothingGrows DEF IInv, counters
<1>15. TaskInv'
  BY <1>1, <1>2, <1>11 DEF TaskInv, Live, Owns, Filling, Current, Distinct, h, n, counters
<1>16. OneInv'
  BY <1>1, <1>11 DEF HandlerInv, OneInv, Live, h
<1>17. /\ \A j \in Tasks \ {k} : Pending(j)' = Pending(j)
       /\ Pending(k) = tasks[k].todo
       /\ Pending(k)' = tasks[k].todo \ {m}
  BY <1>1, <1>11 DEF Pending, Filling, m
<1>18. CoverInv'
  <2>1. SUFFICES ASSUME edits = 0, NEW j \in Tasks
                 PROVE  /\ Synced(j)' => \A i \in DOMAIN tasks'[j].sent \ Pending(j)' :
                              tasks'[j].sent[i].name \in NamesOf(Linked(tasks[j].host))'
                        /\ tasks'[j].step = "welcome" => \A i \in DOMAIN tasks'[j].sent :
                              tasks'[j].sent[i].name \in NamesRead(j)'
    BY <1>1, <1>11 DEF CoverInv, counters
  <2>2. /\ Synced(j) => \A i \in DOMAIN tasks[j].sent \ Pending(j) :
              tasks[j].sent[i].name \in NamesOf(Linked(tasks[j].host))
        /\ tasks[j].step = "welcome" => \A i \in DOMAIN tasks[j].sent :
              tasks[j].sent[i].name \in NamesRead(j)
    BY <1>1, <2>1 DEF HandlerInv, CoverInv
  <2>3. CASE j = k
    BY <1>1, <1>2, <1>8, <1>11, <1>17, <2>1, <2>2, <2>3 DEF Synced, h
  <2>4. CASE j # k
    BY <1>1, <1>7, <1>8, <1>11, <1>17, <2>2, <2>4 DEF Synced, NamesOf, NamesRead
  <2>5. QED
    BY <2>3, <2>4
<1>19. RepeatInv'
  <2>1. SUFFICES ASSUME NEW g \in Hosts, Repeatable(g)
                 PROVE  /\ ~Duplicated(g)'
                        /\ \A j \in Tasks : Synced(j)' /\ tasks'[j].host = g => \A i \in Pending(j)' :
                              tasks'[j].sent[i].name \notin NamesOf(Linked(g))'
    BY <1>1 DEF RepeatInv, Repeatable, counters
  <2>2. /\ ~Duplicated(g)
        /\ \A j \in Tasks : Synced(j) /\ tasks[j].host = g => \A i \in Pending(j) :
              tasks[j].sent[i].name \notin NamesOf(Linked(g))
    BY <1>1, <2>1 DEF HandlerInv, RepeatInv
  <2>3. CASE g # h
    BY <1>1, <1>6, <1>8, <1>11, <1>17, <2>2, <2>3 DEF Duplicated, Synced
  <2>4. CASE g = h
    <3>1. Distinct(tasks[k].sent)
      BY <1>1, <1>2, <2>1, <2>4 DEF TaskInv, Repeatable, h
    <3>2. \A i \in tasks[k].todo : tasks[k].sent[i].name \notin NamesOf(Linked(h))
      BY <1>1, <1>17, <2>2, <2>4 DEF Synced, h
    <3>3. plugins[n].name \notin NamesOf(Linked(h))
      BY <1>2, <1>3, <2>1, <3>2 DEF Repeatable
    <3>4. ~Duplicated(g)'
      <4>1. \A i \in Linked(h) : plugins[i].name # plugins[n].name
        BY <3>3 DEF NamesOf
      <4>2. plugins' = plugins /\ Linked(g)' = Linked(h) \cup {n}
        BY <1>1, <1>6, <2>4
      <4>3. \A i, j \in Linked(h) : i # j => plugins[i].name # plugins[j].name
        BY <2>2, <2>4 DEF Duplicated
      <4>4. QED
        BY <4>1, <4>2, <4>3 DEF Duplicated
    <3>5. \A i \in tasks[k].todo \ {m} : tasks[k].sent[i].name # plugins[n].name
      BY <1>1, <1>2, <1>3, <2>1, <3>1 DEF Distinct, TaskInv, Repeatable
    <3>6. \A j \in Tasks : Live(j) /\ tasks[j].host = h => j = k
      BY <1>1, <1>2, <2>1, <2>4 DEF HandlerInv, OneInv, Repeatable, h
    <3>7. \A j \in Tasks : Synced(j)' /\ tasks'[j].host = h => j = k
      BY <1>11, <3>6 DEF Synced, Live
    <3>8. \A i \in Pending(k)' : tasks'[k].sent[i].name \notin NamesOf(Linked(g))'
      <4>1. NamesOf(Linked(g))' = NamesOf(Linked(h)) \cup {plugins[n].name}
        BY <1>8, <2>4
      <4>2. QED
        BY <1>11, <1>17, <3>2, <3>5, <4>1
    <3>9. QED
      BY <2>4, <3>4, <3>7, <3>8
  <2>5. QED
    BY <2>3, <2>4
<1>20. FunctionInv'
  <2>1. plugins[n].complete \cup Functions = Functions
    BY <1>1, <1>2, RowFields
  <2>2. QED
    BY <1>1, <1>11, <2>1 DEF HandlerInv, FunctionInv
<1>21. CompleteInv'
  BY <1>1, <1>6, <1>11 DEF HandlerInv, CompleteInv, Calm, Filling, counters
<1>22. QED
  BY <1>13, <1>14, <1>15, <1>16, <1>18, <1>19, <1>20, <1>21 DEF IInv, HandlerInv

\* A step of a handler that fills its record: the record only gains, and the links
\* and names stay.  FillKeeps is what follows for the parts it does not work on.
LEMMA FillKeeps ==
    ASSUME IInv, NEW k \in Tasks, Filling(k), Grown, plugins' \in Seq(PluginRow),
           DOMAIN plugins' = DOMAIN plugins,
           tasks' \in [Tasks -> Task], \A j \in Tasks \ {k} : tasks'[j] = tasks[j],
           tasks'[k].host = tasks[k].host, tasks'[k].sent = tasks[k].sent,
           tasks'[k].step \in {"function", "parameters", "plugin", "list"},
           Pending(k)' = Pending(k), tasks'[k].read = tasks[k].read,
           UNCHANGED <<deleted, links, host, answered, counters, overlapped>>
    PROVE  Types' /\ HostInv' /\ OneInv' /\ CoverInv' /\ RepeatInv'
<1>1. Types /\ HandlerInv /\ TaskInv
  BY DEF IInv, HandlerInv
<1>2. Types'
  BY <1>1 DEF Types, Grown, counters, host
<1>3. HostInv'
  <2>1. \A j \in Tasks : tasks'[j].read \subseteq tasks[j].read
    OBVIOUS
  <2>2. QED
    BY <1>1, <2>1, HostKeeps DEF IInv, counters
<1>4. Live(k) /\ Synced(k) /\ tasks[k].step # "welcome"
  BY DEF Filling, Live, Synced
<1>5. OneInv'
  BY <1>1, <1>4 DEF HandlerInv, OneInv, Live
<1>6. \A g : Linked(g)' = Linked(g) /\ NamesOf(Linked(g))' = NamesOf(Linked(g))
             /\ Duplicated(g)' = Duplicated(g)
  BY <1>1, NamesOfLinkedStay
<1>7. \A j \in Tasks : Pending(j)' = Pending(j)
  BY DEF Pending, Filling
<1>8. \A j \in Tasks : /\ Synced(j)' = Synced(j) /\ tasks'[j].host = tasks[j].host
                       /\ tasks'[j].sent = tasks[j].sent
  BY <1>4 DEF Synced
<1>9. CoverInv'
  <2>2. \A j \in Tasks : tasks'[j].step = "welcome" => tasks[j].step = "welcome" /\ tasks'[j].read = tasks[j].read
    BY <1>4
  <2>3. ASSUME edits = 0, NEW j \in Tasks, Synced(j), NEW i \in DOMAIN tasks[j].sent \ Pending(j)
        PROVE  tasks'[j].sent[i].name \in NamesOf(Linked(tasks[j].host))'
    BY <1>1, <1>6, <1>8, <2>3 DEF HandlerInv, CoverInv
  <2>4. ASSUME edits = 0, NEW j \in Tasks, tasks'[j].step = "welcome", NEW i \in DOMAIN tasks[j].sent
        PROVE  tasks'[j].sent[i].name \in NamesRead(j)'
    BY <1>1, <1>8, <2>2, <2>4 DEF HandlerInv, CoverInv, NamesRead
  <2>5. QED
    BY <1>7, <1>8, <2>3, <2>4 DEF CoverInv, counters
<1>10. RepeatInv'
  BY <1>1, <1>6, <1>7, <1>8 DEF HandlerInv, RepeatInv, Repeatable, counters
<1>11. QED
  BY <1>2, <1>3, <1>5, <1>9, <1>10

LEMMA CreateFunctionKeeps ==
    ASSUME IInv, NEW k \in Tasks, CreateFunction(k)
    PROVE  IInv'
<1> DEFINE n == tasks[k].id
           m == Min(tasks[k].todo)
<1>1. Types /\ HandlerInv /\ TaskInv /\ tasks[k].step = "function"
      /\ UNCHANGED <<deleted, links, host, answered, counters, overlapped>>
  BY DEF IInv, HandlerInv, CreateFunction
<1>2. /\ tasks[k].todo # {} /\ Live(k) /\ Filling(k) /\ tasks[k] \in Task
      /\ n \in DOMAIN plugins /\ plugins[n] \in PluginRow
      /\ plugins[n].complete \cup tasks[k].missing = Functions
  BY <1>1, RowFields DEF HandlerInv, TaskInv, FunctionInv, Live, Owns, Filling, Types
<1>3. m \in tasks[k].todo /\ Pending(k) = tasks[k].todo \ {m}
  BY <1>1, <1>2, CurrentIsSent DEF Pending
<1>4. CASE n \in deleted
  <2>1. edits # 0
    BY <1>4 DEF IInv, HostInv, RowInv
  <2>2. QED
    BY <1>1, <1>4, <2>1, DyingStep DEF CreateFunction, counters, Types, tables
<1>5. CASE n \notin deleted
  <2>1. PICK f \in tasks[k].missing :
          /\ plugins' = [plugins EXCEPT ![n].functions = @ \cup {f}]
          /\ tasks' = [tasks EXCEPT ![k].step = "parameters", ![k].function = f, ![k].missing = @ \ {f}]
    BY <1>5 DEF CreateFunction
  <2> DEFINE row == [plugins[n] EXCEPT !.functions = @ \cup {f}]
             t == [tasks[k] EXCEPT !.step = "parameters", !.function = f, !.missing = @ \ {f}]
  <2>2. f \in Functions /\ t \in Task
    BY <1>2 DEF Task, Steps
  <2>3. /\ row \in PluginRow /\ row.name = plugins[n].name /\ row.complete = plugins[n].complete
        /\ row.display = plugins[n].display /\ row.was = plugins[n].was
    BY <1>2, <2>2 DEF PluginRow
  <2>4. /\ plugins' \in Seq(PluginRow) /\ DOMAIN plugins' = DOMAIN plugins
        /\ \A i \in DOMAIN plugins : plugins'[i] = IF i = n THEN row ELSE plugins[i]
    <3>1. plugins' = [plugins EXCEPT ![n] = row]
      BY <1>1, <1>2, <2>1 DEF Types
    <3>2. QED
      BY <1>1, <1>2, <2>3, <3>1 DEF Types
  <2>5. \A j \in Tasks : tasks'[j] = IF j = k THEN t ELSE tasks[j]
    BY <1>1, <2>1 DEF Types
  <2>6. tasks' \in [Tasks -> Task]
    BY <1>1, <2>1, <2>2 DEF Types
  <2>7. /\ tasks'[k].step = "parameters" /\ tasks'[k].function = f
        /\ tasks'[k].missing = tasks[k].missing \ {f} /\ tasks'[k].id = n
        /\ tasks'[k].todo = tasks[k].todo /\ tasks'[k].host = tasks[k].host
        /\ tasks'[k].sent = tasks[k].sent /\ tasks'[k].read = tasks[k].read
        /\ \A j \in Tasks \ {k} : tasks'[j] = tasks[j]
    BY <1>2, <2>5 DEF Task
  <2> HIDE DEF row, t
  <2>8. /\ DOMAIN plugins' = DOMAIN plugins
        /\ \A i \in DOMAIN plugins : /\ plugins'[i].name = plugins[i].name
                                      /\ plugins'[i].display = plugins[i].display
                                      /\ plugins'[i].was = plugins[i].was
                                      /\ plugins'[i].complete = plugins[i].complete
    BY <2>3, <2>4
  <2>9. Grown
    BY <1>1, <2>8, RowFields DEF Grown
  <2>10. Pending(k)' = Pending(k)
    BY <1>3, <2>7 DEF Pending, Filling
  <2>11. Types' /\ HostInv' /\ OneInv' /\ CoverInv' /\ RepeatInv'
    BY <1>1, <1>2, <2>4, <2>6, <2>7, <2>9, <2>10, FillKeeps
  <2>12. TaskInv'
    BY <1>1, <1>2, <2>2, <2>7, <2>8 DEF TaskInv, Live, Owns, Filling, Current, counters
  <2>13. FunctionInv'
    BY <1>1, <1>2, <2>7, <2>8 DEF HandlerInv, FunctionInv, TaskInv, Live, Owns, Filling
  <2>14. CompleteInv'
    <3>1. \A g : Linked(g)' = Linked(g) /\ Linked(g) \subseteq DOMAIN plugins
      BY <1>1, LinkedAreRows DEF Linked
    <3>2. \A j \in Tasks : /\ Filling(j)' = Filling(j) /\ tasks'[j].id = tasks[j].id
                           /\ tasks'[j].host = tasks[j].host /\ tasks'[j].read = tasks[j].read
                           /\ tasks'[j].step = "welcome" => tasks[j].step = "welcome"
      BY <1>1, <1>2, <2>7 DEF Filling
    <3>3. \A j \in Tasks : \A r \in tasks[j].read : r.id \in DOMAIN plugins
      BY DEF IInv, HostInv, RowInv, Known
    <3>4. QED
      BY <1>1, <2>8, <3>1, <3>2, <3>3 DEF HandlerInv, CompleteInv, Calm, Live, counters
  <2>15. QED
    BY <2>11, <2>12, <2>13, <2>14 DEF IInv, HandlerInv
<1>6. QED
  BY <1>4, <1>5

LEMMA EndPluginKeeps ==
    ASSUME IInv, NEW k \in Tasks, EndPlugin(k)
    PROVE  IInv'
<1> DEFINE n == tasks[k].id
           m == Min(tasks[k].todo)
<1>1. Types /\ HandlerInv /\ TaskInv /\ tasks[k].step = "function"
      /\ UNCHANGED <<deleted, links, host, answered, counters, overlapped>>
  BY DEF IInv, HandlerInv, EndPlugin, tables
<1>2. /\ tasks[k].todo # {} /\ Live(k) /\ Filling(k) /\ tasks[k] \in Task
      /\ n \in DOMAIN plugins /\ plugins[n] \in PluginRow
      /\ plugins[n].complete \cup tasks[k].missing = Functions
  BY <1>1, RowFields DEF HandlerInv, TaskInv, FunctionInv, Live, Owns, Filling, Types
<1>3. m \in tasks[k].todo /\ Pending(k) = tasks[k].todo \ {m}
  BY <1>1, <1>2, CurrentIsSent DEF Pending
<1>4. tasks[k].missing = {}
  BY DEF EndPlugin
<1>5. IInv'
  <2> DEFINE todo == tasks[k].todo \ {m}
             t == [tasks[k] EXCEPT !.step = NextPlugin(todo), !.todo = todo, !.id = 0]
  <2>1. UNCHANGED plugins
    BY DEF EndPlugin, tables
  <2>2. tasks' = [tasks EXCEPT ![k].step = NextPlugin(todo), ![k].todo = todo, ![k].id = 0]
    BY DEF EndPlugin
  <2>3. NextPlugin(todo) = IF todo = {} THEN "list" ELSE "plugin"
    BY DEF NextPlugin
  <2>4. t \in Task
    BY <1>2, <2>3 DEF Task, Steps
  <2>5. \A j \in Tasks : tasks'[j] = IF j = k THEN t ELSE tasks[j]
    BY <1>1, <2>2 DEF Types
  <2>6. /\ tasks'[k].step = IF todo = {} THEN "list" ELSE "plugin"
        /\ tasks'[k].todo = todo /\ tasks'[k].host = tasks[k].host
        /\ tasks'[k].sent = tasks[k].sent /\ tasks'[k].read = tasks[k].read
        /\ \A j \in Tasks \ {k} : tasks'[j] = tasks[j]
    BY <1>2, <2>3, <2>5 DEF Task
  <2>7. tasks' \in [Tasks -> Task]
    BY <1>1, <2>2, <2>4 DEF Types
  <2> HIDE DEF todo, t
  <2>8. Pending(k)' = Pending(k)
    BY <1>3, <2>6 DEF Pending, Filling, todo
  <2>9. Types' /\ HostInv' /\ OneInv' /\ CoverInv' /\ RepeatInv'
    <3>1. Grown /\ plugins' \in Seq(PluginRow) /\ DOMAIN plugins' = DOMAIN plugins
      BY <1>1, <2>1, NothingGrows DEF Types
    <3>2. tasks'[k].step \in {"function", "parameters", "plugin", "list"}
      BY <2>6
    <3>3. QED
      BY <1>1, <1>2, <2>6, <2>7, <2>8, <3>1, <3>2, FillKeeps
  <2>10. TaskInv'
    BY <1>1, <1>2, <2>1, <2>6 DEF TaskInv, Live, Owns, Filling, Current, todo, counters
  <2>11. FunctionInv'
    BY <1>1, <2>1, <2>6 DEF HandlerInv, FunctionInv
  <2>12. CompleteInv'
    <3>1. plugins[n].complete = Functions
      BY <1>2, <1>4
    <3>2. \A g : Linked(g)' = Linked(g)
      BY <1>1 DEF Linked
    <3>3. ASSUME Calm, NEW g \in Hosts, NEW i \in Linked(g)
          PROVE  \/ plugins'[i].complete = Functions
                 \/ \E j \in Tasks : Filling(j)' /\ tasks'[j].id = i /\ tasks'[j].host = g
      <4>1. CASE plugins[i].complete = Functions
        BY <2>1, <4>1
      <4>2. ASSUME NEW j \in Tasks, Filling(j), tasks[j].id = i, tasks[j].host = g
            PROVE  \/ plugins'[i].complete = Functions
                   \/ \E l \in Tasks : Filling(l)' /\ tasks'[l].id = i /\ tasks'[l].host = g
        <5>1. CASE j = k
          BY <2>1, <3>1, <4>2, <5>1
        <5>2. CASE j # k
          BY <2>6, <4>2, <5>2 DEF Filling
        <5>3. QED
          BY <5>1, <5>2
      <4>3. QED
        BY <1>1, <3>3, <4>1, <4>2 DEF HandlerInv, CompleteInv
    <3>4. ASSUME Calm, NEW j \in Tasks, tasks'[j].step = "welcome", tasks'[j].host \notin overlapped,
                 NEW r \in tasks'[j].read
          PROVE  plugins'[r.id].complete = Functions
      BY <1>1, <2>1, <2>6, <3>4 DEF HandlerInv, CompleteInv
    <3>5. QED
      BY <1>1, <3>2, <3>3, <3>4 DEF CompleteInv, Calm, counters
  <2>13. QED
    BY <2>9, <2>10, <2>11, <2>12 DEF IInv, HandlerInv
<1>6. QED
  BY <1>5

LEMMA CreateParametersKeeps ==
    ASSUME IInv, NEW k \in Tasks, CreateParameters(k)
    PROVE  IInv'
<1> DEFINE n == tasks[k].id
           f == tasks[k].function
           row == [plugins[n] EXCEPT !.complete = @ \cup {f}]
           t == [tasks[k] EXCEPT !.step = "function", !.function = ""]
<1>1. Types /\ HandlerInv /\ TaskInv /\ tasks[k].step = "parameters"
      /\ UNCHANGED <<deleted, links, host, answered, counters, overlapped>>
  BY DEF IInv, HandlerInv, CreateParameters
<1>0. /\ plugins' = [plugins EXCEPT ![n].complete = @ \cup {f}]
      /\ tasks' = [tasks EXCEPT ![k].step = "function", ![k].function = ""]
  BY DEF CreateParameters
<1>2. /\ tasks[k].todo # {} /\ Live(k) /\ Filling(k) /\ tasks[k] \in Task
      /\ n \in DOMAIN plugins /\ plugins[n] \in PluginRow /\ f \in Functions
      /\ plugins[n].complete \cup tasks[k].missing \cup {f} = Functions
  BY <1>1, RowFields DEF HandlerInv, TaskInv, FunctionInv, Live, Owns, Filling, Types
<1>3. /\ row \in PluginRow /\ row.name = plugins[n].name /\ row.complete = plugins[n].complete \cup {f}
      /\ row.display = plugins[n].display /\ row.was = plugins[n].was
  BY <1>2 DEF PluginRow
<1>4. /\ plugins' \in Seq(PluginRow) /\ DOMAIN plugins' = DOMAIN plugins
      /\ \A i \in DOMAIN plugins : plugins'[i] = IF i = n THEN row ELSE plugins[i]
  <2>1. plugins' = [plugins EXCEPT ![n] = row]
    BY <1>0, <1>1, <1>2 DEF Types
  <2>2. QED
    BY <1>1, <1>2, <1>3, <2>1 DEF Types
<1>5. t \in Task
  BY <1>2 DEF Task, Steps
<1>6. \A j \in Tasks : tasks'[j] = IF j = k THEN t ELSE tasks[j]
  BY <1>0, <1>1 DEF Types
<1>7. tasks' \in [Tasks -> Task]
  BY <1>0, <1>1, <1>5 DEF Types
<1>8. /\ tasks'[k].step = "function" /\ tasks'[k].missing = tasks[k].missing /\ tasks'[k].id = n
      /\ tasks'[k].todo = tasks[k].todo /\ tasks'[k].host = tasks[k].host
      /\ tasks'[k].sent = tasks[k].sent /\ tasks'[k].read = tasks[k].read
      /\ \A j \in Tasks \ {k} : tasks'[j] = tasks[j]
  BY <1>2, <1>6 DEF Task
<1> HIDE DEF row, t
<1>9. \A i \in DOMAIN plugins :
        /\ plugins'[i].name = plugins[i].name
        /\ plugins'[i].display = plugins[i].display /\ plugins'[i].was = plugins[i].was
        /\ plugins'[i].complete = IF i = n THEN plugins[i].complete \cup {f} ELSE plugins[i].complete
  BY <1>3, <1>4
<1>10. Grown
  BY <1>1, <1>2, <1>4, <1>9, RowFields DEF Grown
<1>11. Pending(k)' = Pending(k)
  BY <1>1, <1>8 DEF Pending, Filling
<1>12. Types' /\ HostInv' /\ OneInv' /\ CoverInv' /\ RepeatInv'
  BY <1>1, <1>2, <1>4, <1>7, <1>8, <1>10, <1>11, FillKeeps
<1>13. TaskInv'
  <2>1. DOMAIN plugins' = DOMAIN plugins /\ \A i \in DOMAIN plugins : plugins'[i].name = plugins[i].name
    BY <1>4, <1>9
  <2>2. n \in DOMAIN plugins' /\ tasks[k].step = "parameters"
    BY <1>1, <1>2, <2>1
  <2>3. QED
    BY <1>1, <1>2, <1>8, <2>1, <2>2 DEF TaskInv, Live, Owns, Filling, Current, counters
<1>14. FunctionInv'
  <2>1. \A j \in Tasks : Filling(j) => tasks[j].id \in DOMAIN plugins
    BY <1>1 DEF TaskInv, Live, Owns, Filling
  <2>2. plugins'[n].complete \cup tasks'[k].missing = Functions
    BY <1>2, <1>8, <1>9
  <2>3. \A j \in Tasks \ {k} :
          /\ tasks[j].step = "function" =>
                plugins'[tasks[j].id].complete \cup tasks[j].missing = Functions
          /\ tasks[j].step = "parameters" =>
                plugins'[tasks[j].id].complete \cup tasks[j].missing \cup {tasks[j].function} = Functions
    <3>1. FunctionInv
      BY <1>1 DEF HandlerInv
    <3>2. \A i \in DOMAIN plugins : plugins[i].complete \subseteq plugins'[i].complete
                                 /\ plugins'[i].complete \subseteq plugins[i].complete \cup {f}
      BY <1>9
    <3>3. f \in Functions
      BY <1>2
    <3>4. QED
      BY <2>1, <3>1, <3>2, <3>3 DEF FunctionInv, Filling
  <2>4. QED
    BY <1>8, <2>2, <2>3 DEF FunctionInv
<1>15. CompleteInv'
  <2>1. \A g : Linked(g)' = Linked(g) /\ Linked(g) \subseteq DOMAIN plugins
    BY <1>1, LinkedAreRows DEF Linked
  <2>2. \A j \in Tasks : /\ Filling(j)' = Filling(j) /\ tasks'[j].id = tasks[j].id
                         /\ tasks'[j].host = tasks[j].host /\ tasks'[j].read = tasks[j].read
                         /\ tasks'[j].step = "welcome" => tasks[j].step = "welcome"
    BY <1>1, <1>2, <1>8 DEF Filling
  <2>3. \A j \in Tasks : \A r \in tasks[j].read : r.id \in DOMAIN plugins
    BY DEF IInv, HostInv, RowInv, Known
  <2>4. \A i \in DOMAIN plugins : plugins[i].complete = Functions => plugins'[i].complete = Functions
    BY <1>2, <1>9
  <2>5. QED
    BY <1>1, <2>1, <2>2, <2>3, <2>4 DEF HandlerInv, CompleteInv, Calm, Live, counters
<1>16. QED
  BY <1>12, <1>13, <1>14, <1>15 DEF IInv, HandlerInv

LEMMA ListPluginsKeeps ==
    ASSUME IInv, NEW k \in Tasks, ListPlugins(k)
    PROVE  IInv'
<1> DEFINE h == tasks[k].host
           rows == {[id |-> i, name |-> plugins[i].name, display |-> plugins[i].display] : i \in Linked(h)}
           t == [tasks[k] EXCEPT !.step = "welcome", !.read = rows]
<1>1. Types /\ HandlerInv /\ TaskInv /\ tasks[k].step = "list"
      /\ UNCHANGED <<tables, host, answered, counters, overlapped>>
  BY DEF IInv, HandlerInv, ListPlugins
<1>0. tasks' = [tasks EXCEPT ![k].step = "welcome", ![k].read = rows]
  BY DEF ListPlugins
<1>2. /\ Live(k) /\ tasks[k] \in Task /\ h \in Hosts /\ tasks[k].todo = {}
  BY <1>1 DEF TaskInv, Live, Types
<1>3. /\ Linked(h) \subseteq DOMAIN plugins /\ rows \in SUBSET ReadRow
      /\ \A r \in rows : Known(r) /\ r.id \in Linked(h)
      /\ NamesOf(Linked(h)) = {r.name : r \in rows}
  <2>1. Linked(h) \subseteq DOMAIN plugins
    BY <1>1, LinkedAreRows
  <2>2. \A i \in Linked(h) : LabelOf(plugins[i]) \in plugins[i].was
    BY <2>1 DEF IInv, HostInv, RowInv, Labelled
  <2>3. \A r \in rows : r \in ReadRow
    BY <1>1, <2>1, RowFields DEF ReadRow
  <2>4. \A r \in rows : Known(r) /\ r.id \in Linked(h)
    BY <2>1, <2>2 DEF Known, LabelOf
  <2>5. NamesOf(Linked(h)) = {r.name : r \in rows}
    <3> DEFINE row(i) == [id |-> i, name |-> plugins[i].name, display |-> plugins[i].display]
    <3>1. \A i : row(i).name = plugins[i].name
      OBVIOUS
    <3>2. rows = {row(i) : i \in Linked(h)}
      OBVIOUS
    <3> HIDE DEF row, rows
    <3>3. QED
      BY <3>1, <3>2 DEF NamesOf
  <2>6. QED
    BY <2>1, <2>3, <2>4, <2>5
<1>4. t \in Task
  BY <1>2, <1>3 DEF Task, Steps
<1>5. \A j \in Tasks : tasks'[j] = IF j = k THEN t ELSE tasks[j]
  BY <1>0, <1>1 DEF Types
<1>6. tasks' \in [Tasks -> Task]
  BY <1>0, <1>1, <1>4 DEF Types
<1>7. /\ tasks'[k].step = "welcome" /\ tasks'[k].read = rows
      /\ tasks'[k].todo = {} /\ tasks'[k].host = h /\ tasks'[k].sent = tasks[k].sent
      /\ \A j \in Tasks \ {k} : tasks'[j] = tasks[j]
  BY <1>2, <1>5 DEF Task
<1> HIDE DEF t, rows
<1>8. Types'
  BY <1>1, <1>6 DEF Types, tables, counters, host
<1>9. HostInv'
  <2>1. \A r : Known(r)' = Known(r)
    BY <1>1 DEF Known, tables
  <2>2. \A i : Labelled(i)' = Labelled(i)
    BY <1>1 DEF Labelled, tables
  <2>3. \A j \in Tasks : \A r \in tasks'[j].read : Known(r)
    BY <1>3, <1>7 DEF IInv, HostInv, RowInv
  <2>4. RowInv'
    BY <1>1, <2>1, <2>2, <2>3 DEF IInv, HostInv, RowInv, tables, host, counters
  <2>5. QED
    BY <1>1, <2>4 DEF IInv, HostInv, LocalInv, IdsAreTrue, Ids, tables, host
<1>10. TaskInv'
  BY <1>1, <1>2, <1>3, <1>7 DEF TaskInv, Live, Owns, Filling, Current, tables, counters
<1>11. OneInv'
  BY <1>1, <1>2, <1>7 DEF HandlerInv, OneInv, Live
<1>12. \A ids : NamesOf(ids)' = NamesOf(ids)
  BY <1>1 DEF NamesOf, tables
<1>13. \A g : Linked(g)' = Linked(g) /\ Duplicated(g)' = Duplicated(g)
  BY <1>1 DEF Linked, Duplicated, tables
<1>14. CoverInv'
  <2>1. edits = 0 => \A i \in DOMAIN tasks[k].sent : tasks[k].sent[i].name \in NamesOf(Linked(h))
    BY <1>1, <1>2 DEF HandlerInv, CoverInv, Synced, Pending, Filling
  <2>2. QED
    BY <1>1, <1>3, <1>7, <1>12, <1>13, <2>1 DEF HandlerInv, CoverInv, NamesRead, Synced, Pending, Filling, counters
<1>15. RepeatInv'
  BY <1>1, <1>7, <1>12, <1>13 DEF HandlerInv, RepeatInv, Repeatable, Synced, Pending, Filling, counters
<1>16. FunctionInv'
  BY <1>1, <1>7 DEF HandlerInv, FunctionInv, tables
<1>17. CompleteInv'
  <2>1. ASSUME Calm, h \notin overlapped, NEW i \in Linked(h)
        PROVE  plugins[i].complete = Functions
    <3>1. \A j \in Tasks : tasks[j].host = h /\ Filling(j) => j = k
      BY <1>1, <1>2, <2>1 DEF HandlerInv, OneInv, Live, Filling
    <3>2. ~Filling(k)
      BY <1>1 DEF Filling
    <3>3. QED
      BY <1>1, <1>2, <2>1, <3>1, <3>2 DEF HandlerInv, CompleteInv
  <2>2. \A j \in Tasks : Filling(j) => j # k /\ Filling(j)' /\ tasks'[j] = tasks[j]
    BY <1>1, <1>7 DEF Filling
  <2>3. \A j \in Tasks \ {k} : tasks'[j].step = "welcome" => tasks[j].step = "welcome" /\ tasks'[j] = tasks[j]
    BY <1>7
  <2>4. QED
    BY <1>1, <1>3, <1>7, <1>13, <2>1, <2>2, <2>3 DEF HandlerInv, CompleteInv, Calm, tables, counters
<1>18. QED
  BY <1>8, <1>9, <1>10, <1>11, <1>14, <1>15, <1>16, <1>17 DEF IInv, HandlerInv

-----------------------------------------------------------------------------
(* The host's list of plugins.                                             *)

TrueEntry(e) == e.id # 0 =>
    /\ e.id \in DOMAIN plugins
    /\ \E l \in plugins[e.id].was : l.name = e.name \/ l.display = e.display
TrueIds(list) == \A i \in DOMAIN list : TrueEntry(list[i])

LEMMA TrueIdsAre ==
    IdsAreTrue <=> \A h \in Hosts : TrueIds(local[h])
BY DEF IdsAreTrue, TrueIds, TrueEntry, Ids

\* A welcome leaves the ids of the host as they are, and what it adds to the
\* records to go through is known.
LEMMA HostWelcomeKeeps ==
    ASSUME IInv, NEW k \in Tasks, HostWelcome(k)
    PROVE  IInv'
<1> DEFINE h == tasks[k].host
           more == {[id |-> r.id, name |-> r.name, display |-> r.display, welcome |-> answered'[h]] :
                      r \in tasks[k].read}
<1>1. Types /\ HandlerInv /\ TaskInv /\ tasks[k].step = "welcome"
      /\ UNCHANGED <<tables, local, counters, overlapped>> /\ Dies(k)
      /\ answered' = [answered EXCEPT ![h] = @ + 1]
      /\ unread' = [unread EXCEPT ![h] = @ \cup more]
  BY DEF IInv, HandlerInv, HostWelcome
<1>2. h \in Hosts /\ tasks[k] \in Task
  BY <1>1 DEF TaskInv, Live, Types
<1> HIDE DEF more
<1>3. \A r \in more : r \in ToRead /\ Known(r)
  <2>1. \A r \in tasks[k].read : r \in ReadRow /\ Known(r)
    BY <1>2 DEF Task, IInv, HostInv, RowInv
  <2>2. answered'[h] \in Nat
    BY <1>1, <1>2 DEF Types
  <2> DEFINE row(r) == [id |-> r.id, name |-> r.name, display |-> r.display, welcome |-> answered'[h]]
  <2>3. ASSUME NEW r \in tasks[k].read
        PROVE  row(r) \in ToRead /\ Known(row(r))
    <3>1. r \in ReadRow /\ r.id \in DOMAIN plugins /\ LabelOf(r) \in plugins[r.id].was
      BY <2>1 DEF Known
    <3>2. row(r) \in ToRead /\ row(r).id = r.id /\ LabelOf(row(r)) = LabelOf(r)
      BY <2>2, <3>1 DEF ReadRow, ToRead, LabelOf
    <3> HIDE DEF row
    <3>3. QED
      BY <3>1, <3>2 DEF Known
  <2>4. more = {row(r) : r \in tasks[k].read}
    BY DEF more
  <2> HIDE DEF row
  <2>5. \A r \in tasks[k].read : row(r) \in ToRead /\ Known(row(r))
    BY <2>3
  <2>6. QED
    BY <2>4, <2>5
<1>4. answered' \in [Hosts -> Nat]
  BY <1>1, <1>2 DEF Types
<1>5. \A g \in Hosts : unread'[g] = IF g = h THEN unread[g] \cup more ELSE unread[g]
  BY <1>1 DEF Types
<1>6. unread' \in [Hosts -> SUBSET ToRead]
  BY <1>1, <1>2, <1>3 DEF Types
<1> HIDE DEF h
<1>7. HandlerInv' /\ tasks' \in [Tasks -> Task]
  <2>1. UNCHANGED <<plugins, deleted, links, edits, overlapped>> /\ faults' = faults /\ faults \in Nat
    BY <1>1 DEF tables, counters, Types
  <2>2. ~Filling(k)
    BY <1>1 DEF Filling
  <2>3. QED
    BY <1>1, <2>1, <2>2, DyingKeeps
<1>8. Types'
  BY <1>1, <1>4, <1>6, <1>7 DEF Types, tables, counters
<1>9. LocalInv' /\ IdsAreTrue'
  BY <1>1 DEF IInv, HostInv, LocalInv, IdsAreTrue, Ids, tables
<1>10. RowInv'
  <2>1. (\A r : Known(r)' = Known(r)) /\ (\A i : Labelled(i)' = Labelled(i))
    BY <1>1 DEF Known, Labelled, tables
  <2>2. \A j \in Tasks : \A r \in tasks'[j].read : Known(r)
    BY <1>1 DEF Dies, NoTask, IInv, HostInv, RowInv, Types
  <2>3. \A g \in Hosts : \A r \in unread'[g] : Known(r)
    BY <1>3, <1>5 DEF IInv, HostInv, RowInv
  <2>4. QED
    BY <1>1, <2>1, <2>2, <2>3 DEF IInv, HostInv, RowInv, tables, counters
<1>11. QED
  BY <1>7, <1>8, <1>9, <1>10 DEF IInv, HostInv

\* What the host does with a welcome leaves the authority alone.
LEMMA HostStepKeeps ==
    ASSUME IInv, NEW h \in Hosts, UNCHANGED <<tables, tasks, answered, counters, overlapped>>,
           NEW list \in Seq(Plugin), local' = [local EXCEPT ![h] = list],
           NEW rest \in SUBSET unread[h], unread' = [unread EXCEPT ![h] = rest],
           Distinct(local[h]) => Distinct(list), TrueIds(list)
    PROVE  IInv'
<1>1. Types /\ HandlerInv
  BY DEF IInv
<1>2. /\ local' \in [Hosts -> Seq(Plugin)] /\ unread' \in [Hosts -> SUBSET ToRead]
      /\ \A g \in Hosts : /\ local'[g] = IF g = h THEN list ELSE local[g]
                          /\ unread'[g] \subseteq unread[g]
  BY <1>1 DEF Types
<1>3. Types'
  BY <1>1, <1>2 DEF Types, tables, counters
<1>4. LocalInv'
  BY <1>2 DEF IInv, HostInv, LocalInv
<1>5. IdsAreTrue'
  <2>1. \A g \in Hosts : TrueIds(local'[g])
    BY <1>2, TrueIdsAre DEF IInv, HostInv
  <2>2. plugins' = plugins
    BY DEF tables
  <2>3. QED
    BY <2>1, <2>2 DEF IdsAreTrue, TrueIds, TrueEntry, Ids
<1>6. RowInv'
  <2>1. (\A r : Known(r)' = Known(r)) /\ (\A i : Labelled(i)' = Labelled(i))
    BY DEF Known, Labelled, tables
  <2>2. QED
    BY <1>2, <2>1 DEF IInv, HostInv, RowInv, tables, counters
<1>7. HandlerInv'
  BY <1>1 DEF HandlerInv, TaskInv, OneInv, CoverInv, RepeatInv, FunctionInv, CompleteInv, Repeatable,
              Duplicated, Calm, Live, Owns, Filling, Synced, Pending, Current, NamesOf, NamesRead, Linked,
              tables, counters
<1>8. QED
  BY <1>3, <1>4, <1>5, <1>6, <1>7 DEF IInv, HostInv

\* A record that is gone through gives its id to a plugin of one of its names, or
\* is a plugin of a new name.
LEMMA ReconcilePluginKeeps ==
    ASSUME IInv, NEW h \in Hosts, ReconcilePlugin(h)
    PROVE  IInv'
<1>1. PICK r \in unread[h] :
        /\ local' = [local EXCEPT ![h] =
               IF Places(local[h], r) # {} THEN [local[h] EXCEPT ![Min(Places(local[h], r))].id = r.id]
               ELSE Append(local[h], [name |-> r.name, display |-> r.display, id |-> r.id])]
        /\ unread' = [unread EXCEPT ![h] = unread[h] \ {r}]
  BY DEF ReconcilePlugin, IInv, Types
<1> DEFINE list == local[h]
           places == Places(list, r)
           told == IF places # {} THEN [list EXCEPT ![Min(places)].id = r.id]
                   ELSE Append(list, [name |-> r.name, display |-> r.display, id |-> r.id])
<1>2. UNCHANGED <<tables, tasks, answered, counters, overlapped>>
  BY DEF ReconcilePlugin
<1>3. /\ list \in Seq(Plugin) /\ DOMAIN list = 1 .. Len(list) /\ Len(list) \in Nat
      /\ \A i \in DOMAIN list : list[i] \in Plugin
      /\ TrueIds(list)
      /\ r \in ToRead /\ Known(r)
  BY <1>1, TrueIdsAre DEF IInv, Types, HostInv, RowInv
<1>4. /\ r.id \in DOMAIN plugins /\ r.id \in Nat /\ r.name \in PluginNames /\ r.display \in Displays
      /\ \E l \in plugins[r.id].was : l.name = r.name /\ l.display = r.display
  BY <1>3 DEF Known, LabelOf, ToRead
<1>5. /\ local' = [local EXCEPT ![h] = told]
  BY <1>1
<1> HIDE DEF list
<1>6. told \in Seq(Plugin) /\ (Distinct(list) => Distinct(told)) /\ TrueIds(told)
  <2>1. CASE places # {}
    <3> DEFINE m == Min(places)
               e == [list[m] EXCEPT !.id = r.id]
    <3>1. places \in SUBSET Nat /\ places \subseteq DOMAIN list
      BY <1>3 DEF Places
    <3>2. m \in places
      BY <2>1, <3>1, MinIsMember
    <3>3. m \in DOMAIN list /\ (list[m].name = r.name \/ list[m].display = r.display)
      BY <3>2 DEF Places
    <3> HIDE DEF m
    <3>4. /\ e \in Plugin /\ e.id = r.id /\ e.name = list[m].name /\ e.display = list[m].display
      BY <1>3, <1>4, <3>3 DEF Plugin
    <3>5. told = [list EXCEPT ![m] = e]
      BY <1>3, <2>1, <3>3 DEF m
    <3> HIDE DEF e, told, places
    <3>6. /\ told \in Seq(Plugin) /\ DOMAIN told = DOMAIN list
          /\ \A i \in DOMAIN list : told[i] = IF i = m THEN e ELSE list[i]
      BY <1>3, <3>3, <3>4, <3>5
    <3>7. TrueEntry(e)
      BY <1>4, <3>3, <3>4 DEF TrueEntry
    <3>8. TrueIds(told)
      BY <1>3, <3>6, <3>7 DEF TrueIds
    <3>9. Distinct(list) => Distinct(told)
      BY <3>3, <3>4, <3>6 DEF Distinct
    <3>10. QED
      BY <3>6, <3>8, <3>9
  <2>2. CASE places = {}
    <3> DEFINE e == [name |-> r.name, display |-> r.display, id |-> r.id]
    <3>1. e \in Plugin /\ TrueEntry(e)
      BY <1>4 DEF Plugin, TrueEntry
    <3>2. \A i \in DOMAIN list : list[i].name # e.name
      BY <2>2 DEF Places
    <3>3. told = Append(list, e)
      BY <2>2
    <3> HIDE DEF e, told, places
    <3>4. /\ told \in Seq(Plugin) /\ DOMAIN told = DOMAIN list \cup {Len(list) + 1}
          /\ told[Len(list) + 1] = e /\ \A i \in DOMAIN list : told[i] = list[i]
      BY <1>3, <3>1, <3>3
    <3>5. TrueIds(told)
      BY <1>3, <3>1, <3>4 DEF TrueIds
    <3>6. Distinct(list) => Distinct(told)
      BY <3>2, <3>4 DEF Distinct
    <3>7. QED
      BY <3>4, <3>5, <3>6
  <2>3. QED
    BY <2>1, <2>2
<1> HIDE DEF told
<1>7. QED
  BY <1>1, <1>2, <1>5, <1>6, HostStepKeeps DEF list

LEMMA BreaksOffKeeps ==
    ASSUME IInv, NEW h \in Hosts, BreaksOff(h)
    PROVE  IInv'
<1>1. PICK r \in unread[h] : unread' = [unread EXCEPT ![h] = {x \in unread[h] : x.welcome # r.welcome}]
  BY DEF BreaksOff, IInv, Types
<1>2. UNCHANGED <<tables, local, tasks, answered, counters, overlapped>>
  BY DEF BreaksOff
<1>3. local[h] \in Seq(Plugin) /\ local' = [local EXCEPT ![h] = local[h]] /\ TrueIds(local[h])
  BY <1>2, TrueIdsAre DEF IInv, Types, HostInv
<1>4. QED
  BY <1>1, <1>2, <1>3, HostStepKeeps


LEMMA FailsKeeps ==
    ASSUME IInv, NEW k \in Tasks, Fails(k)
    PROVE  IInv'
<1>1. /\ Dies(k) /\ UNCHANGED <<tables, host, answered, edits, overlapped>>
      /\ faults' = faults + 1 /\ faults \in Nat
  BY DEF Fails, IInv, Types
<1>2. faults' \in Nat /\ faults' # 0
  BY <1>1
<1>3. QED
  BY <1>1, <1>2, DyingStep

\* A process that has just started knows no ids.
LEMMA AsBuiltIsPlugins ==
    ASSUME NEW h \in Hosts
    PROVE  /\ AsBuilt(h) \in Seq(Plugin)
           /\ IsInjective(Provided[h]) => Distinct(AsBuilt(h))
           /\ \A i \in DOMAIN AsBuilt(h) : AsBuilt(h)[i].id = 0
<1> DEFINE names == Provided[h]
<1>1. names \in Seq(Names)
  BY ProvidedAssumption
<1>2. AsBuilt(h) = [i \in DOMAIN names |-> [name |-> names[i], display |-> DisplayOf[names[i]], id |-> 0]]
  BY DEF AsBuilt
<1> HIDE DEF names
<1>3. DOMAIN names = 1 .. Len(names) /\ Len(names) \in Nat /\ \A i \in DOMAIN names : names[i] \in PluginNames /\ DisplayOf[names[i]] \in Displays
  BY <1>1, DisplayAssumption DEF PluginNames
<1>4. \A i \in DOMAIN names : AsBuilt(h)[i].name = names[i] /\ AsBuilt(h)[i].id = 0
                             /\ AsBuilt(h)[i] \in Plugin
  BY <1>2, <1>3 DEF Plugin
<1>5. DOMAIN AsBuilt(h) = DOMAIN names
  BY <1>2
<1>6. AsBuilt(h) \in [1 .. Len(names) -> Plugin]
  BY <1>2, <1>3 DEF Plugin
<1>7. AsBuilt(h) \in Seq(Plugin)
  BY <1>3, <1>6
<1>8. IsInjective(Provided[h]) => Distinct(AsBuilt(h))
  BY <1>4, <1>5 DEF IsInjective, Distinct, names
<1>9. QED
  BY <1>4, <1>5, <1>7, <1>8

LEMMA HostConnectKeeps ==
    ASSUME IInv, NEW h \in Hosts, HostConnect(h)
    PROVE  IInv'
<1>1. Types /\ HandlerInv /\ TaskInv /\ UNCHANGED <<tables, answered, faults, edits>>
      /\ overlapped' = IF \E k \in Tasks : tasks[k].host = h THEN overlapped \cup {h} ELSE overlapped
  BY DEF IInv, HandlerInv, HostConnect, Tasks
<1>2. PICK list \in {local[h], AsBuilt(h)}, k \in Tasks :
        /\ local' = [local EXCEPT ![h] = list]
        /\ unread' = [unread EXCEPT ![h] = {}] \/ unread' = unread
        /\ ~Live(k)
        /\ tasks' = [tasks EXCEPT ![k] = [NoTask EXCEPT !.step = "sync", !.host = h, !.sent = list]]
  BY DEF HostConnect, Tasks
<1> DEFINE t == [NoTask EXCEPT !.step = "sync", !.host = h, !.sent = list]
<1>3. /\ list \in Seq(Plugin)
      /\ IsInjective(Provided[h]) => Distinct(list)
      /\ TrueIds(list)
  <2>1. CASE list = local[h]
    BY <1>1, <2>1, TrueIdsAre DEF IInv, HostInv, LocalInv, Types
  <2>2. CASE list = AsBuilt(h)
    BY <2>2, AsBuiltIsPlugins DEF TrueIds, TrueEntry
  <2>3. QED
    BY <1>2, <2>1, <2>2
<1>4. t \in Task /\ t.step = "sync" /\ t.host = h /\ t.sent = list /\ t.todo = {} /\ t.read = {}
  BY <1>3 DEF NoTask, Task, Steps
<1> HIDE DEF t
<1>5. tasks' \in [Tasks -> Task] /\ \A j \in Tasks : tasks'[j] = IF j = k THEN t ELSE tasks[j]
  BY <1>1, <1>2, <1>4 DEF Types, t
<1>6. /\ tasks'[k].step = "sync" /\ tasks'[k].host = h /\ tasks'[k].sent = list
      /\ tasks'[k].todo = {} /\ tasks'[k].read = {}
      /\ \A j \in Tasks \ {k} : tasks'[j] = tasks[j]
  BY <1>4, <1>5
<1>20. /\ unread' \in [Hosts -> SUBSET ToRead]
       /\ \A g \in Hosts : unread'[g] \subseteq unread[g]
  BY <1>1, <1>2 DEF Types
<1>7. local' \in [Hosts -> Seq(Plugin)] /\ \A g \in Hosts : local'[g] = IF g = h THEN list ELSE local[g]
  BY <1>1, <1>2, <1>3 DEF Types
<1>8. tasks[k].step = "none" /\ overlapped \subseteq overlapped' /\ faults' = faults /\ edits' = edits
      /\ plugins' = plugins
  BY <1>1, <1>2 DEF Live, tables
<1>9. Types'
  BY <1>1, <1>5, <1>7, <1>20 DEF Types, tables
<1>10. LocalInv'
  BY <1>3, <1>7 DEF IInv, HostInv, LocalInv
<1>11. IdsAreTrue'
  <2>1. \A g \in Hosts : TrueIds(local'[g])
    BY <1>3, <1>7, TrueIdsAre DEF IInv, HostInv
  <2>2. QED
    BY <1>8, <2>1 DEF IdsAreTrue, TrueIds, TrueEntry, Ids
<1>21. RowInv'
  <2>1. (\A r : Known(r)' = Known(r)) /\ (\A i : Labelled(i)' = Labelled(i))
    BY <1>8 DEF Known, Labelled
  <2>2. \A j \in Tasks : tasks'[j].read \subseteq tasks[j].read
    BY <1>6
  <2>3. QED
    BY <1>1, <1>20, <2>1, <2>2 DEF IInv, HostInv, RowInv, tables
<1>12. TaskInv'
  BY <1>1, <1>3, <1>6, <1>8 DEF TaskInv, Live, Owns, Filling, Current
<1>13. OneInv'
  <2>1. SUFFICES ASSUME NEW g \in Hosts \ overlapped', NEW i \in Tasks, NEW j \in Tasks,
                        Live(i)', Live(j)', tasks'[i].host = g, tasks'[j].host = g
                 PROVE  i = j
    BY DEF OneInv
  <2>2. CASE g = h
    BY <1>1, <1>6, <2>1, <2>2
  <2>3. CASE g # h
    BY <1>1, <1>6, <1>8, <2>1, <2>3 DEF HandlerInv, OneInv, Live
  <2>4. QED
    BY <2>2, <2>3
<1>14. (\A g : Linked(g)' = Linked(g) /\ Duplicated(g)' = Duplicated(g)) /\ (\A ids : NamesOf(ids)' = NamesOf(ids))
  BY <1>1 DEF Linked, Duplicated, NamesOf, tables
<1>15. CoverInv'
  BY <1>1, <1>6, <1>8, <1>14 DEF HandlerInv, CoverInv, NamesRead, Synced, Pending, Filling
<1>16. RepeatInv'
  BY <1>1, <1>6, <1>8, <1>14 DEF HandlerInv, RepeatInv, Repeatable, Synced, Pending, Filling
<1>17. FunctionInv'
  BY <1>1, <1>6, <1>8 DEF HandlerInv, FunctionInv
<1>18. CompleteInv'
  <2>1. \A j \in Tasks : Filling(j) => j # k /\ Filling(j)' /\ tasks'[j] = tasks[j]
    BY <1>6, <1>8 DEF Filling
  <2>2. \A j \in Tasks : tasks'[j].step = "welcome" => j # k /\ tasks'[j] = tasks[j]
    BY <1>6
  <2>3. QED
    BY <1>1, <1>8, <1>14, <2>1, <2>2 DEF HandlerInv, CompleteInv, Calm
<1>19. QED
  BY <1>9, <1>10, <1>11, <1>12, <1>13, <1>15, <1>16, <1>17, <1>18, <1>21 DEF IInv, HostInv, HandlerInv

-----------------------------------------------------------------------------
(* Edits of the owner.                                                     *)

\* After an edit nothing is promised of the links; records keep what they were.
LEMMA EditKeeps ==
    ASSUME IInv, Edits, plugins' \in Seq(PluginRow), DOMAIN plugins' = DOMAIN plugins,
           \A i \in DOMAIN plugins : /\ plugins[i].was \subseteq plugins'[i].was
                                    /\ Labelled(i)'
                                    /\ plugins'[i].complete = plugins[i].complete,
           deleted' \subseteq DOMAIN plugins,
           links' \in Seq(Link), \A i \in DOMAIN links' : links'[i].id \in DOMAIN plugins
    PROVE  IInv'
<1>1. /\ Types /\ edits' \in Nat /\ edits' # 0
      /\ UNCHANGED <<host, tasks, answered, faults, overlapped>>
  BY DEF IInv, Types, Edits
<1>2. Types'
  BY <1>1 DEF Types, host
<1>3. HostInv'
  <2>1. LocalInv'
    BY <1>1 DEF IInv, HostInv, LocalInv, host
  <2>2. IdsAreTrue'
    BY <1>1 DEF IInv, HostInv, IdsAreTrue, Ids, host
  <2>3. \A r : Known(r) => Known(r)'
    BY DEF Known
  <2>4. RowInv'
    BY <1>1, <2>3 DEF IInv, HostInv, RowInv, host
  <2>5. QED
    BY <2>1, <2>2, <2>4 DEF HostInv
<1>4. TaskInv' /\ OneInv'
  BY <1>1 DEF IInv, HandlerInv, TaskInv, OneInv, Live, Owns, Filling, Current
<1>5. FunctionInv'
  <2>1. \A k \in Tasks : Filling(k) => tasks[k].id \in DOMAIN plugins
    BY DEF IInv, HandlerInv, TaskInv, Live, Owns, Filling
  <2>2. QED
    BY <1>1, <2>1 DEF IInv, HandlerInv, FunctionInv, Filling
<1>6. CoverInv' /\ RepeatInv' /\ CompleteInv'
  BY <1>1 DEF CoverInv, RepeatInv, CompleteInv, Repeatable, Calm
<1>7. QED
  BY <1>2, <1>3, <1>4, <1>5, <1>6 DEF IInv, HandlerInv

\* An edit of the links leaves the records as they are.
LEMMA LinkEditKeeps ==
    ASSUME IInv, Edits, UNCHANGED plugins, deleted' \subseteq DOMAIN plugins,
           links' \in Seq(Link), \A i \in DOMAIN links' : links'[i].id \in DOMAIN plugins
    PROVE  IInv'
<1>1. \A i \in DOMAIN plugins : Labelled(i)'
  BY DEF IInv, HostInv, RowInv, Labelled
<1>2. QED
  BY <1>1, EditKeeps DEF IInv, Types

LEMMA AddPluginKeeps ==
    ASSUME IInv, NEW h \in Hosts, NEW i, AddPluginToHost(h, i)
    PROVE  IInv'
<1> DEFINE link == [host |-> h, id |-> i]
<1>1. /\ i \in DOMAIN plugins /\ Edits /\ links' = Append(links, link) /\ Types
      /\ UNCHANGED <<plugins, deleted>>
  BY DEF AddPluginToHost, IInv, Ids
<1>2. link \in Link /\ link.id = i
  BY <1>1, RowFields DEF Link
<1> HIDE DEF link
<1>3. links' \in Seq(Link) /\ \A j \in DOMAIN links' : links'[j].id \in DOMAIN plugins
  BY <1>1, <1>2 DEF Types
<1>4. QED
  BY <1>1, <1>3, LinkEditKeeps DEF Types

LEMMA RemovePluginKeeps ==
    ASSUME IInv, NEW h \in Hosts, NEW i, RemovePluginFromHost(h, i)
    PROVE  IInv'
<1> DEFINE I == {j \in 1 .. Len(links) : links[j] = [host |-> h, id |-> i]}
           at == SelectInSeq(links, LAMBDA l : l = [host |-> h, id |-> i])
<1>1. /\ i \in Linked(h) /\ Edits /\ links' = RemoveAt(links, at) /\ Types
      /\ UNCHANGED <<plugins, deleted>>
  BY DEF RemovePluginFromHost, IInv
<1>2. at = IF I # {} THEN Min(I) ELSE 0
  BY DEF SelectInSeq
<1>3. DOMAIN links = 1 .. Len(links) /\ Len(links) \in Nat /\ links \in Seq(Link)
  BY <1>1 DEF Types
<1>4. I # {}
  <2>1. \A g, n : n \in Linked(g) <=> n \notin deleted /\ \E l \in DOMAIN links : links[l].host = g /\ links[l].id = n
    BY LinkedMember DEF Linked
  <2>2. PICK j \in DOMAIN links : links[j].host = h /\ links[j].id = i
    BY <1>1, <2>1
  <2>3. links[j] \in Link
    BY <1>3
  <2>4. links[j] = [host |-> h, id |-> i]
    BY <2>2, <2>3 DEF Link
  <2>5. QED
    BY <1>3, <2>4
<1>5. I \in SUBSET Nat /\ I \subseteq DOMAIN links
  BY <1>3
<1>6. Min(I) \in I
  BY <1>4, <1>5, MinIsMember, Zenon
<1>7. at \in DOMAIN links
  BY <1>2, <1>4, <1>5, <1>6
<1> HIDE DEF at, I
<1> DEFINE was(k) == IF k < at THEN k ELSE k + 1
<1>8. /\ links' \in Seq(Link)
      /\ \A k \in DOMAIN links' : was(k) \in DOMAIN links \ {at} /\ links'[k] = links[was(k)]
  BY <1>1, <1>3, <1>7, Removed
<1>9. \A k \in DOMAIN links' : links'[k].id \in DOMAIN plugins
  BY <1>1, <1>8 DEF Types
<1>10. QED
  BY <1>1, <1>8, <1>9, LinkEditKeeps DEF Types

LEMMA UpdatePluginKeeps ==
    ASSUME IInv, NEW i, NEW display \in Displays, UpdatePlugin(i, display)
    PROVE  IInv'
<1> DEFINE label == [name |-> NoName, display |-> display]
           row == [plugins[i] EXCEPT !.name = NoName, !.display = display, !.was = @ \cup {label}]
<1>1. /\ i \in DOMAIN plugins /\ Edits /\ Types /\ UNCHANGED <<deleted, links>>
      /\ plugins' = [plugins EXCEPT ![i].name = NoName, ![i].display = display, ![i].was = @ \cup {label}]
  BY DEF UpdatePlugin, IInv, Ids
<1>2. plugins' = [plugins EXCEPT ![i] = row]
  BY <1>1 DEF Types
<1>3. plugins[i] \in PluginRow /\ label \in Label /\ label = LabelOf(label)
      /\ label.name = NoName /\ label.display = display /\ NoName \in PluginNames
  BY <1>1, RowFields DEF Label, LabelOf, PluginNames
<1> HIDE DEF label
<1>8. /\ row.name = NoName /\ row.display = display /\ row.was = plugins[i].was \cup {label}
      /\ row.complete = plugins[i].complete
  BY <1>3 DEF PluginRow
<1>9. row \in PluginRow
  BY <1>3 DEF PluginRow
<1> HIDE DEF row
<1>4. /\ LabelOf(row) \in row.was
      /\ plugins[i].was \subseteq row.was /\ row.complete = plugins[i].complete
  BY <1>3, <1>8 DEF LabelOf
<1>5. /\ plugins' \in Seq(PluginRow) /\ DOMAIN plugins' = DOMAIN plugins
      /\ \A j \in DOMAIN plugins : plugins'[j] = IF j = i THEN row ELSE plugins[j]
  <2>1. i \in DOMAIN plugins /\ plugins \in Seq(PluginRow)
    BY <1>1 DEF Types
  <2>2. QED
    BY <1>2, <1>9, <2>1
<1>6. \A j \in DOMAIN plugins : /\ plugins[j].was \subseteq plugins'[j].was
                                /\ Labelled(j)'
                                /\ plugins'[j].complete = plugins[j].complete
  BY <1>4, <1>5 DEF IInv, HostInv, RowInv, Labelled
<1>7. QED
  BY <1>1, <1>5, <1>6, EditKeeps DEF Types

LEMMA DeletePluginKeeps ==
    ASSUME IInv, NEW i, DeletePlugin(i)
    PROVE  IInv'
<1>1. /\ i \in DOMAIN plugins /\ Edits /\ Types /\ deleted' = deleted \cup {i}
      /\ UNCHANGED <<plugins, links>>
  BY DEF DeletePlugin, IInv, Ids
<1>2. QED
  BY <1>1, LinkEditKeeps DEF Types

-----------------------------------------------------------------------------

LEMMA InvInit == Init => IInv
<1> SUFFICES ASSUME Init PROVE IInv
  OBVIOUS
<1>1. /\ links = <<>> /\ faults = 0 /\ edits = 0 /\ overlapped = {} /\ deleted = {}
      /\ plugins = [i \in DOMAIN OwnersPlugins |-> NewRecord(NoName, OwnersPlugins[i])]
      /\ local = [h \in Hosts |-> AsBuilt(h)] /\ tasks = [k \in Tasks |-> NoTask]
      /\ unread = [h \in Hosts |-> {}] /\ answered = [h \in Hosts |-> 0]
  BY DEF Init, Tasks
<1>2. NoTask \in Task /\ NoTask.step = "none" /\ NoTask.read = {}
  BY DEF NoTask, Task, Steps
<1>3. DOMAIN links = {} /\ links \in Seq(Link)
  BY <1>1
<1>4. local \in [Hosts -> Seq(Plugin)] /\ \A h \in Hosts : local[h] = AsBuilt(h)
  BY <1>1, AsBuiltIsPlugins
<1>5. tasks \in [Tasks -> Task] /\ \A k \in Tasks : tasks[k].step = "none" /\ tasks[k].read = {}
  BY <1>1, <1>2
<1>6. plugins \in Seq(PluginRow) /\ \A i \in DOMAIN plugins : Labelled(i)
  <2>1. OwnersPlugins \in Seq(Displays)
    BY DisplayAssumption
  <2>2. DOMAIN OwnersPlugins = 1 .. Len(OwnersPlugins) /\ Len(OwnersPlugins) \in Nat
    BY <2>1
  <2>3. \A d \in Displays : NewRecord(NoName, d) \in PluginRow
                            /\ LabelOf(NewRecord(NoName, d)) \in NewRecord(NoName, d).was
    BY DEF NewRecord, PluginRow, PluginNames, Label, LabelOf
  <2>4. \A i \in DOMAIN OwnersPlugins : OwnersPlugins[i] \in Displays
    BY <2>1
  <2>5. plugins \in [1 .. Len(OwnersPlugins) -> PluginRow]
    BY <1>1, <2>2, <2>3, <2>4
  <2>6. \A i \in DOMAIN plugins : LabelOf(plugins[i]) \in plugins[i].was
    BY <1>1, <2>3, <2>4
  <2>7. QED
    BY <2>2, <2>5, <2>6 DEF Labelled
<1>7. Types
  BY <1>1, <1>3, <1>4, <1>5, <1>6 DEF Types
<1>8. LocalInv /\ IdsAreTrue
  BY <1>4, AsBuiltIsPlugins DEF LocalInv, IdsAreTrue
<1>9. RowInv
  BY <1>1, <1>5, <1>6 DEF RowInv
<1>10. \A h : Linked(h) = {}
  <2>1. \A g, n : n \in Linked(g) <=> n \notin deleted /\ \E l \in DOMAIN links : links[l].host = g /\ links[l].id = n
    BY LinkedMember DEF Linked
  <2>2. QED
    BY <1>3, <2>1
<1>11. TaskInv /\ OneInv /\ CoverInv /\ FunctionInv
  BY <1>5 DEF TaskInv, OneInv, CoverInv, FunctionInv, Live, Synced
<1>12. RepeatInv /\ CompleteInv
  BY <1>5, <1>10 DEF RepeatInv, CompleteInv, Duplicated, Synced
<1>13. QED
  BY <1>7, <1>8, <1>9, <1>11, <1>12 DEF IInv, HostInv, HandlerInv

LEMMA NextKeeps == IInv /\ [Next]_vars => IInv'
<1> SUFFICES ASSUME IInv, [Next]_vars PROVE IInv'
  OBVIOUS
<1>1. ASSUME NEW k \in Tasks, TaskStep(k) \/ Fails(k)
      PROVE  IInv'
  BY <1>1, SyncKeeps, CreatePluginKeeps, CreateHostPluginKeeps, CreateFunctionKeeps, EndPluginKeeps,
     CreateParametersKeeps, ListPluginsKeeps, HostWelcomeKeeps, FailsKeeps DEF TaskStep
<1>2. ASSUME NEW h \in Hosts, NEW i \in Ids, AddPluginToHost(h, i) \/ RemovePluginFromHost(h, i)
      PROVE  IInv'
  BY <1>2, AddPluginKeeps, RemovePluginKeeps
<1>3. ASSUME NEW i \in Ids, DeletePlugin(i) \/ \E display \in Displays : UpdatePlugin(i, display)
      PROVE  IInv'
  BY <1>3, DeletePluginKeeps, UpdatePluginKeeps
<1>4. ASSUME NEW h \in Hosts, HostConnect(h) \/ ReconcilePlugin(h) \/ BreaksOff(h)
      PROVE  IInv'
  BY <1>4, HostConnectKeeps, ReconcilePluginKeeps, BreaksOffKeeps
<1>5. CASE UNCHANGED vars
  <2>1. UNCHANGED <<plugins, deleted, links, local, unread, tasks, answered, faults, edits, overlapped>>
    BY <1>5 DEF vars, tables, counters, host
  <2>2. QED
    BY <2>1 DEF IInv, Types, HostInv, LocalInv, IdsAreTrue, Ids, RowInv, Labelled, Known, HandlerInv,
                TaskInv, OneInv, CoverInv, RepeatInv, FunctionInv, CompleteInv, Repeatable, Duplicated,
                Calm, Live, Owns, Filling, Synced, Pending, Current, NamesOf, NamesRead, Linked
<1>6. QED
  BY <1>1, <1>2, <1>3, <1>4, <1>5 DEF Next, Tasks

\* The invariant of the synchronisation holds in every reachable state.
THEOREM SyncSafe == Spec => []IInv
<1>1. QED
  BY InvInit, NextKeeps, PTL DEF Spec

\* A synchronisation can be repeated after any failure: until the owner edits plugins, it
\* never leaves two records of one name on a host whose messages are handled one after
\* the other.
THEOREM SyncIsRepeatable == Spec => []RepeatableSync
<1>1. IInv => RepeatableSync
  BY DEF IInv, HandlerInv, RepeatInv, Repeatable, RepeatableSync
<1>2. QED
  BY <1>1, SyncSafe, PTL

\* The id a host keeps for a plugin is that of a record which has or had its unique
\* name or its display name, whatever overlapped, failed, broke off or was edited.
THEOREM HostsKnowTrueIds == Spec => []IdsAreTrue
<1>1. IInv => IdsAreTrue
  BY DEF IInv, HostInv
<1>2. QED
  BY <1>1, SyncSafe, PTL

\* Until the owner edits plugins, a welcome lists every plugin its host sent, even when
\* handlers overlap, and with all functions unless something failed or ran beside it.
THEOREM WelcomesAreTrue == Spec => []WelcomeIsTrue
<1>1. IInv => WelcomeListsWhatWasSent
  <2>1. SUFFICES ASSUME IInv, edits = 0, NEW k \in Tasks, tasks[k].step = "welcome",
                        NEW e \in ToSet(tasks[k].sent)
                 PROVE  e.name \in NamesRead(k)
    BY DEF WelcomeListsWhatWasSent, NamesRead, Tasks
  <2>2. PICK i \in DOMAIN tasks[k].sent : e = tasks[k].sent[i]
    BY <2>1 DEF ToSet
  <2>3. QED
    BY <2>1, <2>2 DEF IInv, HandlerInv, CoverInv
<1>2. IInv => WelcomeIsComplete
  BY DEF IInv, HandlerInv, CompleteInv, Calm, WelcomeIsComplete, Tasks
<1>3. QED
  BY <1>1, <1>2, SyncSafe, PTL DEF WelcomeIsTrue

-----------------------------------------------------------------------------
(* The types.                                                              *)

\* Every id refers to a record, and a handler that has ended leaves nothing.
Refers(n) == n = 0 \/ n \in DOMAIN plugins
ReferInv ==
    /\ \A k \in Tasks : ~Live(k) => tasks[k] = NoTask
    /\ \A k \in Tasks : Refers(tasks[k].id) /\ \A i \in DOMAIN tasks[k].sent : Refers(tasks[k].sent[i].id)
    /\ connects \in [Hosts -> Nat]
    /\ overlapped \subseteq Hosts

\* In the beginning nobody refers to anything.
LEMMA ReferInit == Init => ReferInv
<1> SUFFICES ASSUME Init PROVE ReferInv
  OBVIOUS
<1>1. \A k \in Tasks : tasks[k] = NoTask
  BY DEF Init, Tasks
<1>2. NoTask.id = 0 /\ NoTask.sent = <<>>
  BY DEF NoTask
<1>3. \A k \in Tasks : Refers(tasks[k].id) /\ \A i \in DOMAIN tasks[k].sent : Refers(tasks[k].sent[i].id)
  BY <1>1, <1>2 DEF Refers
<1>4. QED
  BY <1>1, <1>3 DEF Init, ReferInv

\* The rows of records stay, also of those that are deleted, so that what refers to one goes on to do so.
LEMMA RecordsStay ==
    ASSUME IInv, IInv', [Next]_vars
    PROVE  DOMAIN plugins \subseteq DOMAIN plugins'
<1>1. plugins \in Seq(PluginRow)
  BY DEF IInv, Types
<1>2. ASSUME NEW k \in Tasks, CreatePlugin(k)
      PROVE  DOMAIN plugins \subseteq DOMAIN plugins'
  <2>1. plugins' = plugins \/ \E x : plugins' = Append(plugins, x)
    BY <1>2 DEF CreatePlugin
  <2>2. QED
    BY <1>1, <2>1
<1>3. ASSUME NEW k \in Tasks, CreateFunction(k) \/ CreateParameters(k)
      PROVE  DOMAIN plugins \subseteq DOMAIN plugins'
  BY <1>1, <1>3 DEF CreateFunction, CreateParameters
<1>4. ASSUME NEW i, NEW display, UpdatePlugin(i, display)
      PROVE  DOMAIN plugins \subseteq DOMAIN plugins'
  BY <1>1, <1>4 DEF UpdatePlugin
<1>5. QED
  BY <1>2, <1>3, <1>4 DEF Next, TaskStep, Sync, CreateHostPlugin, EndPlugin, ListPlugins, HostWelcome, Fails,
                    HostConnect, ReconcilePlugin, BreaksOff, AddPluginToHost, RemovePluginFromHost,
                    DeletePlugin, vars, tables, Tasks

\* A handler goes on or ends.
LEMMA TaskRefers ==
    ASSUME ReferInv, DOMAIN plugins \subseteq DOMAIN plugins', NEW k \in Tasks,
           \A j \in Tasks : j # k => tasks'[j] = tasks[j],
           \/ tasks'[k] = NoTask
           \/ tasks'[k].step # "none" /\ tasks'[k].id \in {0, tasks[k].id} \cup DOMAIN plugins'
              /\ tasks'[k].sent = tasks[k].sent,
           UNCHANGED <<connects, overlapped>>
    PROVE  ReferInv'
<1>1. NoTask.id = 0 /\ NoTask.sent = <<>>
  BY DEF NoTask
<1>2. \A j \in Tasks : tasks'[j].step = "none" => tasks'[j] = NoTask
  BY DEF Live, ReferInv
<1>3. ASSUME NEW j \in Tasks PROVE tasks'[j].id = 0 \/ tasks'[j].id \in DOMAIN plugins'
  BY <1>1 DEF ReferInv, Refers
<1>4. ASSUME NEW j \in Tasks, NEW i \in DOMAIN tasks'[j].sent
      PROVE  tasks'[j].sent[i].id = 0 \/ tasks'[j].sent[i].id \in DOMAIN plugins'
  <2>1. tasks'[j].sent = tasks[j].sent
    <3>1. j = k /\ tasks'[k] = NoTask => tasks'[j].sent = <<>>
      BY <1>1
    <3>2. QED
      BY <1>4, <3>1
  <2>2. tasks[j].sent[i].id = 0 \/ tasks[j].sent[i].id \in DOMAIN plugins
    BY <1>4, <2>1 DEF ReferInv, Refers
  <2>3. QED
    BY <2>1, <2>2
<1>5. QED
  BY <1>2, <1>3, <1>4 DEF ReferInv, Refers, Live

\* What each step of a handler takes a record for is one.
LEMMA StepRefers ==
    ASSUME IInv, IInv', ReferInv, NEW k \in Tasks, TaskStep(k) \/ Fails(k)
    PROVE  ReferInv'
<1>1. DOMAIN plugins \subseteq DOMAIN plugins'
  BY RecordsStay DEF Next, Tasks
<1>2. tasks \in [Tasks -> Task] /\ tasks[k] \in Task
  BY DEF IInv, Types, ReferInv
<1>3. UNCHANGED <<connects, overlapped>>
  BY DEF TaskStep, Sync, CreatePlugin, CreateHostPlugin, CreateFunction, EndPlugin, CreateParameters, ListPlugins,
         HostWelcome, Fails, counters
<1>5. ASSUME Dies(k) PROVE ReferInv'
  BY <1>1, <1>2, <1>3, <1>5, TaskRefers DEF Dies
<1> DEFINE Stays(t) == t.step # "none" /\ t.id \in {0, tasks[k].id} \cup DOMAIN plugins' /\ t.sent = tasks[k].sent
<1>6. ASSUME NEW t, Stays(t), tasks' = [tasks EXCEPT ![k] = t] PROVE ReferInv'
  <2>1. tasks'[k] = t /\ \A j \in Tasks : j # k => tasks'[j] = tasks[j]
    BY <1>2, <1>6
  <2>2. QED
    BY <1>1, <1>3, <1>6, <2>1, TaskRefers
<1>7. \A todo : NextPlugin(todo) # "none"
  BY DEF NextPlugin
<1>8. CASE Sync(k)
  <2>1. CASE Dies(k)
    BY <1>5, <2>1
  <2>2. CASE \E todo : tasks' = [tasks EXCEPT ![k].todo = todo, ![k].step = NextPlugin(todo)]
    <3>1. PICK todo : tasks' = [tasks EXCEPT ![k].todo = todo, ![k].step = NextPlugin(todo)]
      BY <2>2
    <3> DEFINE t == [tasks[k] EXCEPT !.todo = todo, !.step = NextPlugin(todo)]
    <3>2. Stays(t) /\ tasks' = [tasks EXCEPT ![k] = t]
      BY <1>2, <1>7, <3>1 DEF Task
    <3>3. QED
      BY <1>6, <3>2
  <2>3. QED
    BY <1>8, <2>1, <2>2 DEF Sync
<1>9. CASE CreatePlugin(k)
  <2>1. CASE Dies(k)
    BY <1>5, <2>1
  <2>2. CASE ~Dies(k)
    <3> DEFINE t == [tasks[k] EXCEPT !.step = "link", !.id = Len(plugins')]
    <3>1. /\ plugins' = Append(plugins, NewRecord(Current(k).name, Current(k).display))
          /\ tasks' = [tasks EXCEPT ![k].step = "link", ![k].id = Len(plugins')]
      BY <1>9, <2>2 DEF CreatePlugin
    <3>2. Len(plugins') \in DOMAIN plugins'
      BY <3>1 DEF IInv, Types
    <3>3. Stays(t) /\ tasks' = [tasks EXCEPT ![k] = t]
      BY <1>2, <3>1, <3>2 DEF Task
    <3>4. QED
      BY <1>6, <3>3
  <2>3. QED
    BY <2>1, <2>2
<1>10. CASE CreateHostPlugin(k)
  <2> DEFINE t == [tasks[k] EXCEPT !.step = "function", !.missing = Functions]
  <2>1. Dies(k) \/ (Stays(t) /\ tasks' = [tasks EXCEPT ![k] = t])
    BY <1>2, <1>10 DEF CreateHostPlugin, Task
  <2>2. QED
    BY <1>5, <1>6, <2>1
<1>11. CASE CreateFunction(k) \/ EndPlugin(k)
  <2>1. CASE EndPlugin(k)
    <3> DEFINE todo == tasks[k].todo \ {Min(tasks[k].todo)}
               t == [tasks[k] EXCEPT !.step = NextPlugin(todo), !.todo = todo, !.id = 0]
    <3>1. tasks' = [tasks EXCEPT ![k].step = NextPlugin(todo), ![k].todo = todo, ![k].id = 0]
      BY <2>1 DEF EndPlugin
    <3> HIDE DEF todo
    <3>2. Stays(t) /\ tasks' = [tasks EXCEPT ![k] = t]
      BY <1>2, <1>7, <3>1 DEF Task
    <3>3. QED
      BY <1>6, <3>2
  <2>2. CASE CreateFunction(k) /\ ~Dies(k)
    <3>1. PICK f \in tasks[k].missing :
            tasks' = [tasks EXCEPT ![k].step = "parameters", ![k].function = f, ![k].missing = @ \ {f}]
      BY <2>2 DEF CreateFunction
    <3> DEFINE t == [tasks[k] EXCEPT !.step = "parameters", !.function = f, !.missing = @ \ {f}]
    <3>2. Stays(t) /\ tasks' = [tasks EXCEPT ![k] = t]
      BY <1>2, <3>1 DEF Task
    <3>3. QED
      BY <1>6, <3>2
  <2>3. QED
    BY <1>5, <1>11, <2>1, <2>2
<1>12. CASE CreateParameters(k)
  <2> DEFINE t == [tasks[k] EXCEPT !.step = "function", !.function = ""]
  <2>1. Stays(t) /\ tasks' = [tasks EXCEPT ![k] = t]
    BY <1>2, <1>12 DEF CreateParameters, Task
  <2>2. QED
    BY <1>6, <2>1
<1>13. CASE ListPlugins(k)
  <2> DEFINE rows == {[id |-> i, name |-> plugins[i].name, display |-> plugins[i].display] :
                        i \in Linked(tasks[k].host)}
             t == [tasks[k] EXCEPT !.step = "welcome", !.read = rows]
  <2>1. Stays(t) /\ tasks' = [tasks EXCEPT ![k] = t]
    BY <1>2, <1>13 DEF ListPlugins, Task
  <2>2. QED
    BY <1>6, <2>1
<1>14. CASE HostWelcome(k) \/ Fails(k)
  BY <1>5, <1>14 DEF HostWelcome, Fails
<1>15. QED
  BY <1>8, <1>9, <1>10, <1>11, <1>12, <1>13, <1>14 DEF TaskStep

\* A host sends the plugins it has with their ids, or those it was built with.
LEMMA ConnectRefers ==
    ASSUME IInv, ReferInv, NEW h \in Hosts, HostConnect(h)
    PROVE  ReferInv'
<1>1. tasks \in [Tasks -> Task] /\ connects \in [Hosts -> Nat] /\ UNCHANGED plugins
  BY DEF IInv, Types, ReferInv, HostConnect, tables
<1>2. connects' \in [Hosts -> Nat]
  BY <1>1 DEF HostConnect
<1>3. overlapped' \subseteq Hosts
  BY DEF HostConnect, ReferInv
<1>4. PICK list \in {local[h], AsBuilt(h)}, k \in Tasks :
        tasks' = [tasks EXCEPT ![k] = [NoTask EXCEPT !.step = "sync", !.host = h, !.sent = list]]
  BY DEF HostConnect, Tasks
<1>5. \A i \in DOMAIN list : list[i].id = 0 \/ list[i].id \in DOMAIN plugins
  BY <1>4, AsBuiltIsPlugins DEF IInv, HostInv, IdsAreTrue, Ids
<1> DEFINE t == [NoTask EXCEPT !.step = "sync", !.host = h, !.sent = list]
<1>6. t.step = "sync" /\ t.id = 0 /\ t.sent = list
  BY DEF NoTask
<1>7. tasks' = [tasks EXCEPT ![k] = t]
  BY <1>4
<1> HIDE DEF t
<1>8. \A j \in Tasks : tasks'[j] = IF j = k THEN t ELSE tasks[j]
  BY <1>1, <1>7
<1>9. \A j \in Tasks : tasks'[j].step = "none" => tasks'[j] = NoTask
  BY <1>6, <1>8 DEF ReferInv, Live
<1>10. ASSUME NEW j \in Tasks
       PROVE  Refers(tasks'[j].id) /\ \A i \in DOMAIN tasks'[j].sent : Refers(tasks'[j].sent[i].id)
  BY <1>5, <1>6, <1>8 DEF ReferInv, Refers
<1>11. QED
  BY <1>1, <1>2, <1>3, <1>9, <1>10 DEF ReferInv, Refers, Live

\* Nothing that refers to a record loses it.
LEMMA NextRefers ==
    ASSUME IInv, IInv', ReferInv, [Next]_vars
    PROVE  ReferInv'
<1>1. ASSUME UNCHANGED <<tasks, connects, overlapped>>
      PROVE  ReferInv'
  <2>1. DOMAIN plugins \subseteq DOMAIN plugins'
    BY RecordsStay
  <2>2. QED
    BY <1>1, <2>1 DEF ReferInv, Refers, Live
<1>2. CASE UNCHANGED vars
  BY <1>1, <1>2 DEF vars, counters
<1>3. ASSUME NEW h \in Hosts, ReconcilePlugin(h) \/ BreaksOff(h)
      PROVE  ReferInv'
  BY <1>1, <1>3 DEF ReconcilePlugin, BreaksOff, counters
<1>4. ASSUME NEW h \in Hosts, NEW i \in Ids, AddPluginToHost(h, i) \/ RemovePluginFromHost(h, i)
      PROVE  ReferInv'
  BY <1>1, <1>4 DEF AddPluginToHost, RemovePluginFromHost, Edits
<1>5. ASSUME NEW i \in Ids, DeletePlugin(i) \/ \E display \in Displays : UpdatePlugin(i, display)
      PROVE  ReferInv'
  BY <1>1, <1>5 DEF DeletePlugin, UpdatePlugin, Edits
<1>6. QED
  BY <1>2, <1>3, <1>4, <1>5, StepRefers, ConnectRefers DEF Next, Tasks

\* The types follow: within the records, ids are their places.
LEMMA TypesFollow ==
    ASSUME IInv, ReferInv
    PROVE  TypeOK
<1>1. plugins \in Seq(PluginRow) /\ links \in Seq(Link) /\ local \in [Hosts -> Seq(Plugin)] /\ tasks \in [Tasks -> Task]
      /\ {faults, edits} \subseteq Nat
  BY DEF IInv, Types
<1>2. Ids = 1 .. Len(plugins) /\ Len(plugins) \in Nat
  BY <1>1 DEF Ids
<1>3. links \in Seq([host : Hosts, id : Ids])
  <2> DEFINE S == [host : Hosts, id : Ids]
  <2>1. \A l \in 1 .. Len(links) : links[l] \in Link /\ links[l].id \in Ids
    BY <1>1 DEF IInv, Types, Ids
  <2>2. \A l \in 1 .. Len(links) : links[l] \in S
    BY <2>1 DEF Link
  <2> HIDE DEF S
  <2>3. links \in Seq(S)
    BY <1>1, <2>2
  <2>4. QED
    BY <2>3 DEF S
<1>4. ASSUME NEW list \in Seq(Plugin), \A i \in DOMAIN list : list[i].id = 0 \/ list[i].id \in Ids
      PROVE  list \in Seq(Entry)
  <2>1. \A i \in 1 .. Len(list) : list[i] \in Plugin /\ list[i].id \in {0} \cup Ids
    BY <1>4
  <2>2. \A i \in 1 .. Len(list) : list[i] \in Entry
    BY <2>1 DEF Plugin, Entry
  <2>3. QED
    BY <1>4, <2>2
<1>5. ASSUME NEW h \in Hosts PROVE local[h] \in Seq(Entry)
  BY <1>1, <1>4 DEF IInv, HostInv, IdsAreTrue, Ids
<1>6. ASSUME NEW k \in 1 .. MaxTasks
      PROVE  /\ tasks[k].step \in Steps
             /\ tasks[k].host \in Hosts \cup {""}
             /\ tasks[k].sent \in Seq(Entry)
             /\ tasks[k].todo \subseteq DOMAIN tasks[k].sent
             /\ tasks[k].id \in 0 .. Len(plugins)
             /\ tasks[k].missing \subseteq Functions
             /\ tasks[k].function \in Functions \cup {""}
             /\ tasks[k].read \subseteq Row
  <2>1. k \in Tasks
    BY DEF Tasks
  <2>2. tasks[k] \in Task
    BY <1>1, <2>1
  <2>3. tasks[k].id \in 0 .. Len(plugins)
    BY <1>2, <2>1 DEF ReferInv, Refers, Ids
  <2>4. tasks[k].sent \in Seq(Plugin)
    BY <2>2 DEF Task
  <2>5. tasks[k].sent \in Seq(Entry)
    BY <1>4, <2>1, <2>4 DEF ReferInv, Refers, Ids
  <2>8. tasks[k].read \subseteq Row
    <3>1. \A r \in tasks[k].read : r \in ReadRow /\ r.id \in Ids
      BY <2>1, <2>2 DEF Task, IInv, HostInv, RowInv, Known, Ids
    <3>2. QED
      BY <3>1 DEF ReadRow, Row
  <2>6. tasks[k].todo \subseteq DOMAIN tasks[k].sent
    <3>1. CASE Live(k)
      BY <1>1, <2>1, <3>1 DEF IInv, HandlerInv, TaskInv
    <3>2. CASE ~Live(k)
      <4>1. tasks[k].todo = {}
        <5>1. tasks[k] = NoTask
          BY <2>1, <3>2 DEF ReferInv
        <5>2. NoTask.todo = {}
          BY DEF NoTask
        <5>3. QED
          BY <5>1, <5>2
      <4>2. QED
        BY <4>1
    <3>3. QED
      BY <3>1, <3>2
  <2>7. QED
    BY <2>2, <2>3, <2>5, <2>6, <2>8 DEF Task
<1>7. local \in [Hosts -> Seq(Entry)]
  BY <1>1, <1>5
<1>8. unread \in [Hosts -> SUBSET UnreadRow]
  <2>1. ASSUME NEW h \in Hosts PROVE unread[h] \subseteq UnreadRow
    <3>1. \A r \in unread[h] : r \in ToRead /\ r.id \in Ids
      BY DEF IInv, Types, HostInv, RowInv, Known, Ids
    <3>2. QED
      BY <3>1 DEF ToRead, UnreadRow
  <2>2. QED
    BY <2>1 DEF IInv, Types
<1>9. deleted \subseteq Ids /\ answered \in [Hosts -> Nat]
  BY DEF IInv, Types, Ids
<1>10. QED
  BY <1>1, <1>3, <1>6, <1>7, <1>8, <1>9 DEF TypeOK, PluginRow, ReferInv

\* Every variable keeps its type: what a link, a host or a handler refers to is a
\* record, whatever overlaps, fails or is edited.
THEOREM TypeCorrect == Spec => []TypeOK
<1>1. IInv /\ IInv' /\ ReferInv /\ [Next]_vars => ReferInv'
  BY NextRefers
<1>2. Spec => []ReferInv
  BY <1>1, ReferInit, SyncSafe, PTL DEF Spec
<1>3. IInv /\ ReferInv => TypeOK
  BY TypesFollow
<1>4. QED
  BY <1>2, <1>3, SyncSafe, PTL

=============================================================================
