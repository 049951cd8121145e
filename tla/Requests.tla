------------------------------ MODULE Requests ------------------------------
(***************************************************************************)
(* The handlers of the management UI.  A handler is a task: it runs up to  *)
(* an await, where it has sent one or more requests, and goes on when they *)
(* are answered.  JavaScript runs one task at a time, but between two      *)
(* awaits of one task the server, the user and the other tasks move on.    *)
(* A task outlives the component that started it: then it is not live, and *)
(* what it sets is dropped, while what it still asks of the server is done.*)
(***************************************************************************)
EXTENDS Naturals, FiniteSets

CONSTANT MaxTasks       \* bound: handlers that run at the same time

ASSUME MaxTasksAssumption == MaxTasks \in Nat \ {0}

Slots == 1 .. MaxTasks

Idle == [at |-> "idle", arg |-> <<>>, sent |-> {}, got |-> <<>>, live |-> FALSE]

Task(at, arg, sent) == [at |-> at, arg |-> arg, sent |-> sent, got |-> <<>>, live |-> TRUE]

\* An axios request ends with data or throws, also for an answer that is not 2xx.
Ok(data) == [ok |-> TRUE, data |-> data]
Failure == [ok |-> FALSE]

Running(ts) == {k \in Slots : ts[k].at # "idle"}
Free(ts) == Slots \ Running(ts)
HasRoom(ts) == Free(ts) # {}

Begin(ts, task) == [ts EXCEPT ![CHOOSE k \in Free(ts) : \A j \in Free(ts) : k <= j] = task]
End(ts, k) == [ts EXCEPT ![k] = Idle]
Goto(ts, k, at, sent) == [ts EXCEPT ![k] = [@ EXCEPT !.at = at, !.sent = sent, !.got = <<>>]]
\* The function f with v at x.
With(f, x, v) == [y \in DOMAIN f \cup {x} |-> IF y = x THEN v ELSE f[y]]

Receive(ts, k, r, answer) == [ts EXCEPT ![k].sent = @ \ {r}, ![k].got = With(@, r, answer)]

\* Promise.all: it throws with the first failure, and ends when all are answered.
Threw(task) == \E r \in DOMAIN task.got : ~task.got[r].ok
Resolved(task) == task.sent = {} /\ ~Threw(task)

\* The data of the answer to a request.
Data(task, r) == task.got[r].data
=============================================================================
