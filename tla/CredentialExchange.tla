-------------------------- MODULE CredentialExchange --------------------------
(***************************************************************************)
(* How a plugin of an agent gets a credential.  AgienceCredentialService,  *)
(* one per Agent object and with a key pair of its own, asks the authority *)
(* by message and polls its cache until the answer has been filed there;   *)
(* the authority looks the credential up and encrypts it for the key in    *)
(* the request.  Meanwhile the owner edits credentials over HTTP, every    *)
(* edit reading first and writing later.                                   *)
(*                                                                         *)
(* One agent and one credential name: the cache, the messages and the      *)
(* queries of different agents and names never meet.  Tokens are numbered  *)
(* in the order of the edits that bring them.                              *)
(***************************************************************************)
EXTENDS Naturals, FiniteSets, SequencesExt

CONSTANTS
    Callers,      \* calls of GetCredential
    ServiceOf,    \* caller -> the service, that is the Agent object, it calls
    Connections,  \* the owner's connections of that name, oldest first
    Editors,      \* HTTP requests at one time
    MaxEdits,     \* bound: edits begun
    MaxFailures     \* bound: messages lost, handlers and edits failed

Services == {ServiceOf[c] : c \in Callers}

ASSUME CallersAssumption == ServiceOf \in [Callers -> Services]
ASSUME ConnectionsAssumption ==
    /\ Connections \in Seq(ToSet(Connections)) \ {<<>>}
    /\ IsInjective(Connections)
ASSUME ExchangeBoundsAssumption == {MaxEdits, MaxFailures} \subseteq Nat

VARIABLES
    rows,         \* the agent's credentials: [id, connection, token], by creation
    created,      \* how many were ever created
    editors,      \* editor -> the edit it is in
    edits,        \* edits begun
    callers,      \* caller -> the step of GetCredential it is at
    got,          \* caller -> the token it returned, 0 before
    wire,         \* caller -> its request, then the response to it
    cache,        \* service -> _credentials, 0 for an absent key
    failures,     \* messages lost, handlers and edits failed
    overlapped,   \* auxiliary: an edit began before another one had ended
    latest,       \* auxiliary: connection -> token of the last edit that ended
    floor,        \* auxiliary: service -> what it would get when it first asked
    unanswered    \* auxiliary: a request was dropped for lack of a credential

database == <<rows, created, editors, edits, overlapped, latest>>
exchange == <<callers, got, wire, cache, floor, unanswered>>
credentialVars == <<database, exchange, failures>>

NoToken == 0
Tokens == 0 .. MaxEdits
RowIds == 0 .. MaxEdits
NoEdit == [step |-> "idle", id |-> 0, connection |-> Connections[1], token |-> NoToken]
NoMessage == [at |-> "none", token |-> NoToken]

CredentialTypeOK ==
    /\ rows \in Seq([id : RowIds \ {0}, connection : ToSet(Connections), token : Tokens])
    /\ created \in RowIds
    /\ editors \in [Editors -> [step : {"idle", "create", "update", "byid"}, id : RowIds,
                                connection : ToSet(Connections), token : Tokens]]
    /\ edits \in Nat /\ failures \in Nat
    /\ callers \in [Callers -> {"idle", "check", "polling", "returned"}]
    /\ got \in [Callers -> Tokens]
    /\ wire \in [Callers -> [at : {"none", "request", "response"}, token : Tokens]]
    /\ {cache, floor} \subseteq [Services -> Tokens]
    /\ overlapped \in BOOLEAN /\ unanswered \in BOOLEAN
    /\ latest \in [ToSet(Connections) -> Tokens]

CredentialInit ==
    /\ rows = <<>> /\ created = 0 /\ edits = 0 /\ failures = 0
    /\ editors = [e \in Editors |-> NoEdit]
    /\ callers = [c \in Callers |-> "idle"]
    /\ got = [c \in Callers |-> NoToken]
    /\ wire = [c \in Callers |-> NoMessage]
    /\ cache = [s \in Services |-> NoToken]
    /\ floor = cache
    /\ overlapped = FALSE /\ unanswered = FALSE
    /\ latest = [n \in ToSet(Connections) |-> NoToken]

-----------------------------------------------------------------------------
(* The authority's query, and GetCredential with its messages.             *)

\* The first row of a connection, 0 when there is none.
FirstOf(n) == SelectInSeq(rows, LAMBDA r : r.connection = n)
TokenOf(n) == IF FirstOf(n) = 0 THEN NoToken ELSE rows[FirstOf(n)].token

\* Mutant: the most recent credential, of whatever connection of the name.
LookUpLast == IF rows = <<>> THEN NoToken ELSE Last(rows).token

\* GetCredentialForAgentByName: the loop over the connections of the name is
\* left in its first turn.
LookUp == TokenOf(Connections[1])

Call(c) ==
    /\ callers[c] = "idle"
    /\ callers' = [callers EXCEPT ![c] = "check"]
    /\ UNCHANGED <<database, got, wire, cache, floor, unanswered, failures>>

\* The cache first; otherwise one request is published.
CheckCache(c) ==
    /\ callers[c] = "check"
    /\ IF cache[ServiceOf[c]] # NoToken
       THEN /\ callers' = [callers EXCEPT ![c] = "returned"]
            /\ got' = [got EXCEPT ![c] = cache[ServiceOf[c]]]
            /\ UNCHANGED <<wire, floor>>
       ELSE /\ callers' = [callers EXCEPT ![c] = "polling"]
            /\ wire' = [wire EXCEPT ![c].at = "request"]
            /\ floor' = IF \E d \in Callers : /\ ServiceOf[d] = ServiceOf[c]
                                             /\ callers[d] \in {"polling", "returned"}
                        THEN floor ELSE [floor EXCEPT ![ServiceOf[c]] = LookUp]
            /\ UNCHANGED got
    /\ UNCHANGED <<database, cache, unanswered, failures>>

Poll(c) ==
    /\ callers[c] = "polling"
    /\ cache[ServiceOf[c]] # NoToken
    /\ callers' = [callers EXCEPT ![c] = "returned"]
    /\ got' = [got EXCEPT ![c] = cache[ServiceOf[c]]]
    /\ UNCHANGED <<database, wire, cache, floor, unanswered, failures>>

\* HandleCredentialRequestAsync: without a token there is no answer at all.
Answer(c) ==
    /\ wire[c].at = "request"
    /\ IF LookUp = NoToken
       THEN wire' = [wire EXCEPT ![c] = NoMessage] /\ unanswered' = TRUE
       ELSE wire' = [wire EXCEPT ![c] = [at |-> "response", token |-> LookUp]]
            /\ UNCHANGED unanswered
    /\ UNCHANGED <<database, callers, got, cache, floor, failures>>

\* Mutant: the handlers of the message run one after the other, and the first
\* that cannot decrypt it throws.
ReceiveInSequence(c) ==
    /\ wire[c].at = "response"
    /\ wire' = [wire EXCEPT ![c] = NoMessage]
    /\ cache' = IF ServiceOf[c] = CHOOSE s \in Services : TRUE
                THEN [cache EXCEPT ![ServiceOf[c]] = wire[c].token] ELSE cache
    /\ UNCHANGED <<database, callers, got, floor, unanswered, failures>>

\* AddEncryptedCredential, in every Agent object of that id: only the one
\* whose key the request carried can decrypt, in the others it throws.
Receive(c) ==
    /\ wire[c].at = "response"
    /\ wire' = [wire EXCEPT ![c] = NoMessage]
    /\ cache' = [cache EXCEPT ![ServiceOf[c]] = wire[c].token]
    /\ UNCHANGED <<database, callers, got, floor, unanswered, failures>>

\* Nobody is subscribed when the message comes, or its handler fails.
Lose(c) ==
    /\ wire[c].at # "none"
    /\ failures < MaxFailures
    /\ failures' = failures + 1
    /\ wire' = [wire EXCEPT ![c] = NoMessage]
    /\ UNCHANGED <<database, callers, got, cache, floor, unanswered>>

-----------------------------------------------------------------------------
(* Edits: AgentController and OAuthController.                             *)

Begin(e, edit) ==
    /\ editors[e].step = "idle"
    /\ edits < MaxEdits
    /\ edits' = edits + 1
    /\ editors' = [editors EXCEPT ![e] = edit]
    /\ overlapped' = (overlapped \/ \E f \in Editors : editors[f].step # "idle")
    /\ UNCHANGED <<rows, created, latest, exchange, failures>>

NewToken == edits + 1

\* Mutant: the upsert does not look for a row.
UpsertAlwaysCreates(e, n) ==
    Begin(e, [NoEdit EXCEPT !.step = "create", !.connection = n, !.token = NewToken])

\* UpsertCredentialForAgent without an id reads the row of the connection.  A
\* body without a token leaves the row the one that was read, a new row none.
Upsert(e, n) ==
    \E token \in {NewToken, TokenOf(n)} :
        Begin(e, [NoEdit EXCEPT !.step = IF FirstOf(n) = 0 THEN "create" ELSE "update",
                                !.id = IF FirstOf(n) = 0 THEN 0 ELSE rows[FirstOf(n)].id,
                                !.connection = n,
                                !.token = token])

\* With the id of a row and a connection that has none: the row is read.
UpsertById(e, i, n) ==
    /\ FirstOf(n) = 0
    /\ Begin(e, [NoEdit EXCEPT !.step = "byid", !.id = rows[i].id, !.connection = n,
                               !.token = NewToken])

\* HandleCallback has exchanged the code for a token and reads the row.
OAuthCallback(e, i) ==
    Begin(e, [NoEdit EXCEPT !.step = "update", !.id = rows[i].id,
                            !.connection = rows[i].connection, !.token = NewToken])

Ended(e) == editors' = [editors EXCEPT ![e] = NoEdit]

\* A row cannot be saved any more when it was deleted meanwhile.
Update(e) ==
    /\ editors[e].step = "update"
    /\ LET i == SelectInSeq(rows, LAMBDA r : r.id = editors[e].id) IN
       IF i = 0 THEN UNCHANGED <<rows, latest>>
       ELSE /\ rows' = [rows EXCEPT ![i].token = editors[e].token,
                                    ![i].connection = editors[e].connection]
            /\ latest' = [latest EXCEPT ![editors[e].connection] = editors[e].token]
    /\ Ended(e)
    /\ UNCHANGED <<created, edits, overlapped, exchange, failures>>

\* UpdateRecordAsync refuses a record whose CreatedDate is set, and on this
\* path nothing clears it.
UpdateById(e) ==
    /\ editors[e].step = "byid"
    /\ Ended(e)
    /\ UNCHANGED <<rows, created, edits, overlapped, latest, exchange, failures>>

\* Mutant: the new row takes the id of the request, and that is not its own.
CreateWithEditId(e) ==
    /\ editors[e].step = "create"
    /\ created' = created + 1
    /\ rows' = Append(rows, [id |-> editors[e].id, connection |-> editors[e].connection,
                             token |-> editors[e].token])
    /\ latest' = [latest EXCEPT ![editors[e].connection] = editors[e].token]
    /\ Ended(e)
    /\ UNCHANGED <<edits, overlapped, exchange, failures>>

Create(e) ==
    /\ editors[e].step = "create"
    /\ created' = created + 1
    /\ rows' = Append(rows, [id |-> created', connection |-> editors[e].connection,
                             token |-> editors[e].token])
    /\ latest' = [latest EXCEPT ![editors[e].connection] = editors[e].token]
    /\ Ended(e)
    /\ UNCHANGED <<edits, overlapped, exchange, failures>>

EditFails(e) ==
    /\ editors[e].step # "idle"
    /\ failures < MaxFailures
    /\ failures' = failures + 1
    /\ Ended(e)
    /\ UNCHANGED <<rows, created, edits, overlapped, latest, exchange>>

\* ClearCredentialById.
Clear(i) ==
    /\ edits < MaxEdits
    /\ edits' = edits + 1
    /\ rows' = RemoveAt(rows, i)
    /\ overlapped' = (overlapped \/ \E f \in Editors : editors[f].step # "idle")
    /\ latest' = [latest EXCEPT ![rows[i].connection] = NoToken]
    /\ UNCHANGED <<created, editors, exchange, failures>>

-----------------------------------------------------------------------------

CallerStep(c) == CheckCache(c) \/ Poll(c)
Message(c) == Answer(c) \/ Receive(c)
Edit(e) == Update(e) \/ UpdateById(e) \/ Create(e)

CredentialNext ==
    \/ \E c \in Callers : Call(c) \/ CallerStep(c) \/ Message(c) \/ Lose(c)
    \/ \E e \in Editors :
          \/ \E n \in ToSet(Connections) : Upsert(e, n)
          \/ \E i \in DOMAIN rows, n \in ToSet(Connections) : UpsertById(e, i, n)
          \/ \E i \in DOMAIN rows : OAuthCallback(e, i)
          \/ Edit(e) \/ EditFails(e)
    \/ \E i \in DOMAIN rows : Clear(i)

\* Whoever has been called goes on, and messages are delivered.
CredentialFairness ==
    \A c \in Callers :
        /\ WF_credentialVars(CallerStep(c))
        /\ WF_credentialVars(Message(c))

CredentialSpec == CredentialInit /\ [][CredentialNext]_credentialVars
FairCredentialSpec == CredentialSpec /\ CredentialFairness

-----------------------------------------------------------------------------
(* Properties.                                                             *)

\* While edits do not overlap, an agent has one credential per connection.
\* (Two rows would make GetCredentialsForAgent throw.)
OneRowPerConnection ==
    ~overlapped => \A i, j \in DOMAIN rows : rows[i].connection = rows[j].connection => i = j

\* While edits do not overlap, a request is answered with what the last edit
\* that ended left: in particular a token that was cleared never comes back.
AnswerIsLatest == ~overlapped => LookUp = latest[Connections[1]]

\* While edits do not overlap, what a call returns is not older than what the
\* authority had when the service FIRST asked, however requests, answers and
\* edits cross on their way.  (Only that: a later request of the same service may be
\* passed by the late answer to an earlier one, and its call returns a token that
\* was replaced before it asked; nor is a token that is in the cache looked up again.)
NotOlderThanAsked ==
    ~overlapped => \A c \in Callers : got[c] # NoToken => got[c] >= floor[ServiceOf[c]]

\* No call hangs, unless a message was lost or a request found no credential;
\* and even such a call returns once another one has filled the cache.
CallsReturn ==
    \A c \in Callers :
        []<>(\/ callers[c] \in {"idle", "returned"}
             \/ cache[ServiceOf[c]] = NoToken /\ (failures > 0 \/ unanswered))

\* While edits do not overlap, the authority answers with the last token saved, and no
\* answer that is late or out of order takes a call of a plugin back behind the FIRST
\* request of its service.
TokensAreFresh == AnswerIsLatest /\ NotOlderThanAsked

=============================================================================
