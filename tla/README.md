# Agience: verification project

TLA+ models of the Agience core (`src/core`), TLC runs over small instances of
them, and TLAPS proofs. Paths below are relative to `src/core`; `sdk/` is
`sdk/dotnet/`, `identity/` is `authority/identity-api-dotnet/` and `ui/` is
`authority/manage-ui/src/`.

## The system

An **authority** is an identity server with a database, an MQTT broker and a
management UI. **Hosts** are programs built with the SDK; each runs **agents**
that the owner has placed on it. Authority, hosts and agents talk only through
the broker: a host announces itself (`host_connect`), the authority brings the
host's plugin records up to date and answers with the host's plugins and agents
(`host_welcome`), the host creates and connects the agents, and a plugin of an
agent may ask the authority for a credential (`credential_request`,
`credential_response`). The owner edits records over HTTP at the same time, with
the management UI: a React program of five pages. JavaScript runs one handler at
a time, but each awaits the server several times, and between two awaits of one
the user, the server and the other handlers move on.

| component | state | operations | hard because |
|---|---|---|---|
| topic scheme, `sdk/TopicGenerator.cs` | none | topics and filters | spelled a second time in the access masks |
| broker client, `sdk/Broker.cs` | link, server-side filters, `_callbacks`, NTP clock | Connect, Subscribe, Unsubscribe, Disconnect, dispatch, Publish | handlers are filed before the server answers, and nobody reads the answer; a new session forgets filters, not handlers; every message is a task nobody waits for |
| authority session, `identity/Services/AgienceAuthorityService.cs`, `sdk/Authority.cs` 117-146 | `IsConnected`, `BrokerUri`, timer | StartAsync, timer, StopAsync | three threads without a lock, `async void`, restart by the container |
| authority handlers, `sdk/Authority.cs` 148-264 | database | `host_connect`, `credential_request` | overlapping handlers, no transactions |
| host session, `sdk/Host.cs` | `IsConnected`, `_agents`, `Plugins` | StartAsync, Stop, `host_welcome`, `agent_connect`, `agent_disconnect` | retries, lost links, concurrent handlers |
| agents, `sdk/Agent.cs`, `sdk/AgentFactory.cs` | `IsConnected`, list of agents | CreateAgent, Connect, Disconnect, DisposeAgent | two objects of one id, failure in the middle of a welcome |
| plugin records, `identity/Data/Repositories/AuthorityRecordsRepository.cs` | plugins, host-plugin links, functions, parameters | SyncPluginsForHostById, edits of plugins | insert by insert, check then create; the host finds its plugins by unique name or display name |
| credentials, `sdk/Services/AgienceCredentialService.cs`, `AgentController`, `OAuthController` | rows, per-agent cache | GetCredential, upsert, OAuth callback, delete | lost and crossing messages, read then write |
| access control, `sdk/MessageAclChecker.cs` | none | CheckAccessControl | two grammars that must agree |
| OAuth state, `identity/Validators/StateValidator.cs`, `AgienceKeyMaterialService.cs` | key in memory | generate, validate | double-checked lock, restart, expiry |
| record access, `RecordsRepository`, `AgienceDataAdapter` | the tables | create, get, update, delete with ownership | what each refuses |
| history, `sdk/History.cs` | graph, locks | Add | two lock phases; no caller yet |
| requests of the UI, `ui/services/api` | none | one method per route; several requests in some | an axios call throws for every answer that is not 2xx |
| Agents page, `ui/pages/Agent.tsx`, `ui/components/agents` | URL, open tab, form, list of a panel | select, create, save, delete, connect and disconnect plugins and topics, Back | three loads write one form, and the last answer wins |
| Topics page, `ui/components/topics` | URL, tab, list, modal, cards | create, edit, delete, add to and remove from agents | a fetch selects by the id of the render that made it |
| Hosts page, `ui/components/hosts` | URL, table, modal, keys, plugins | create, edit, delete, generate and revoke keys, link and unlink plugins | the page and the table hold two lists; a secret is told once |
| Plugins page, `ui/components/plugins` | URL, list, details, modal, functions | the same for plugins and their functions | a PUT is answered without a body |
| Settings page, `ui/components/settings` | tab, list, form | the same for authorizers and connections | one tab decides whether there is another |
| Python SDK, `sdk/python` | as the C# SDK | a port in progress | differs in dispatch and awaiting |
| sign-in and presentation of the UI, login pages, hosts, plugins, containers | - | - | I/O, presentation and configuration |

What makes each correct: the session is never half made and comes back after
every fault; a message is handled once; flags that others trust are true; a
synchronisation can be repeated after any failure; what a host is told is true;
a credential is not older than it could be, and a call for one returns; the
masks grant what the SDK does and nothing in another's name; what a page shows
when nothing runs any more is what the server holds, no spinner is left over it,
an update never gives one record the text of another, and what is begun once is
created once. The code does not reach all of it; where it falls short, the
property says for which runs it holds, and "What the properties say" below what
happens in the others.
`PROJECT.json`
lists the hazards, each at its line, with the properties that look for it.

## Modules

| module | models | state and actions against the code |
|---|---|---|
| `Topics` | `TopicGenerator` | a topic is the sequence of its segments; one operator per method |
| `BrokerClient` | one `Broker` object | a record `[link, filters, callbacks]`; each operator is the part of a method between two awaits, so the users compose their actions of them; `refused` is what the server refused, which the code does not know |
| `AuthoritySession` | service and `Authority` | `pc[t]` is the place in the method at which thread `t` awaits; `Reset` is the memory of a new process; an exception that escapes is `Throws`; the process ends some time after `StopAsync` (`ProcessExits`) |
| `HostSession` | `Host`, `Agent`, `AgentFactory` | `main` is StartAsync, `stop` is Stop, `tasks[k]` a running message handler; the authority is the environment (`HostWelcome`, `AgentConnect`, `AgentDisconnect`) |
| `PluginSync` | the handling of `host_connect` and of its welcome | one action per committed insert; the host goes through the records of a welcome one by one (`ReconcilePlugin`), those of two welcomes side by side |
| `CredentialExchange` | `GetCredential`, its messages, the edits | every edit is a read (`Upsert`, `OAuthCallback`) and a later write (`Update`, `Create`) |
| `TopicAcl` | `MessageAclChecker`, its controller, the claims | a single step: the request and its answer |
| `Subscription` | what any served topic promises, without threads | abstract: linked, subscription answered, handlers, announced, closing; `AuthoritySession` implements it |
| `Requests` | handlers of the UI and their requests | a task is a place in a handler, what it was called with, the requests it awaits and their answers |
| `AgentPage`, `TopicPage`, `HostPage`, `PluginPage`, `SettingsPage` | one page each, with its tabs, services and the rows the server keeps for it | see below |

`MC*` modules only give constants their values. The theorems about a module `M` and
their proofs are in `MProofs`: `HostSessionProofs`, `PluginSyncProofs` and one for each of
the five pages; what is proved of the authority (its session, what it grants to clients of
the broker and the credentials it hands out) is in one module, `AuthorityProofs`, which is
about `AuthoritySession`, `TopicAcl` and `CredentialExchange`. These three share no state;
their specifications have different names so that one module can extend them all.
Definitions that begin with the comment
`Mutant:` are not used by any specification: each is the definition after it
with a plausible bug, and is there to show that a property would notice.

Abstractions worth knowing:

* Ids and names are model values; payloads, logging and formats are left out.
  A topic keeps its segments, because matching, the key of callbacks and the
  masks depend on them.
* A callback dictionary changes in one step. The C# `Dictionary` is not safe
  for concurrent use; what its races may do is not modelled.
* `Authority.InitializeWithBackoff` either is still trying or has succeeded.
* In `HostSession`, `Disabled`, `Broken` and `TopicOf` are what the records
  say of an agent; `agent_connect` and `agent_disconnect` have no sender in the
  repository today (their methods in `Authority` have no caller), so they are
  enabled only in the run that is about them.
* `CredentialExchange` has one agent and one credential name, as different
  ones share nothing. Encryption is modelled by who can decrypt: only the
  service whose key was in the request.
* In `PluginSync` a plugin has a unique name, which those made in the UI lack, and
  a name it is displayed with. The host looks for the first and, when it has no
  plugin of it, for the second (`sdk/Host.cs` 329-330, `Places`). A record keeps
  in `was` the names it has had. The rows of a deleted plugin go with it, so it
  is enough to remember which were `deleted`. The ids of functions, which the host
  takes over in the same way, are left out.
* A subscription is granted or refused by the server, and `Subscribe` goes on the
  same (`sdk/Broker.cs` 169). In `HostSession` a refusal may always happen and is no
  fault: every token a host gets today is refused (see `SdkNeedsTheId`). In
  `AuthoritySession`, whose own token is granted its topic, a refusal is one of the
  counted faults: the broker refuses too when its question to the authority fails.
* In `TopicAcl` the claim `authority_id` is a sequence of segments, since a
  mask made of it is split at slashes: one segment, the id that topics carry, in
  the authority's token, a URI in a host's (`AgienceHostStore.cs` 73). Both are
  tried for hosts.
* `Subscription` has no faults or threads of its own: `Unlink` and `Abandon` may
  always happen. `AuthoritySession` maps its link, whether the server has answered,
  the number of handlers filed for a broadcast of the authority and its flag to it,
  and `closing` to a `StopAsync` that has begun.
* Auxiliary variables (`overlapped`, `latest`, `floor`, `unanswered`, and the
  counters) never guard a modelled action except as a named bound.

### The pages of the UI

All pages are built the same way.

* A click, a step in the browser's history or a change of a form is an action.
  It does everything the handler does up to its first await, and what React does
  after it: `Render` (in `AgentPage` split by tab) compares the old state with
  the new one and starts the effects whose dependencies changed, so an effect is
  never a step the model may leave out. `setState` calls of one handler are one
  step, as React batches them.
* A handler that awaits is a task. `tasks[k].arg` is what its closure keeps of
  the render that made it: this is what makes a stale `selectedId` visible. When
  the component that started a task is unmounted, the task stays but is not
  `live`: it still sends its requests, and what it sets is dropped.
* `Serve` is the server's answer to one request, at any time and in any order. What it
  accepts follows the controllers and the keys of the tables: e.g. a topic that
  an agent has is not deleted, a link that is there is not added again for
  agents but is for hosts. `Fail` answers with an error at any time.
* A form holds `Blank` (empty), the id of the record it was filled from, or
  `Typed`. One value of each kind is enough to say into which record the text of
  another was written; two texts the user typed are not told apart.
* Auxiliary variables: `hasty` says that the user acted while a handler ran that
  the page lets be overtaken (`ClickDuring` names them for each click),
  `failed` that a request failed or was refused, `left` that the user left the
  tab of keys, `seen` which secrets came to the screen, `drafts`, `forms` and
  `due` how many records the user meant to create. None guards an action.

The properties say for which of these they hold. `ShownIsTrue` does not excuse a
hasty user wherever the code does not need it; `SavesAreMeant` needs it where
nothing disables a button.

## Runs

Bounds are named in each module as `Max...`. They count faults, starts, stops,
events, edits, connects, concurrent tasks and created objects.

| run | question | bounds, and why they are enough |
|---|---|---|
| `AuthoritySession` | is the session ever half made or doubled; does it come back; is it a `Subscription` | 3 faults: one to lose the link or have a subscription refused, one while reconnecting, one after the restart. Refreshes, stops and deployments are not bounded |
| `HostSession` | what do `IsConnected` and the filed handlers mean across start, stop, start; does a host connect, do its agents arrive | 2 agents (a welcome with a rest), 2 starts, 1 stop, 1 fault, 2 tasks (overlap), 3 Agent objects; refusals are not bounded |
| `HostEvents` | who hears messages after connects and disconnects | 3 events: connect, connect again, disconnect; one agent that cannot be built; 2 starts, 1 stop, 1 fault, so that handlers of one session are met by the next |
| `PluginSync` | what do overlapping, failing handlers leave in the tables; whose ids do hosts keep; is each `host_connect` answered | a host with two plugins and one with none, and a plugin of the owner displayed like one of them; 2 connects and 2 tasks at a time (they overlap or follow one another), 1 fault, 1 edit. A third `host_connect`, which would meet the duplicates of two that overlapped, is covered by the proofs only |
| `CredentialExchange` | what may a call return, and does it | 3 calls on 2 Agent objects of one id, 2 connections of one name, 2 editors, 2 edits, with and without a token in the body, 2 faults |
| `TopicAcl` | do masks and topics agree, are senders and hosts apart | every topic of 5 segments over 8 segment values, and misshapen ones; 2 hosts, 2 agents, for hosts the claim they get and the one the masks are written for |
| `AgentPage` | does the page show what the server holds, are names mixed up by updates, is an agent created once | 2 agents and 2 to create, 1 item, 4 events (select, change, save, select), 3 tasks |
| `TopicPage` | the same, and do the spinners of list and cards always end | 2 topics and 1 to create, 1 agent, 4 events, 3 tasks |
| `HostPage` | the same, and does the secret of every key come to the screen | 2 hosts and 1 to create, 2 keys, 1 plugin, 5 events, 2 tasks |
| `PluginPage` | the same for plugins and functions | 2 plugins and 2 to create, 2 functions, 5 events, 3 tasks |
| `SettingsPage` | the same, and is the tab of connections opened when it may be | no authorizer or 2, 1 connection, one more of each, 7 events, 4 tasks (effects of the page and of a tab begin together) |
| `PluginDelete` | is a function that was deleted gone | 3 events; ends in a counterexample, see below |

An event of a page is a click, a step back or a failed request; answers of the
server are not counted. Four let one handler overlap another that began from
another record, after a failure or a change of tab. `HostPage` and `PluginPage`
need five: to open a form, type, save, close it or ask to delete, and confirm, which
brings two writes and their fetches together. `SettingsPage` needs seven to
create, save, select and save again.

Deadlock is checked for `AuthoritySession`, which never stops. The other
systems do stop: a host that is connected with no message on its way, handlers
that have all finished, bounds that are used up, a request that is answered, a
page whose user does nothing more.

`PluginDelete` is a disagreement between a test and the code, listed under
`findings` in `PROJECT.json`: deleting a function first removes it from its
plugin and then asks the server to delete it, which the server refuses for a
function that is in no plugin of the caller. The comment there says "Function
gets deleted however shows a 404 error"; the row stays.

More places where a comment and the code differ, or an operation cannot do what
it is for. The models have the code's behaviour; no run is about them, as each is
seen at once when the line is read.

| source | what happens |
|---|---|
| `sdk/Agent.cs:65` | a disabled agent should not connect; the flag never reaches the object |
| `sdk/Agent.cs:71` | the agent's topics should be subscribed; they never reach the object |
| `identity/Data/Repositories/AuthorityRecordsRepository.cs:128` | "Plugin exists; update it": a plugin left without functions by a failure stays so |
| `identity/Controllers/Manage/AgentController.cs:335` | the update by id is refused by the adapter every time |
| `sdk/Agent.cs:103` | Stop disconnects the objects that are connected; one whose `Connect` lost the link half way has filed its handler and stays, so after the next start a disposed object may hear messages |
| `sdk/MessageAclChecker.cs:92` | a host may write to the authority; but the URI `AgienceHostStore.cs:73` puts into the claim `authority_id` makes masks that match nothing the SDK does, and everything a host asks for is refused (`SdkNeedsTheId`) |
| `sdk/Broker.cs:169` | the refusal is not noticed: host and authority say that they are connected |
| `ui/components/agents/AgentDetailsTab.tsx:77` | details of an agent that arrive when New Agent has been clicked fill the new form: an agent is created with the name of another |
| `ui/components/agents/AgentDetailsTab.tsx:253` | the agent that is selected is deleted, not the one the dialog named |
| `ui/components/topics/TopicDetails.tsx:107` | a second click on Create creates the topic twice |
| `ui/components/topics/TopicDetails.tsx:110` | the text goes to the topic selected when Save is clicked, which need not be the one the form was opened for |
| `ui/components/hosts/HostTable.tsx:34` | "Switch to the Keys tab" looks for a `data-tab` that no button has |
| `ui/components/hosts/HostDetailsTab.tsx:107` | a save that failed closes the modal as if it had not |
| `ui/components/hosts/HostModal.tsx:175` | Cancel is free while a host is saved, and so is the deletion of another: two fetches of the table cross, and the older answer may be the last |
| `ui/components/plugins/PluginDetailsTab.tsx:67` | the details, the refresh after a save and the list share one spinner, which the first to end stops: a plugin that is deleted meanwhile comes back with the late answer |
| `ui/components/plugins/PluginDetailsTab.tsx:178` | the details vanish after an update: the answer to a PUT has no body, though `pluginService` says it returns the plugin |
| `ui/components/plugins/PluginDetailsTab.tsx:216` | a deletion that is answered while another plugin is edited deselects it and leaves its form open: Save creates a plugin with the text of the other |
| `ui/components/settings/AuthorizerForm.tsx:31` | with no authorizer the form keeps what it holds: Edit, New Authorizer, Save creates one with the text of the other |
| `ui/components/plugins/PluginFunctionsTab.tsx:171` | an edit of a function is always refused |

What the properties say of the code, beyond that they hold:

* `KeepsServing` depends on the crash of the timer's `async void` handler. When
  the link is lost, `Authority.Disconnect` throws before it clears the flag;
  only the end of the process, and the container's restart, clear it. Catching
  the exception there (the mutant `ThrowsCaught`) makes the authority deaf.
* `HandledOnce` is tight: each failed attempt of a host after `Subscribe` leaves
  one handler more, and every later message is then handled twice.
* `FlagMeansStanding` and `HostFlagMeansStanding` stop at what the client could
  see: link, handler, and that the server has answered. Whether it granted the
  subscription nobody looks. An authority that was refused serves again with its
  next refresh (`KeepsServing`); a host is deaf until it is stopped and started.
* `KeepsPromise` lets a process on its way out take back what another of its
  threads has announced: when `StopAsync` and a refresh have both disconnected, the
  refresh may link again and set the flag before `StopAsync` clears it.
* `AgentsArrive` is about runs without a fault or a stop, whose agents can all be
  built and whose subscription was granted. A `host_connect` that is lost is not
  repeated, and the loop of a welcome ends with the first agent that fails.
* `Answered` has exceptions that are real: two overlapping `host_connect` of one
  host can leave two records of one name, after which `ToDictionary` throws for
  that host until somebody removes one. No property forbids the two records.
* `IdsAreTrue` does not say that a host knows the ids of its own records: a plugin
  of the owner that is displayed with the same name may take the place of the
  host's, and so may another plugin of that name. It says that nothing else does.
* `TokensAreFresh` bounds a token from below by what the authority had when the
  service first asked. The late answer to an early request may still overwrite
  the one to a later request in the cache, so that a call returns a token that had
  been replaced before the call asked.
* `RepeatableSync`, `OneRowPerConnection`, `TokensAreFresh` and `RightAgentsHear`
  hold while the handlers or edits concerned do not overlap (`overlapped`); with
  overlap the code does not promise them. `RightAgentsHear` also excludes a stop
  after a fault, which leaves handlers of objects that were never connected, and
  tolerates that an object replaced in the dictionary still hears.
* `SdkNeedsTheId` has two halves. What the SDK does is granted to a token whose
  `authority_id` is the id topics carry, so masks and topics agree; and it is refused,
  all of it, to a token with a URI there, which is what every host gets.
* `SavesAreMeant` of the Agents, Plugins and Settings pages is about updates of records
  that were there at first, and about how many records are created. It says nothing of
  the text a record is created with: three lines of the table above are ways to create
  one with the text of another, and the models reach all three. On the Hosts page it
  covers created hosts too.
* `ShownIsTrue` of a page speaks of the moment when no handler runs. In between a
  page may show an older answer.
* `SecretsAreSeen` depends on the handler not comparing the host it generated the
  key for with the host that is selected by then: a check that looks like a
  repair of a race (the mutant `SubmitIfSameHost`) would lose the secret for good.
* `SavesAreMeant` of `AgentPage` depends on `handleSave` using the id of the form
  and not of the URL, which move at different times (the mutant `SaveByUrl`).

### Fairness

Weak fairness of each thread and each running handler: the runtime schedules a
task that can go on. The timer fires again and again, as it is auto-reset. The
container restarts a crashed process (`restart: on-failure`, `docker-compose.yml`
line 68). In `HostSession` the authority answers a `host_connect`, and in
`CredentialExchange` messages are delivered, unless one of the counted faults
takes them. Nobody is obliged to start, stop, edit, deploy or fail anything; a
host's first `StartAsync` is fair because a host program begins with it.

In `TopicPage` every request is answered in the end, by the server or with an
error (a browser gives up a request of its own accord), and a handler whose
requests are answered goes on. The user is obliged to nothing: `SpinnersEnd` holds of
somebody who never clicks again. The other pages state the same as a safety
property: nothing runs, so no spinner turns.

## Proofs

Each theorem holds for every value of its module's constants that meets the
named assumptions; the runs check the same properties on one instance.

| module | theorem | statement |
|---|---|---|
| `AuthorityProofs` | `SessionSafe` | `Spec => []SessionInv` |
| | `TypeCorrect` | `Spec => []TypeOK` |
| | `HandlerOnce` | `Spec => []AtMostOneHandler` |
| | `FlagIsTrustworthy` | `Spec => []FlagMeansStanding` |
| | `SessionComplete` | `Spec => []NoHalfSession` |
| | `SessionKeepsPromise` | `Spec => KeepsPromise`: it implements `Subscription` |
| | `NobodyIsGrantedToPose` | `AclSpec => []NobodyPoses` |
| | `WhatTheSdkDoesNeedsTheId` | `AclSpec => []SdkNeedsTheId` |
| | `OneRowEach` | `CredentialSpec => []OneRowPerConnection` |
| | `CallsGetFreshTokens` | `CredentialSpec => []TokensAreFresh` |
| | `CredentialTypeCorrect` | `CredentialSpec => []CredentialTypeOK` |
| `HostSessionProofs` | `TypeCorrect` | `Spec => []TypeOK` |
| | `FlagCorrect` | `Spec => []HostFlagMeansStanding` |
| | `HandledOnceCorrect` | `Spec => []HandledOnce` |
| | `HearingCorrect` | `Spec => []RightAgentsHear` |
| `PluginSyncProofs` | `SyncIsRepeatable` | `Spec => []RepeatableSync` |
| | `HostsKnowTrueIds` | `Spec => []IdsAreTrue` |
| | `WelcomesAreTrue` | `Spec => []WelcomeIsTrue` |
| | `TypeCorrect` | `Spec => []TypeOK` |
| `HostPageProofs` | `TypeCorrect` | `Spec => []TypeOK` |
| | `ShownCorrect` | `Spec => []ShownIsTrue` |
| | `SavesCorrect` | `Spec => []SavesAreMeant` |
| | `SecretsCorrect` | `Spec => []SecretsAreSeen` |
| `AgentPageProofs` | `TypeCorrect` | `Spec => []TypeOK` |
| | `ShownCorrect` | `Spec => []ShownIsTrue` |
| | `SavesCorrect` | `Spec => []SavesAreMeant` |
| `PluginPageProofs` | `TypeCorrect` | `Spec => []TypeOK` |
| | `ShownCorrect` | `Spec => []ShownIsTrue` |
| | `SavesCorrect` | `Spec => []SavesAreMeant` |
| `TopicPageProofs` | `TypeCorrect` | `Spec => []TypeOK` |
| | `ShownCorrect` | `Spec => []ShownIsTrue` |
| `SettingsPageProofs` | `TypeCorrect` | `Spec => []TypeOK` |
| | `ShownCorrect` | `Spec => []ShownIsTrue` |
| | `SavesCorrect` | `Spec => []SavesAreMeant` |

Every argument has the same shape. The property is not inductive; a stronger
invariant is, made of named parts; `Init` implies it, and one lemma for each
action, or group of actions, shows that it is preserved. The theorem follows
with one temporal step.

**The authority's session**, for every `Authority` id, both values of
`BrokerUriInternal` and every `MaxFaults` (`AuthorityAssumption`,
`BrokerUriAssumption`, `MaxFaultsAssumption`). `AtMostOneHandler` needs to know
that two threads are never inside `Connect` at once, which holds because the
timer is armed only after the startup callback has left it (`OneConnector`), and
which steps have filed a handler (`HandlerInv`). `FlagMeansStanding` needs that a
live link with the flag down belongs to a thread between `Link` and
`SetConnected`, which sees the subscription answered first (`LinkInv`), or to a
`StopAsync` that has cleared the flag of a refresh that came after it; `HandlerInv`
says which handler is left then. Together with the types these make `SessionInv`.
For the refinement, each action is shown to be a step of `Subscription` or a
stutter; this is where `LinkInv` is needed to say that without a link no answer is
left, so that a new link starts from nothing, and that a refresh clears the flag
(`Retract`) only where link and handler are gone, while `StopAsync` needs `closing`.

**A host**, for every set of agents, their topics and placements and every bound
(`IdsAssumption`: the authority's id is neither the host's nor an agent's, and the
host's is not the "-" of topics; `BoundsAssumption`). The argument has five layers,
each an invariant that uses those below it.

* `InstanceInv`: the types, that every reference (in the dictionary, a handler, a
  filed callback) leads to an object of the agent it is filed under, and where each
  handler is. It rests on `KeysApart`: the keys of `_callbacks` for the host and for
  each agent are different and none is itself a filter.
* `SessionInv`: link, flag and copies of the host's handler. `FlagCorrect` needs to
  know at which places of `StartAsync` and of `Stop` the handler is filed and the
  subscription answered, granted or refused (`ConnectInv`). `HandledOnceCorrect` counts: there are never more
  copies than faults, but for the one being filed or in use (`CopiesInv`).
* `CountInv`: without a fault, an agent has no more objects, with those that handlers
  are still to create, than messages asked for it.
* `SerialInv`: while nothing overlapped, one handler at a time and none beside Stop.
* `QuietInv` and `ReachInv`: whose handlers are filed. An agent somebody listens for is connected
  (`Settled`), being connected (`Working`), or its handler died with the link; then
  the host is `Deaf`: no message is handled singly any more before the next stop, as
  the host's own handler is filed and will be filed twice. Without `Deaf` the invariant
  is not inductive, since the next `agent_disconnect` would meet the leftover.
  `ReachInv` is the converse: without a fault what is connected has its handler and
  the server's answer.

**Access control**, for every set of segments, ids and topics
(`AclIdsAssumption`: ids are not reserved and the ids of the authority, the hosts
and the agents are distinct; `RequestedAssumption`; a claim has no "?" either). `AnswerInv` says that an answer is the decision of
`CheckAccessControl`; the rest is about that operator. A mask is compared with
the topic segment by segment: `NobodyIsGrantedToPose` finds the segment at which
every mask of the token differs, `WhatTheSdkDoesNeedsTheId` the mask that fits each
topic of `Topics` and, for a claim of three segments or more, that no mask has the length
of a topic (`HostAuthorityIdsAssumption`: the claim of a host is the id, or a URI).

**Credentials**, for any callers, services, connections, editors and bounds
(`ConnectionsAssumption`, `CallersAssumption` and the bounds). Both properties
speak of edits that do not overlap. `DatabaseInv` says that ids are given once,
that at most one edit is in progress, that what it read is still so, that its token
is the newest or, for a body without one, the last of its connection (`EditInv`), and
that the rows are the last edits, one for each connection. `CallsGetFreshTokens` adds
`AskedInv` (what is under way was asked for) and `FreshInv`: no token that is on
the wire, in a cache or returned is older than `floor`, what the authority had when
the service first asked. `CredentialTypeCorrect` also bounds ids and tokens by the number of
edits: each edit takes the next number and creates one row at most, so the rows
created and the edits that are still to create one are no more than the edits begun
(`CountInv`).

**Plugin records**, for any hosts, plugins, functions and bounds
(`ProvidedAssumption`, `PluginBoundsAssumption`). `TaskInv` says what a handler
has in hand at each step; `OneInv` that a host which is not overlapped has one
handler. `WelcomeIsTrue` needs `CoverInv`: what a handler no longer has to create
is linked; and `FunctionInv` and `CompleteInv`: a record without all its functions
is one that a handler works on. `RepeatableSync` needs `RepeatInv`: what is still to
create is not linked, which is why a handler that dies between two inserts does no
harm. These hold until the owner's first edit. `IdsAreTrue` is about edits as well: it
needs `RowInv`, that what a handler has read and what a host has still to go through are
records with a name they have or had. It goes through both ways in which the host may
find a plugin (`Places`), and through welcomes that cross or break off, since it is about
one record at a time. `LocalInv`, that a host whose plugins had different names at first
has no two of one name, is what `RepeatInv` needs of the host. For `TypeCorrect` it takes
that a handler which ended left nothing, and that the ids in hand were read from records
(`ReferInv`), as a record that is deleted keeps its place in the model.

**The Hosts page**, for any hosts, keys and plugins, any number of handlers that run
at once and any number of clicks (`HostsAssumption`: there is a host and a key to begin
with, and `None` and `Temp` are no ids; `MaxTasksAssumption`: there are at least two
slots, which the first render fills). `PageInv` has four parts, the last two under the
conditions of the properties they serve:

* `TypeInv`: types, and of what is under way that each handler has made a request it
  may make and got an answer that request can have. The modal's form is the text of the
  host it edits, for a new one empty, or what the user typed (`GoodForm`); no host is being
  edited on the other tabs; a host is created with a typed text only and an update in
  flight is of a host with its own text (`Asked`): this is what `EditedIsUpdated` rests on,
  for created hosts as well.
* `SpinInv`: a spinner turns only while a handler runs that will stop it. It holds
  whatever fails and wherever the user goes, because an unmounted tab loses its spinners
  with its handlers, and a mounted one begins with a fetch.
* `SecretInv`: while the user stays on the tab and nothing fails, each key was shown or
  a live handler has been told its secret.
* `CalmInv`: while the user waits and nothing fails, one handler of the open tab runs at
  most (`OnlyOne`), it is about the selected host and keeps others away by its spinner
  (`ForSelected`), and what it was told, or without one what is shown, is still so
  (`Current`). `LinkedOnce` needs all of it: the button that links a plugin is there only
  for plugins that the list on the screen lacks (`LinkedOnceIn`).

Every action of the page makes a screen and renders it, so the invariants are stated of a
screen and handlers that need not be the current ones, and the lemmas about `Render`
come first: what it begins, what it stops and what it shows. One lemma for each group of
clicks, each handler and the server's answers follows.

**The Agents page**, for any agents, plugins and topics, any number of handlers and any
number of clicks (`AgentsAssumption`: the agents there are at first are agents, and
neither `None`, nor `Temp`, nor the empty string is the id of one; `MaxTasksAssumption`).
`PageInv` is made like that of the Hosts page, of `TypeInv`, `SpinInv` and `CalmInv`,
but here handlers may overlap even for a user who waits: creating, showing and deleting
an agent change the URL, and each change of the URL starts a load beside what still runs.

* `TypeInv`: the name in the form is the one of the agent that is selected or what the
  user typed (`GoodDetails`), an answer tells an agent with its own name (`Tells`), and
  an update in flight is of an agent with its own (`Asks`). All of this is said of agents
  that were there at first. `NamesApart` rests on it, and needs neither patience nor luck.
* `SpinInv`: a spinner turns only while a live handler runs that will stop it.
* `CalmInv`: only handlers that read overlap, and one that writes runs alone (`Single`);
  an answer that waits to be read is still so, as no writer ran since (`Fresh`); the
  list, the selection and the items are so unless a handler runs that will show them
  (`Chosen`, `Current`): a writer that succeeded is one, which is why a list may be old
  between the answer and the refresh. `Counted` ties ids to drafts: a save that has
  not been answered leaves one draft to spare, and it keeps the form as it was sent.

Before the lemmas about clicks and handlers come those about `Render` (`RenderKeeps`)
and about a handler that takes another's place in its slot (`HandlerKeeps`, with
`Becomes`), from which most handlers follow; on the server's side a request either reads
(`AnswersAre`) or is the only one of its handler (`RequestIs`, `WritesAre`).

**The Plugins page**, for any plugins and functions, any number of handlers and any
number of clicks (`PluginsAssumption`: the plugins there are at first are finitely many
plugins, at least one; there is an id for a function; `None` is no id, text or plugin; there
are two slots for what the page begins with). `PageInv` is again `TypeInv`, `SpinInv` and
`CalmInv`; what differs is that a handler of the tab of details goes on after its tab, and
that the list at the side is the page's and not the tab's.

* `TypeInv`: the form is the text of the plugin that is edited or what the user typed
  (`FormMeant`), which only holds after a render, as the form is filled from it; the plugin
  shown, each answer and each update in flight has its own text (`GoodPlugin`, `Tells`,
  `Asks`), if it was there at first. `EditedIsUpdated` rests on it, and needs neither
  patience nor luck.
* `SpinInv`: the list's spinner waits for any handler that fetches the list, live or not,
  since the page is always mounted; those of a tab only for live handlers of that tab.
* `CalmInv`: a handler that writes shares the page only with edits of functions, which the
  server refuses (`Alone`); answers that wait to be read are still so (`AnswersHold`); the
  list, the plugin and the functions shown are the server's unless a handler runs that
  will show them (`ListHolds`, `DetailsHold`, `FunctionsHold`); and each handler finds the
  selection, the tab and the form it began with (`Relies`, `Asked`). `Counted` is the
  arithmetic of `CreatedOnce`: the ids given, and one for each form that is open and not
  answered yet (`NewPlugin`, `NewFunction`), are no more than the forms opened. An answer
  that creates a record moves one from the second to the first.

The deletion of a function whose second request is refused is part of it: that refusal is no
failure for the page (`deleteFunction` in `StillSo`), and the user still sees the truth.

**The Topics page**, for any topics and agents, any number of handlers and any number of
clicks (`TopicsAssumption`: the topics there are at first are topics, and `None` is neither
a topic nor the record of one). `PageInv` is `TypeInv`, `SpinInv` and `CalmInv`. The page
differs in that a change of the URL fetches the whole list again while the last fetch may
still run, and that a deletion fetches it before it empties the selection and the URL of a
user who may have gone elsewhere.

* `TypeInv`: types, the requests each handler may have made at its await (`Asks`) and the
  answers these can have (`Tells`): what is saved has a text, and agents are assigned to
  topics that exist.
* `SpinInv`: a spinner turns only while a live handler runs that will stop it, whatever
  fails and wherever the user goes; leaving a tab drops its spinners with its handlers.
* `CalmInv`: of a user who waits, while nothing fails. Only fetches of the list overlap, and
  every other handler runs alone, for the topic in the URL (`Single`); an answer that waits
  to be read is still so, since only a handler that runs alone writes (`AnswersHold`). The
  list, the topic selected and its agents are the server's unless a handler runs that will
  show them (`ListHolds`, `SelectedHolds`, `CardsHold`), and a deleted topic is selected only
  while its deletion is not done with the screen (`ExistsStill`). `Aside` is what lets two
  fetches overlap: one begun for another id than the URL's finds no topic of that id, so that
  it can select none, however late it ends; and a topic is created only where the URL has
  none, so that a fetch cannot come to find one.

There is a lemma for each handler, and one for rendering (`RenderKeeps`), which begins the
fetches and drops the handlers of the tab that is left.

**The Settings page**, for any authorizers and connections, any number of handlers and any
number of clicks (`SettingsAssumption`: the records there are at first are finitely many, no
authorizer is a connection, and `None` is no id, no tab and no record; `MaxTasksAssumption`).
`PageInv` is `TypeInv`, `SpinInv` and `CalmInv`, stated once for both tabs: what depends on
the tab is a parameter, and a handler's tab is told by its argument (`TabOf`).

* `TypeInv`: an authorizer there was at first has its own text or one the user typed, on the
  server, in the details, in an answer and in an update on its way (`Meant`), and an open form
  holds the text of the record selected now or what was typed (`FormMeant`), since it is
  filled again with every render: `EditedIsUpdated` rests on it, and needs neither patience
  nor luck. Of a tab that is gone only writers go on, and fetches of the authorizers, which
  the page wants to know of (`Outlives`).
* `SpinInv`: a spinner turns only while a live handler runs that will stop it.
* `CalmInv`: of a user who waits, while nothing fails. Two handlers run together in three
  ways only (`Beside`): the choices of the form beside the first list; the list that is
  fetched after a record was created beside its details; and, as the form leaves the
  button free, beside that list a second save. That save writes what is there already
  (`Unedited`), which is why the list that is still under way stays true. Answers that wait
  to be read are still so (`AnswersHold`), list and details are the server's unless a handler
  runs that will show them (`ListHolds`, `DetailsHold`), and so is the way to the other tab
  (`GateHolds`). `Counted` is the arithmetic of `CreatedOnce`, as on the Plugins page.

The lemmas come in the order of the other pages: `Render` (`RenderKeeps`, for a render that
brings a tab and one that stays on it), the clicks, the handlers, the server.

Liveness under fairness (`KeepsServing`, `StartConnects`, `AgentsArrive`, `Answered`,
`CallsReturn`, `SpinnersEnd` of the Topics page) is out of the prover's reach and is only
model-checked. Every invariant of the passing runs is proved, and so is the refinement
of `Subscription`.

## Not modelled

Planned below: OAuth state and its key, the ownership checks of the record access,
history, the NTP clock and its backoff, the Python port. Left out for good:

* kernels and calls of language models, plugins that call outside services,
  database and container images;
* the pages and configuration of the identity server, and the sign-in of the UI:
  redirects of libraries;
* what the UI only shows (layout, cards, messages, the search of a list), and its
  components that no page uses.

`components` in `PROJECT.json` gives the reason for each.

## Plan

Done: `Topics`, `BrokerClient`, `AuthoritySession` with `Subscription`,
`HostSession`, `PluginSync`, `CredentialExchange`, `TopicAcl`, the five pages of the
UI; the proofs above.

1. `Handshake`: composes the authority's session, hosts and messages at most
   once; an abstract specification in which a host is unknown, announced or
   welcomed, and a refinement mapping. Property: no welcome without a connect.
2. `KeyMaterial`: the key is created once, a state made before a restart is
   rejected after it. Theorem: one key per process.
3. `Records`: creation, update and deletion with ownership, and what queries as
   a person or as the system may return.
4. `Backoff` (NTP hosts and delays), `History`, variants for the Python SDK where
   it differs: dispatch, unsubscribing, access masks.
