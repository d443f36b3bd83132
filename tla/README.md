# Verification of AgentCask

AgentCask runs coding agents in Kubernetes Pods. A user creates an
*AgentSession*; a controller makes a Pod of it; the user works in the Pod
through a terminal over a WebSocket; programs in the Pod reach a model through
a proxy that holds the real key. This directory holds TLA+ specifications of
that system, the TLC configurations that check them on small instances, and
proofs, checked by TLAPS, for instances of any size.

```
tlc -workers 2 -config single.cfg MCSessionController     # any run below
tlapm SessionControllerProofs.tla                         # any ...Proofs module
```

## 1. The system

| component | state | operations | talks to |
|---|---|---|---|
| `cask-controller` (`internal/controller`) | none that lasts: the copy of the session it is working on | `Run`, `reconcileAll`, `Reconcile`, `cleanup`, `fail` | API server: sessions, Pods, RuntimeClasses |
| AgentSession (`api/v1alpha1`, the CRD) | spec, status, finalizer, timestamps, in the API server | created and deleted by `cask-api`, patched by the controller | |
| Kubernetes client (`internal/kube`) | none | `Get`, `List`, `Create`, `Delete`, `PatchStatus`, `PatchFinalizers`, conversions | API server |
| isolation profiles (`internal/isolation`) | configuration | `Resolve`, `CheckRuntimeClass`, `Apply` | API server |
| `cask-model-proxy` (`internal/modelproxy`) | none | `Handler`, `authenticate`, tokens | API server, model upstream |
| terminal gateway (`internal/terminal`) | per connection: WebSocket, context, exec stream, five goroutines | `Serve`, `closeWhenSessionStops`, `KubernetesExecBackend.Start` | API server, kubelet |
| `EchoBackend` (`internal/terminal`) | a channel | `Start`, `Write`, `Close` | |
| `cask-api` (`internal/api`) | a store | create, list, get, delete, terminal | store, gateway |
| `MemoryStore` (`internal/api`) | a map and a mutex | `Create`, `List`, `Get`, `Delete` | |
| `caskctl` (`internal/cli`) | per connection: two goroutines | create, list, get, connect, delete | `cask-api` |
| redaction, chart, manifests, images, CI | none | | |

The parts share nothing but the objects in the API server. Nothing is locked
and no request carries a `resourceVersion` or a uid; everybody decides on a
copy that may be old by the time it acts. What is hard, therefore:

* **Interleaving.** A reconciliation is up to six API calls. Users, the
  kubelet, the garbage collector, administrators, the clock and other replicas
  of the controller act between any two. `replicaCount` may be above 1
  (`charts/agentcask/values.schema.json:139`), there is no leader election,
  and a rolling update overlaps two processes in any case.
* **Failure.** A call may fail, with or without having taken effect. Some
  errors end the round, some are ignored (`deletePod`), some are written into
  the status (`fail`). The process may stop between any two calls.
* **Time.** Three places decide about expiry, by three reads of the clock: the
  controller (`now.After`), the token and the status in the proxy (`Before`).
* **Goroutines.** In a terminal five of them close three things in any order;
  in `caskctl` two report through one channel and one report is received.
* **Two calls per request.** A handler of `cask-api` decides by the copy that
  `Get` returned and deletes by name in a second call; it reads the clock long
  before the API server stamps the object it creates; its process may stop, or
  the user's connection break, between any two calls.
* **Limits.** The output channel, the echo channel and the resize queue fill;
  one of them waits, one waits for the goroutine that waits, one drops.

## 2. The modules

| module | models | kind |
|---|---|---|
| `AgentSession` | the resource, the Pod, and the controller's pure functions | data |
| `SessionController` | the controller with the cluster around it | system |
| `SessionContract` | what the controller promises | abstract specification |
| `ModelProxy` | the proxy, composed with `SessionController` | composition |
| `ApiCalls` | requests and answers, as a user sees them | data |
| `SessionApi` | what `cask-api` promises its users | abstract specification |
| `ApiHandlers` | the handlers of `cask-api` over any store | part |
| `ApiServer` | `ApiHandlers` over the Kubernetes client, composed with `SessionController` | composition |
| `MemoryServer` | `ApiHandlers` over `MemoryStore` | composition |
| `Terminal` | one terminal connection over a pods/exec stream | system |
| `EchoTerminal` | one terminal connection over `EchoBackend` | variant of `Terminal` |
| `InMemory` | `cask-api -memory` whole: `MemoryServer` and a terminal | composition |
| `ResizeQueue` | the way of a terminal size to the remote terminal | system |
| `Connect` | `caskctl session connect` | system |
| `MC...` | their instances for TLC | |
| `SessionControllerProofs`, `ModelProxyProofs`, `ApiServerProofs`, `ResizeQueueProofs`, `ConnectProofs` | theorems about the module of that name | |
| `TerminalProofs` | theorems about `Terminal` and `EchoTerminal` | |
| `InMemoryProofs` | theorems about `MemoryServer` and `InMemory` | |
| `ApiHandlersProofs` | lemmas about a handler's step, for both servers | |

### AgentSession and SessionController

`sessions[s]` and `pods[s]` are the objects in the API server, `NoSession` and
`NoPod` where there is none; `uid` numbers the objects that had the same name.
`runtimeClasses`, `now` and `incarnations` complete the cluster. Each
controller has the local variables of `Reconcile`: `pc` is the call it makes
next, `queue` what is left of the list, `cur` and `obj` the session and its
copy, `out` the status to write.

| action | code |
|---|---|
| `ListSessions` | `Run`, `reconcileAll`: one round lists, the next begins when it is over |
| `GetSession`, `FirstCall` | `Get`, then deletion, finalizer or expiry, by the copy |
| `AddFinalizer` | `PatchFinalizers`; goes on with the old copy |
| `CheckExpiry` | `expired`, `Resolve` |
| `CheckRuntimeClass`, `GetPod`, `CreatePod` | the calls of those names |
| `ExpirePod` | `deletePod`, whose error is ignored, then the Expired status |
| `WriteStatus` | `PatchStatus`, of every outcome |
| `CleanupPod`, `RemoveFinalizer` | `cleanup` |
| `Crash` | the process is stopped and started again |
| `CreateSession`, `DeleteSession` | the requests of `cask-api` as the API server sees them |
| `StartPod`, `StopPod`, `EvictPod`, `ReapPod`, `GarbageCollect`, `ChangeRuntimeClass`, `Tick` | the cluster, from how the code uses it (external) |

`FaultyCalls` names the calls that may fail and whether the process may crash;
a call that fails has a disjunct of its own, in which the effect may or may not
have happened. Statuses are computed by the operators of `AgentSession` that
carry the names of the outcomes; a field the code does not assign keeps the
value of the copy, and a patch writes all of them. Times are whole numbers on
one clock, which stands for the clocks of all processes. `status.createdAt` is
left out because it is only ever written with `expiresAt`.

`SessionContract` has one variable per promise: whether a session is kept,
whether a Pod runs for it, whether it was reported expired. A Pod is launched
only for a kept session that has not expired, expiry is reported only when the
Pod has been stopped and is not taken back, and a session goes only after its
Pod. A name may be given to a new session when the old one has gone. `SessionController` implements it under the mapping
`life <- Life(s)`, `running <- Live(pods[s])`, `expired <- ` "phase is Expired".

### ApiServer, MemoryServer and SessionApi

A request in `calls` is what its user knows of it: who asked for what, and the
answer. `step` is the call of the store its handler makes next. `ApiHandlers`
has what a handler does around its calls:

| action | code |
|---|---|
| `Receive` | `sessions`, `sessionByID`: method and path choose the handler |
| `Refuse` | `createSession` up to `Validate`: a malformed request |
| `AfterGet` | `getSession`, and `deleteSession` up to `Store.Delete` |
| `AnswerCreated`, `AnswerListed`, `Answer` | the answers |

and the two servers have the calls themselves. In `ApiServer` they act on the
objects of `SessionController`, so that between `Get` and `Delete` of one
handler a controller may remove the session and another handler delete it;
`StoreFault` lets a call fail with or without effect, and `BreakOff` ends a
handler between two calls. In `MemoryServer` each is one critical section of
`MemoryStore`. `readAt` is the clock that `createSession` read before its call;
`promised` is not in the code: it remembers the expiry in the answer, which is
the one that `NewAgentSession` computed, since the API server stores no status
on creation.

`SessionApi` says what users may rely on. Every request takes effect at one
instant between its call and its answer; it is answered by what was true at
that instant; only the owner of a session sees it or ends it; a deletion that
was answered stays. A request that comes second to the same user's deletion of
the session may be answered with an error, and where requests are
`Unreliable` any request may, whether it took effect or not. Where names are
`Reusable` one that is free again may be given to somebody else: `ApiServer` is
when `MaxIncarnations` is not 1, `MemoryServer` is not. That `Get` and
`Delete` are two calls is what the refinement has to bridge: `Deny` happens at
the first, `Delete` at the second.

### ModelProxy

A request is one record: the stage of its handler, its session, the expiry in
its token, the copy that `Get` returned. `ValidateToken`, `ResolveSession`,
`Judge`, `ReadBody` and `Answer` are the steps of `Handler` and
`authenticate`; `Send` is a program in a Pod, which may be one that is being
deleted. Everything `SessionController` can do happens between them. Tokens
are not forged. `late` is not in the code: it remembers whether the request
was sent after its session had been revoked.

### Terminal

`handler`, `pump`, `watcher`, `exec` and `copier` say where each goroutine is:
`Serve`, its writer, `closeWhenSessionStops`, the goroutine of
`KubernetesExecBackend.Start`, and the copier inside client-go's
`StreamWithContext`, which calls `outputWriter.Write`. They share the server's
end of the WebSocket (`conn`), the context (`cancelled`), the stdin pipe
(`stdinClosed`) and the output channel (`out`, `outClosed`, `Capacity`). Of
`StreamWithContext` the model has what the code depends on: it returns when
the command has ended and its output was copied, or at once when the context
is cancelled, without waiting for its goroutines. The user may leave, read
slowly or not at all; the command may read no input; the session may stop and
start again.

The deferred calls of `Serve` are three steps, in the order in which they run:
`CloseStream`, `CancelContext`, `CloseConnection`. So are the calls of the
watcher, which closes both ends before it cancels: `CloseTerminal`, `HangUp`,
`CancelTerminal`. The pump's `conn.Close` and `close(done)` are one step: only
`CheckDone` looks at `done`, and a handler that looks between the two reads a
closed connection next. `ConnectionOver` is about the goroutines that `Serve`
and `Start` began. Those of client-go are its own: the copier ends with the
remote stream, and the one in the resize queue does not end (section 5).

`EchoTerminal` keeps the handler, pump and watcher of `Terminal` and replaces
the stream: there is no copier, `EchoWrite` waits for room in the output
channel itself, `BeginClose` and `FinishClose` are the two `close` calls of
`Close` (the first caller makes both, the others wait in `sync.Once`), and
`EchoPanic` is the select of `Write` that takes a send on the closed channel.
A session of the in-memory mode is ready from its creation to its deletion,
which `EchoInit` and `ChangeStored` say, and `EchoWatchSession` is a `Get` that
fails for no other reason than that the session is not in the map; alone, `ChangeStored` lets it come and
go as it likes.

`InMemory` puts the two halves of that mode together: the terminal's
`Readiness` is whether the map of `MemoryServer` holds the session, and
`DeleteSession` of a handler is what the watcher sees at its next look.

`ResizeQueue` follows the text frames that `ReadControl` of `Terminal` leaves
aside: `HandleControl`, `Push` with its default branch, `Next`, and the
goroutine of client-go that writes what `Next` returns. All it shares with the
rest of a connection is the handler, which may be waiting in `Write`
(`writing`), and the end of the stream, and so it has a module of its own: what
matters is that `Push` never makes the handler wait.

`FlagsOK` and `PlacesOK` are the two halves of the type invariant, apart
because one is proved by Zenon and the other by SMT.

### Connect

`main` is `Connect` itself, `reader` and `writer` its goroutines, `errCh` the
reports not received yet, `link` the other end, `frames` what it has sent and
nobody has read. A write succeeds when the kernel takes it, which it may do
after the other end has gone. `ExitCode` is what `runConnect` makes of the
result; its check for the word "normal" never applies, since no error that
`Connect` returns has it.

Operators with a name in `..._Mutant` are wrong on purpose. Each is a plausible
mistake in the definition after it, and the property named with it in
`PROJECT.json` fails when it takes that definition's place.

## 3. What is checked

States are those of TLC 2.19; every passing run ends within about three minutes.

| run | instance | properties | distinct states |
|---|---|---|---|
| `single` | 1 controller, 3 profiles (one unconfigured, one with a RuntimeClass), TTLs 1 and 2, clock to 3, names used twice, 2 faults of every call but `deletePod`, crashes | `TypeOK`, `PodHasOwner`, `ExpiredHasNoPod`, `ExpiredIsFinal`, `ImplementsContract` | 2 355 000 |
| `live` | 1 controller, names used twice, 2 profiles, TTL 1, clock to 2, 2 faults of any call, crashes | `StatusConsistent`, `DeletionCompletes`, `ExpiryEnforced`, `ReadinessConverges` | 363 000 |
| `replicas` | 2 controllers, TTLs 1 and 2, clock to 2, no faults | `TokenMatchesExpiry`, `ExpiryFollowsTTL`, `LatePodsAreFew`, `LateReportsAreFew`, `DeletionCompletes`, `ExpiryEnforced` | 738 000 |
| `proxy` | 1 controller, TTLs 1 and 2, clock to 3, 1 fault, 1 request at a time | `RevokedIsDenied`, `AccessEnds` | 556 000 |
| `api` | 2 users, 1 request at a time, 1 session, 1 controller, TTL 1, clock to 2, 1 fault of the handlers' calls and 1 of `deletePod` or `removeFinalizer` | `PromiseKept`, `ImplementsApi`, `AcknowledgedDeletionCompletes` | 403 000 |
| `in_memory` | 1 user, 2 requests at a time, 1 connection, channel of 2 | `EchoTypeOK`, `PanicOnlyAfterDeletion`, `ImplementsApi`, `DeletionEndsTerminal`, `ReturnReleasesAll` | 623 000 |
| `terminal` | 1 connection, channel of 2 | `TypeOK`, `NoOutputLost`, `NobodyIsHeld`, `PanicOnlyWhenEnding`, `SessionEndClosesTerminal`, `ReturnReleasesAll`, `ExecEndClosesConnection` | 18 200 |
| `resize` | 6 sizes, queue of 2, 2 frames under way | `TypeOK`, `SizesInOrder`, `UserIsNeverHeldUp`, `QuietUserIsObeyed` | 12 000 |
| `connect` | 2 frames in transit | `OkMeansComplete`, `EndHasCause`, `EndReachesUser`, `ReturnReleasesReader` | 824 |

**Bounds.** One session is enough for what is checked: a reconciliation reads
and writes only the session, the Pod and the copy of one name, and the rounds
of a controller merely order them. `MaxTime` is above the smallest TTL
(above every TTL in `single` and `proxy`), so that all comparisons with an
expiry come out all three ways. Two faults let a retry
fail as well. Two replicas are the overlap of a rolling update. A channel of 2
is full, half full and empty. `MaxIncarnations = 1`, a name is used once,
except in `live` and `single`, where the controller, in the middle of a round
for the first object, meets the second. `replicas` has no faults; its two
invariants, `LatePodsAreFew` and `LateReportsAreFew` are proved with them. In `api` two users are what it takes to confuse owners, and
what acts between the two calls of a handler is the controller; two handlers at
once, which delete the same session twice, are in `in_memory`, and any number
of them in the proofs. Six sizes fill the queue, what client-go writes and what
is under way.

**Fairness.** `SessionController`: each controller takes a step when it can
(its ticker fires, the API server answers), a deleted Pod is gone in the end,
and the garbage collector sees every orphan. Faults are bounded, so they stop;
users, the scheduler, administrators and the clock owe nothing. `ModelProxy`:
only the handlers are fair, since `http.Client` gives up after 30 seconds; the
controller owes nothing, nor does the sender of a body. `Terminal`: goroutines
run when they can; the user and the remote command owe nothing. `EchoTerminal`
likewise, and `Close` is fair as its own step because whoever called it first
goes on; `InMemory` adds nothing to that, since no request need be made or
answered. `ResizeQueue`: handler and client-go's goroutine; the remote end may
stall for good. `Connect`: the goroutines; the user need not type and the
server need not send or close. `ApiServer`: only what `SessionController` has;
no handler needs to go on and no user to ask, so that
`AcknowledgedDeletionCompletes` rests on the controller alone. All of it is
weak fairness, with one exception: in `EchoTerminal` the watcher's select is
strongly fair to a context that is done. `Get` of `MemoryStore` does not fail
when the context is done, so the watcher goes round again, and a select of Go
picks at random among what is ready: it cannot pass over the context for ever. Deadlock is checked except in `terminal` and `connect` (and the
counterexamples of both), where a connection ends and nothing is left to
happen.

### What the code does and the documents do not say

Each of these configurations ends in a counterexample, which is what it is for.
`doc_failed`, `doc_disconnect_stream` and `doc_disconnect_panic` are runs of
`PROJECT.json`; the others are there to be run by hand, with the `MC` module of
their component (`doc_disconnect_echo.cfg` with `EchoTerminal`).

* `doc_cleanup`: `docs/CRD_SPEC.md:191` "Controller removes owned resources,
  then removes finalizer." `cleanup` (`controller.go:251`) ignores the error of
  the first step; the Pod then outlives its session until the garbage
  collector sees it. This is why `PodHasOwner` and the contract assume that
  deletions of Pods succeed, and `DeletionCompletes` does not.
* `doc_failed`: `docs/CONTROLLER_DESIGN.md:149-158` sets Failed "for
  unrecoverable errors." Any error of creating a Pod or reading a RuntimeClass
  sets it, and the next round takes it back. In between terminals are closed
  and model requests denied.
* `doc_ready`: `docs/CONTROLLER_DESIGN.md:138-147` sets Running with
  terminalReady "when Pod is ready enough for exec." A Pod that has Succeeded
  counts too (`controller.go:147`).
* `doc_disconnect_stream`: `docs/TERMINAL_GATEWAY.md:114` "WebSocket disconnect
  closes the active exec stream." Not while the handler waits in
  `stream.Write` (`gateway.go:126`) for a command that reads nothing; only the
  end of the session releases it.
* `doc_reason`: the Running session of `docs/API_SPEC.md:110` has
  `"reason": ""`, that of `docs/CRD_SPEC.md:48` too. `Reconcile`
  (`controller.go:145`) assigns neither reason nor message when the Pod runs,
  so those of a creation that failed once stay.
* `doc_disconnect_echo`: the same line 114. With `EchoBackend` the handler
  waits in `Write` (`gateway.go:227`) for room that only the pump could make,
  and the pump has ended on a failed write.
* `doc_resize`: `docs/TERMINAL_GATEWAY.md:86` "The terminal gateway must pass
  resize events to the Kubernetes exec stream." A full queue drops the newest
  size (`kubernetes.go:105`), so after a quick drag the remote terminal keeps
  an older one until the next resize.
* `doc_connect_output`: `docs/CLI_SPEC.md:95` connect "forwards WebSocket
  binary frames to stdout." When the server has closed, the writer's failed
  write (`client.go:97`) may be the first report, and what has not been read is
  not printed.
* `doc_connect_dropped`: `docs/CLI_SPEC.md:107-114` asks for a clean message
  for "connection dropped." The reader reports every error as success
  (`client.go:110`).
* `doc_disconnect_panic`: `docs/TEST_PLAN.md:77` lists "disconnect cleans exec
  stream." On cancellation `StreamWithContext` does not wait for its copier;
  `close(out)` (`kubernetes.go:53`) then makes the copier's send panic, in a
  goroutine nobody recovers, and the process ends. Only then: a terminal that
  nothing is ending does not panic, however fast its command prints and however
  slowly its user reads (`PanicOnlyWhenEnding`, proved).

Because of the last one, `ConnectionOver` counts a process that has died as a
connection that is over.

## 4. What is proved

Every theorem is for all constants that satisfy the modules' assumptions
(`ProfilesAssumption`, `TTLAssumption`, `NoNameAssumption`, `NoUserAssumption`,
`CapacityAssumption`, `MaxFramesAssumption`, `SizesAssumption`,
`KeysAssumption`, `ConnectedAssumption`) and the hypotheses named here:
`SingleController`, `PodDeletionsSucceed` (`"deletePod" \notin FaultyCalls`),
`NamesUsedOnce` (`MaxIncarnations = 1`), and `NamesLeftAlone`, which
`ApiServerProofs` states: no name is drawn while a handler is between the `Get`
and the `Delete` of a session of that name. Sessions, users and requests are any
sets, and the bounds on the clock and on faults are constants of any value.

| theorem | states | hypotheses |
|---|---|---|
| `Typed` | `[]TypeOK` of `SessionController` | |
| `StatusesConsistent` | `[]StatusConsistent` | |
| `TokensMatchExpiry` | `[]TokenMatchesExpiry` | |
| `ExpiriesFollowTTL` | `[]ExpiryFollowsTTL` | |
| `LatePodsFew` | `LatePodsAreFew` | |
| `LateReportsFew` | `LateReportsAreFew` | |
| `PodsHaveOwners` | `[]PodHasOwner` | `SingleController`, `PodDeletionsSucceed` |
| `ExpiredSessionsHaveNoPod` | `[]ExpiredHasNoPod` | the same two |
| `ExpiredSessionsStayExpired` | `ExpiredIsFinal` | the same two |
| `ControllerImplementsContract` | `ImplementsContract` | the same two |
| `RevokedRequestsDenied` | `ProxySpec => []RevokedIsDenied` | |
| `ApiLeavesController` | `ApiSpec => Spec`: what holds of the controller holds beside the handlers | |
| `ApiTyped` | `[]ApiTypeOK` | |
| `PromisesAreKept` | `ApiSpec => []PromiseKept` | |
| `ApiServerImplementsApi` | `ApiSpec => ImplementsApi` | `NamesLeftAlone` |
| `ApiServerImplementsApiOnce` | `ApiSpec => ImplementsApi` | `NamesUsedOnce` |
| `MemoryServerImplementsApi` | `MemorySpec => ImplementsApi` | |
| `InMemoryImplementsApi` | `InMemorySpec => ImplementsApi` | |
| `InMemoryTyped` | `InMemorySpec => [](EchoTypeOK /\ InMemoryInv)` | |
| `PanicsOnlyAfterDeletion` | `InMemorySpec => []PanicOnlyAfterDeletion` | |
| `EchoTyped` | `[]EchoTypeOK` | |
| `EchoNobodyHeld` | `EchoSpec => []NobodyIsHeld` | |
| `TerminalTyped` | `[]TypeOK` of `Terminal` | |
| `OutputNotLost` | `[]NoOutputLost` | |
| `NobodyHeld` | `[]NobodyIsHeld` | |
| `PanicsOnlyWhenEnding` | `[]PanicOnlyWhenEnding` | |
| `ResizeTyped` | `[]TypeOK` of `ResizeQueue` | |
| `SizesArriveInOrder` | `SizesInOrder` | |
| `ConnectTyped` | `[]TypeOK` of `Connect` | |
| `OkIsComplete` | `[]OkMeansComplete` | |
| `EndsHaveCauses` | `[]EndHasCause` | |

Names may be used any number of times in all theorems about the controller and
what is composed with it; the refinement of `SessionApi` then asks when
(`NamesLeftAlone`). In `MemoryServer` they are drawn once, which its `Fresh`
says. Five properties
say less of a name that was (`UsedOnce(s)` in `PodHasOwner`,
`TokenMatchesExpiry`, `ExpiryFollowsTTL`, `RevokedIsDenied` and `PromiseKept`
restricts what they say of `s`, whatever happens to other names), because of
what the code does with a second object of a name: see section 5.

The inductive invariants, in the order in which they build on each other:

* `TypeInv` adds to `TypeOK` that a controller at a call works on a session.
* `StatusInv` adds that the status a controller is about to write, and the copy
  it read, are consistent: a patch may write an old one, but never half of one.
* `TimesInv` adds two things. `NamesInv`: the object in the API server is the
  latest of its name, and no Pod and no copy is of a later one; uids only grow,
  so an old copy can be told from the object. `ExpiryInv`: while a name has
  been used once every copy agrees with the object on creation and TTL, so
  every replica computes the same expiry from whichever copy, and so does the
  token. The condition is on each name by itself and must be in the invariant
  at the copies too: a name that is used a second time takes its copies out of
  it, and no name comes back into it.
* `LatePodsAreFew` is a statement about steps. It needs, from `TypeInv` and
  `NamesInv`, that a session that is over stays so (`OverForGood`: a status
  write keeps creation, TTL and the deletion mark; time does not go back), that
  only a reading of a session that is not over lets a round set out
  (`SetsOut`), and that the round that creates a Pod has then done so.
  `LateReportsAreFew` says the same of the writes that take the end of a session
  back, an Expired report above all. A round may go on to such a write only from
  the steps on the way to a Pod (`SetsOutToReport`), and what it writes is decided
  with the step before the write, not with the copy: a round that still holds an
  unexpired copy but has decided on Expired no longer counts. `ReportsByWriting`
  shows that the write itself ends the round's part in it.
* `SingleInv`, for one controller, says what each value of `pc` knows: from
  `addFinalizer` to the creation of the Pod the finalizer is there and so is
  the object, since nobody else removes it; between the deletion of the Pod
  and the write of Expired, or the removal of the finalizer, there is no live
  Pod; a session reported Expired has passed its expiry, so that no round gets
  as far as creating a Pod. `PodHasOwner` alone is not inductive: whether
  creating a Pod keeps it depends on what was read three calls earlier. With a
  name used again the copy may be of an earlier object than the one the patch
  of the finalizer finds. So `OwnerInv` speaks of the object that is there, not
  of the one that was read, and `ExpiredInv` says of the copy only what decides:
  whoever works on a session that is reported Expired has an expired copy, and
  whoever found its copy not expired works on one that is not so reported,
  since nobody else reports.
* `ControllerImplementsContract` uses `SingleInv` for the guards of the
  contract's actions, one lemma per step.
* `GateInv` of the proxy says how far a late request may get: it reaches
  `resolve` only if its session has ended for good, and `judge` only with a
  copy that is being deleted. It rests on `TimesInv` through
  `ProxyLeavesSessions`.
* `HandlersInv`, for both servers: a handler that still has a call to make has
  a pending request of the method that makes that call, for a session's name
  where it needs one.
* `MemoryInv` adds that what the map holds under a name belongs to whom the
  name was given out to, and that a handler between `Get` and `Delete` serves
  that user. Without it the step from `Delete` to the abstract one does not
  follow: the owner was compared a step earlier.
* `OwnersInv` is the same of `ApiServer`: a handler that goes on to `Delete`
  serves the owner of a session that was created; it stays so because the name
  is left alone. That is all the refinement needs of names: `SessionApi` lets one
  that is free be drawn again where the server may, and without `NamesLeftAlone`
  TLC finds the deletion of another user's session in two dozen steps. A name
  drawn once is left alone (`UsedOnceLeavesAlone`). `KeptInv`: a deleted object that still exists has its
  finalizer, so a second deletion changes nothing.
* `PastInv`: what is reported Expired, or about to be, is past creation plus
  TTL by the clock as it is now. `PromiseInv`: a handler read the clock before
  the object was created, so the expiry it tells is not later than that sum.
  `PromiseKept` follows from the two and `TimesInv`.
* `EchoInv`: the stream is closed, or the context cancelled, only when the
  watcher has seen the session end or the handler itself is leaving, and a
  handler that is leaving does not write.
* `InMemoryInv`: what `Get` says to the gateway is what the map holds. With it
  every step of the whole is a step of `MemorySpec` and of `EchoSpec`
  (`InMemoryStep`, `InMemoryIsBoth`): a request is to the connection a session
  that comes or goes, or nothing. What was proved of the halves follows.
* `DeletionInv` joins the two: a watcher that closes, a stream that is closed
  or a context that is cancelled, while the handler is not leaving, means that
  the session was in the map and is not. That this stays so rests on names
  being drawn once (`Fresh`), and that the connection's session was ever in the
  map on the handler's own `Get`.
* `ConnectInv`: what each report in `errCh` is evidence of while `Connect` waits
  for it, and what the result is evidence of when it has returned. `OkMeansComplete`
  alone says nothing of the reports that are under way.
* `ResizeInv`: `OrderInv` orders everything on the way from the user to the
  remote terminal, namely what the terminal shows, what client-go writes, the queue,
  and the sizes among the frames that the handler has not read. Dropping a size
  from the middle keeps the order, which is why a full queue does no harm to it.
  `ChannelsOK` is `TypeOK` in terms of `Seq` and `Len`; `BoundedSeqDef` shows
  that they agree.
* `TerminalInv`: who closes the channel, when the pump may stop, and that
  nothing is closed before the goroutines have been started. `ReleaseInv` adds
  what a cancelled context means: the stream is closed, since both the watcher
  and the handler close it first, and so is the connection, unless the handler
  is just between its `cancel` and its `conn.Close`. The pump may wait for a user
  who reads nothing even then, on a connection that is still open; what
  `NobodyIsHeld` says is that the handler is the one who closes it next, and waits
  for nobody. The exec goroutine goes on to close the channel whatever else
  happens. That is the safety half of `SessionEndClosesTerminal` and
  `ReturnReleasesAll`: the other half is fairness. `EchoReleaseInv` is its
  counterpart over `EchoBackend`, where whoever cancels has been through `Close`;
  no run checks `NobodyIsHeld` there, where `DeletionEndsTerminal` asks for more.
  `PanicOnlyWhenEnding` follows, since the exec goroutine closes the channel
  under a copier at work only after a cancellation.

**Only model-checked.** Liveness (`DeletionCompletes`, `ExpiryEnforced`,
`ReadinessConverges`, `AccessEnds`, `AcknowledgedDeletionCompletes`, `DeletionEndsTerminal`,
the three of `Terminal`, the two of `Connect` and of `ResizeQueue`): TLAPS has
no rules for fairness and `ENABLED`. Every invariant and every action property
of a passing run is stated by a theorem.

## 5. Hazards

`PROJECT.json` lists what is hard to test in this code, each at its line with
the properties that would catch it. Three have none that a passing run could
check: the reason that stays when a session recovers (`controller.go:145`,
which `doc_reason` shows); the goroutine of client-go that waits in `Next` of
the resize queue for ever once a stream has ended (`kubernetes.go:110`; nothing
closes the queue, and no document asks for it); and a `--ttl` below one second,
which `run.go:75` turns into 0 and the server into two hours.

Names are four random bytes (`server.go:308`), and nothing looks for an earlier
session of the same name. One controller copes: its safety properties and the
contract are proved with names used again, and `live` checks liveness. What is
true only of a name that was used once says so (`UsedOnce`). A round that
began with the first object may write the expiry it computed from it into the
status of the second (`ExpiryFollowsTTL`, `RevokedIsDenied`, `PromiseKept`), or
build a Pod from it, whose token ends when the first would have
(`TokenMatchesExpiry`) and which the garbage collector ends as the orphan it is
(`PodHasOwner`). Two processes and a name used again break the three liveness
properties of `live` as well: the slower process writes the status it computed
for the first object over that of the second. A handler compares the owner in
one call and deletes by name in the next, when another user's session may carry
the name. `ImplementsApi` of `ApiServer` holds unless just that happens
(`NamesLeftAlone`): a name may come again at every other time, while a handler
is before its `Get` included.

With two replicas `ExpiredIsFinal`, `ExpiredHasNoPod` and `PodHasOwner` do not
hold: a replica with an old copy can create a Pod and write Running after the
other has finished. Three things do hold. Only a round that had begun before the
session ended can create such a Pod, and each at most one (`LatePodsAreFew`).
Only such a round can take an Expired report back, and each at most once
(`LateReportsAreFew`). Both are proved for any number of replicas, failures and
crashes. And later rounds put it right, which `replicas` shows.

A Pod that has Failed leaves its session Provisioning until it expires:
`restartPolicy` is Never and a Pod that exists is not created again. At the
instant of expiry the proxy already denies while the controller still lets the
session run; `ModelProxy` has that instant.

## 6. What is not modelled

* Liveness where a name is used again by more than one controller process; see
  section 5.
* API calls that never return: client-go is used without a time limit, and one
  such call stops the controller. Fairness assumes an answer.
* The difference between the clocks of two processes.
* Text: redaction, names, commands, labels, headers, JSON.
* Authentication of users; signatures of tokens.
* What makes a request malformed (`rejectForbidden`, `Validate`): a request may
  be refused at any time. Health endpoints. `caskctl`'s one-shot commands,
  which make one request and print the answer; ApiServer has their server side.
* The resize messages of `docs/CLI_SPEC.md:96`: `caskctl` has no code that
  sends one. `ResizeQueue` takes them from any client of the gateway.
* Expiry in the in-memory mode: nothing enforces it there, and
  `MemoryServer` has no clock.
* Terminals beside the controller in one state space: both are large and meet
  in one place, what `closeWhenSessionStops` reads. The argument is made in two
  steps instead. `SessionEndClosesTerminal` assumes only that a session stops
  being ready for good, and `DeletionCompletes` and `ExpiryEnforced` give just
  that, since an Expired status is not ready (`StatusConsistent`).
* The chart, manifests, images and CI, but for what they say about replicas.

## 7. Plan

Done, in this order: `AgentSession`, `SessionController`, `SessionContract`,
their proofs; `ModelProxy` and its proof; `Terminal` and its proof; names used
twice (`live`); `EchoTerminal`, `Connect`, `SessionApi` with `ApiServer` and
`MemoryServer`, each with its proofs; `InMemory`; `ResizeQueue`.

Proofs without `NamesUsedOnce`, of `LatePodsAreFew`, of `ResizeQueue`, and of
`InMemory` from its halves came after that; last, `NamesLeftAlone` in the place
of `NamesUsedOnce`, `LateReportsAreFew`, `NobodyIsHeld` of both
backends and `PanicOnlyWhenEnding`.

What is left:

1. `MemoryServer` with names that come again, as `ApiServer` has them: its
   `Create` replaces the session of that name, so `SessionApi` would not hold,
   and what would is weaker.
2. Two controller processes and a name used again (section 6).
