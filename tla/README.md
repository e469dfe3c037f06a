# A TLA+ model of the Roblox MCP gateway

The repository is a gateway between MCP clients (an AI assistant speaking the
Model Context Protocol over HTTP) and Roblox Studio on a user's computer. A
**Bridge** on that computer keeps one WebSocket to the **gateway**; a tool call
that reaches the gateway is relayed over it to an MCP child process beside
Studio, and its answer travels back. The gateway also signs users in, pairs
Bridges with accounts, decides which may connect, and is an OAuth provider for
the clients.

This directory holds specifications of that program, the TLC configurations that
check them on small instances, and TLAPS proofs for every value of the
constants. `PROJECT.json` maps every definition to the lines of source it models.

    tlc -config MCPending.cfg MCPending        # a run (module and .cfg below)
    tlapm RelayProofs.tla                      # a proof module

## 1. The system: components, state, hard parts

Paths are relative to `src/`.

| component | source | state it keeps | operations | modelled in |
|---|---|---|---|---|
| Pending-request registry | `internal/mcpgateway/pending.go` | live entries, index by session and by device, a timer and a one-place channel per entry | Register, Associate, Resolve, CancelSession, FailDevice, the timer | `Pending` |
| Live connections (bridgehub) | `internal/bridgehub/registry.go`, `connection.go`, `handler.go` | device → connection, a bounded writer queue per connection, its read loop | Register (replaces), Disconnect, Send, CloseAll, the read and write loops, cleanup | `Hub` |
| Gateway relay | `internal/mcpgateway/relay.go` | one goroutine and one watcher goroutine per call | CallDetailed, HandleEnvelope, CancelSession | `Relay` (over `Pending` and `Hub`) |
| MCP server and admission | `internal/mcpgateway/server.go`, `auth.go`, `tools.go`, `internal/httpserver/ratelimit.go` | rate windows and in-flight slots per key, what each request holds | verify, allow, reserve, reauthorize, relay, release | `Limiter`, `Admission` |
| Shutdown and success audit | `internal/httpserver/server.go`, `internal/audit/service.go` | the work gate's requests, the stage of the shutdown, a bounded queue | admit, drain, fail, cancel, close; append, wake, drain | `Admission` |
| Sign-in and web sessions | `internal/robloxauth/`, `internal/session/` | login transactions in memory, binding cookies, session rows | Begin, Complete, Create, Validate, RevokeAll | `SignIn` |
| OAuth: authorization | `internal/mcpoauth/authorize.go`, `consent.go`, `registration.go` | client, grant, consent and code rows, authorize requests in flight | register, approve, remembered approval | `Consent` (over `SignIn`) |
| OAuth: tokens | `internal/mcpoauth/provider.go`, `internal/mysqlstore/oauth_store.go` | consumed codes, token pairs in families | exchange, rotate, revoke, reuse | `OAuth` (over `Consent`) |
| Account rows | `internal/mysqlstore/entitlement_store.go`, `dashboard_store.go`, `migrations/` | devices, credentials, trials, license slots | the transactions | `Accounts` |
| Enrollment (pairing) | `internal/device/enrollment.go`, `mysqlstore/device_store.go` | pairings in memory, code rows | Begin, Lookup, Approve, Exchange | `Enrollment` (over `Accounts`) |
| Bridge authentication | `internal/bridgehub/auth.go`, `handler.go` | the reads of an authentication under way | AuthenticateDigest, reauthLoop | `Access` (over `Accounts` and `Hub`) |
| Device administration | `internal/httpserver/api.go`, `admin.go` | handlers under way | revoke, restore, rotate, transfer, recover, extend, disconnect, connectors | `Access`, `Consent`, `OAuth` |
| Bridge: first run and files | `cmd/bridge/`, `internal/bridgeconfig/`, `bridgeapp/enroll.go`, the credential store | configuration file, credential file, the gateway's credentials of the device | wizard, pairing, save, load | `FirstRun` |
| Bridge: run | `internal/bridgeapp/remote.go` (RunRemote), `internal/statusui/` | status machine, session and child of the cycle | dial, bring-up, relay, reconnect, stop | `Lifecycle` (over `FirstRun`) |
| Bridge: relay loop | `internal/bridgeapp/remote.go`, `wsclient.go` | two correlation maps, the session, the inbound channel | relayLoop: forward, cancel, route, child and session failure | `BridgeRelay` |
| Managed MCP process | `internal/mcpprocess/process.go` | bounded `writes` and `responses` channels, stdin and stdout pipes | Send, writeLoop, readStdout, reap, Stop | `BridgeRelay` |
| Target routing, wire protocol, wiring, dashboard, tooling | see `PROJECT.json` | none that interacts | — | not modelled: section 6 |

How they interact. A connector's request passes the gate, the token check, the
limiter and the slots (`Admission`) and is relayed: `CallDetailed` registers an
entry in the pending registry, looks the device's connection up in the hub, arms
a watcher on it and enqueues a request; the connection's read loop hands the
device's answers to `HandleEnvelope`, which resolves the entry (`Relay`). On the
computer the relay loop translates the gateway's request ids to ids of its own,
writes to the child through a bounded channel and a pipe, and translates back
(`BridgeRelay`), for as long as a cycle of the run lasts (`Lifecycle`).
Dashboard and administration handlers commit a transaction and then (or before)
call `Registry.Disconnect`; a live connection also revalidates itself every
`ReauthInterval` (`Access`). Pairing writes the rows authentication reads, and
the file the Bridge reads (`Enrollment` on one side, `FirstRun` on the other).
A web session, a consent, a grant, a code and a token family each depend on the
one before (`SignIn`, `Consent`, `OAuth`).

What is hard, and what makes it right:

* **Pending registry.** An answer, a deadline timer, a session's end and a
  device's failure race to complete one entry, and the sweeps walk a copied list
  outside the lock. Right means: one outcome per request, always one, the indexes
  never hide a live entry, the bound holds.
* **Hub.** A device may have an old and a new connection at once; each is closed
  and cleaned up by another goroutine. Right means: an open connection is the
  registered one or somebody owes it a close; closed ones are forgotten.
* **Relay.** A call reads the registry twice (watcher, then Send) and may lose its
  device in between; it may be abandoned, time out, be disconnected or answered.
  Right means: it returns, a refusal means that nothing was delivered, work that
  was given up is cancelled on the device.
* **Admission and shutdown.** Two counters per request are taken one after the
  other, the clock is read before the lock, and a shutdown overtakes requests
  that may hang. Right means: limits hold, every slot comes back once, no request
  escapes the cancellation, an event that was queued is written, the shutdown
  ends.
* **Sign-in and OAuth.** Every handler reads, lets go, and decides again in a
  transaction, while the user signs out, approves again, moves or revokes the
  grant, and other requests hold the same code or token. Right means: a login
  buys one session for the browser that began it; a code is backed by what is
  approved at that moment and buys one pair; a family of tokens is a line, and
  dies as a whole.
* **Accounts and pairing.** Code consumption and binding are two transactions,
  memory is lost in a restart, exchanges overlap. Right means: one credential per
  code, for the approver and the claimed device; one live credential per device;
  none on a revoked one.
* **Access.** An authentication is five separate reads, a revocation is a commit
  and a disconnect, a transfer a disconnect and a commit. Right means: no
  connection outlives its permission for good.
* **Bridge.** One goroutine both drains the child's answers and writes to it,
  through bounded channels, and the child may make requests of its own; around it
  a run starts, crashes, is stopped and resumes from two files. Right means: two
  calls never get each other's answers, and a cancelled one gets none; a dead
  session or child ends the cycle; a stop ends the run; the machine keeps its
  identity.

## 2. The modules

`Ids` declares the device identifiers and `None`. One module per component:

* `Pending` — one action per lock region of `pending.go`: `Register` (with
  `ArmTimer`, inside the lock), `Associate`, `Resolve`, `TimerFire` and
  `TimerDeliver` (the timer's goroutine starts, then takes the lock),
  `CancelSession` and `FailDevice` (collect under the lock into `sweepLeft`),
  `SweepNext` (one delivery of the walk outside the lock), `SendResult` (the send
  on the one-place channel, after unlock). `Deliver` is `deliver`, `Remove` is
  `removeLocked`.
* `OneShot` — what the registry promises of one request: opened, then one
  outcome that stays. `Pending` implements it with `outcome <- result`.
* `Hub` — `Connect` (Register and the replacement), `Start` (closing what was
  replaced, start of the loops), `Disconnect` and `FinishDisconnect` (the delete
  under the lock, the close after it), the read loop (`Hello`, `Read`, `Handled`,
  `ReadFails`, `Leave`), the writer (`Send`, `Write`, `WriteFails`). What a
  device puts on the wire is the environment (`DeviceSends`).
* `Relay` EXTENDS both: `pc[r]` is where `CallDetailed` stands for request r, and
  each of its calls into a component conjoins that component's action. The watcher
  (`WatcherFire`, `WatcherStop`) and the device are processes of their own.
* `Limiter` — `MCPLimiter`: each method is one action under its mutex, with the
  clock reading as an argument that may be any time at all. `granted` is a
  history variable: how often a key was allowed in a window.
* `Admission` EXTENDS `Limiter`: `at[r]` is the step a request takes next,
  `holds[r]` the release functions it has. The drain of the audit queue and
  `Server.Shutdown` (`stage`) are processes of their own. The relay is only its
  outcome.
* `SignIn` — the login transaction in memory, the browser's binding cookie and
  the callback between its provider call, its identity transaction and its
  session transaction.
* `Consent` EXTENDS `SignIn`: `authorize[a]` is what an authorize request holds
  in its local variables between its reads and its transaction
  (`AuthorizeRemembered` then `IssueRememberedCode`; `ApproveConsent` then
  `RecordApproval`). `AccountChanges` is what modules `Accounts` and `Access` do
  to the account, seen as the set of targets a code may be issued for.
* `OAuth` EXTENDS `Consent`: `request[x]` is a token or revocation request and
  the store call it makes next; fosite's order of the calls is the environment,
  taken from what the provider's methods are called for. `RevokeGrant` and
  `RevokeFamily` are the two transactions every revocation comes down to. A
  recovery (`recovering`, `toRevoke`) is the administrator's.
* `Accounts` — the rows and one action per transaction: each transaction locks
  what it decides on, so it is atomic, and a failing one changes nothing. No
  specification of its own; the next two use it.
* `Enrollment` EXTENDS `Accounts`: the memory (`pending`), the code table
  (`codes`) and the exchanges in flight with the local variables they carry over
  the unlock (`exchange`). `issued` is a history variable: the code a
  credential was minted for, which the code records as the audit correlation.
* `Access` EXTENDS `Accounts` and `Hub`: `auth[c]` is the next read of c's
  authentication, first at the HTTP upgrade and then in the reauthentication
  loop; `owed`, `transfer` and `recovery` are handlers between their steps.
  `overtaken` is a history variable.
* `BridgeRelay` — one connected cycle of the Bridge with its child process.
  `loop` is where the relay goroutine stands, including inside `child.Send`;
  `writes`, `responses`, `stdin` and `stdout` are bounded queues. Nothing of a
  cycle survives it, so a reconnect is a new behaviour.
* `FirstRun` — the machine's configuration and credential files, the wizard, the
  enroll mode, and, of the gateway, how often a device's credential was minted
  and whether the last one stands. `at` is the step of the running process.
* `Lifecycle` EXTENDS `FirstRun`: a run of the Bridge after its start-up, cycle
  by cycle, with the status machine. The frames of a cycle are `BridgeRelay`'s;
  here a `child.Send` of the loop is a step that something may or may not end
  (`Dispatch`, `FrameIsTaken`, `SendFails`).

`MC*` modules give TLC the constants that are not model values. `*Proofs`
modules hold theorems, each about the module it is named for and the ones that
module extends: `RelayProofs` about `Pending`, `Hub` and `Relay`,
`AdmissionProofs` about `Limiter` too, `OAuthProofs` about `SignIn` and
`Consent` too, `LifecycleProofs` about `FirstRun` too; `AccessProofs` extends
`AccountsProofs`. Definitions named `X_Y` beside a definition `X` are mutants:
the action with one plausible bug, used to show that a property would notice.

## 3. What the runs check

| run | instance | shows |
|---|---|---|
| `pending` | 3 requests, 1 session, 1 device, 1 sweeper, a registry of 2 | `ExactlyOnce`, `RegistryConsistent` (indexes, bound, no entry lost); `ImplementsOneShot`, liveness included |
| `relay_reconnect` | 1 call, 2 connections of its device, a session that may end, a free sweeper | `LiveIsCurrent`, `ConnectionsEnd`, `CallsEnd`, `AbandonedWorkStops` |
| `relay_two_calls` | 2 calls to 2 devices that may be disconnected, 1 connection, queue and registry of one place | `RefusedMeansUndelivered`, `OnlyAbandonedCallsLinger`, `DeviceFailedMeansClosed` |
| `bridge_relay` | 2 requests with cancels, one may expire, a child that makes requests under the first local id, one-place channels and pipes | `Correlated`, `NeverCollide`, `NoAnswerAfterCancel`, `CycleEnds` |
| `enrollment` | 2 users, devices, computers, pairings and exchanges, 3 credentials | `CredentialsHold` (one live credential, none on a revoked device), `CodeHolds` (one credential per code, as approved) |
| `access` | 1 licensed user with a trial, 2 devices, 1 slot, 2 credentials, 1 connection, which registers once | `RevokedIsOffline`, `LostPermissionIsClosed` |
| `oauth` | 1 browser, login, client, device, Studio, grant and authorize request; 2 sessions, 2 codes, 3 pairs, 2 token requests | `LoginBuysOneSession`, `CodeBuysOnePair`, `FamilyIsALine`, `RevokedFamilyIsDead`, `NewCodeIsBacked` |
| `admission` | 2 requests for 2 grants of 1 user, one call per window, one in flight, 2 tracked keys, 3 windows, a queue of 1 | `LimitsHold`, `SlotsMatchCalls`, `StragglersCancelled`, `EventsAreDrained`, `ShutdownEnds` |
| `lifecycle` | 2 device ids, each paired at most twice | `IdentityIsKept`, `StatusIsLegal`, `StopReturns`, `EndsAreNoticed` |
| `oauth_recovery` | as `oauth`, one of everything | **violated**: finding 1 |
| `bridge_wedge` | 1 request and its cancel | **violated**: finding 2 |
| `first_run_pairing` | as `lifecycle`, safety only | **violated**: finding 3 |

Every run that passes also checks the type invariant of its module.

### Bounds and why they are enough

Two completers are needed for each race in `Pending`, and the third request
finds the registry full while two others are live. Two connections give every
relation of an old and a new one. In the relay, two calls and one place in the
queue give both orders of admission and the full queue; the reconnection run has
one call because its second is played by the free sweeper `w1`, which may fail
or cancel it at any moment. Disconnections by hand (`Disconnect`) double that
run's time and are left to `relay_two_calls` and `access`: that a hand-closed
connection is forgotten (`ConnectionsEnd`) is therefore not checked, only that
its entry goes first and that it is closed (`LiveIsCurrent`, proved;
`LostPermissionIsClosed`). With two devices and one connection, one call is
always to a device whose end the other must not feel. The child's own requests
carry the first local id, the one that both calls may be given first. Channels
and pipes of one place fill and drain in the fewest steps; the wedge needs
nothing longer. In `enrollment`, two exchanges of one code, of two codes of one
user, and of two users for one computer all occur; the third credential is for
re-pairing or rotation. `access` has a single connection because two do not
finish in reasonable time: what two connections of a device do to each other is
checked in `relay_reconnect`, and the properties here speak of one connection at
a time.

In `oauth` two requests may hold the same code, the same refresh token, or one
of each family; three pairs are a family of two and a second family, or one line
of three, which is what reuse of an old token after two rotations needs. A second
grant or client would only add rows that no transaction of the first touches. In
`admission` two requests share the user's key and have different grants, so the
one refused for the user has a grant's slot to give back; two keys fill the
tables; three windows and a clock that may be read late or set back give every
relation of a reading to a stored window. In `lifecycle` the second device id
appears when the operator deletes the configuration, the second mint when a
device is paired again.

Named bounds, all of which only remove environment steps: `Expirable` (requests
whose deadline may pass), `Disconnectable` (devices an operator disconnects),
`InboxBound` (frames of a device on the wire), `Managed` (devices that are
administered), `Sweepers` (goroutines that sweep), `MaxTime` (the clock),
`MaxMints` (pairings of a device id), `MaxTransactions` (logins in memory; this
one is the code's own), `ChildIds` (ids of requests the child itself makes).

### Fairness

`Pending`: an armed timer fires and its function runs, a goroutine that owes
deliveries makes them (Go's runtime and scheduler). No fairness on answers or
registrations. `Hub`: a handler that registered its connection goes on, a
disconnecting goroutine closes, cleanup runs; a read on a closed connection fails
*strongly* fairly, because a read may also return a frame that had already
arrived. `Relay`: each call's goroutine, its watcher and a connection's loops
progress; the timer is fair through `TimerDeliver` once it has fired; a device
receives what is on an open connection, but nothing forces it to answer.
`BridgeRelay`: each goroutine progresses; the cases of a Go `select` that stay
ready are strongly fair, since the runtime picks among ready cases at random.
A child that reads its stdin at all is assumed to go on doing so (`ChildReads`).
`Access`: the reauthentication ticker of a live connection fires and its reads
return (an answer or an error); this needs `ReauthInterval > 0`. Nobody has to
connect, pair, answer or administer. `Admission`: the goroutine that was woken
drains, and the shutdown takes its next stage, each wait of it being bounded by a
window; a request may hang for ever. `Lifecycle`: a run's own steps are taken and
an exited child is reaped; the relay loop's `select` takes an arm that is ready
again and again; the loop's `child.Send` is *not* fair, since nothing behind it
ends it. `Enrollment` and `OAuth` are checked for safety only: each of their
requests may stop between any two steps.

## 4. What is proved

Every safety property that a passing run checks, invariant or action property, is
also a theorem: it holds for every value of the constants, from the named
assumptions of the modules only (`None` is not an identifier or a row; bounds and
queue sizes are positive; `Outcomes` does not contain the empty outcome; what is
counted is finite). Each is read off an inductive invariant, and each of these
was checked by TLC on the instances of section 3 before it was proved.

* `RelayProofs`, the registry: `PendingInv`. `ExactlyOnce` alone is not inductive:
  a sweeper with work left must hold a cause (`SweepersHaveCause`), only
  registrations have a device (`AssociatedIsRegistered`), and the timer of a live
  entry is armed or fired (`DeadlineArmed`). Theorems: the type invariant,
  `ExactlyOnce`, the parts of `RegistryConsistent` and their conjunction, and the
  safety part of the refinement of `OneShot`.
* `RelayProofs`, the connections: `HubInv`. `LiveIsCurrent` needs that the registry
  files a connection under its own device (`FiledUnderDevice`) and that only a
  closed connection leaves its read loop (`LeftIsClosed`).
* `RelayProofs`, relayed calls: a relayed call uses the registry as `Pending`'s
  goroutines do, by its actions (`RegistryOfCalls`), so its theorems carry over;
  `RelayTypeOK` and `OnlyAbandonedCallsLinger` besides. `RefusedMeansUndelivered`
  rests on `UndeliveredInv`: a refusal is final, is given before the request is
  handed to a connection, and never comes through the registry's outcome; so the
  request of a refused call is in no writer queue. `DeviceFailedMeansClosed` needs
  (`LostInv`) that a sweep for a failed device, and every result it owes, comes
  after a close of a connection of that device, and that a watcher watches its
  call's device.
* `AccountsProofs`: each transaction preserves `AccountsInv`. The interesting one
  is the first pairing, which neither revokes credentials nor reads the status of
  the row it finds: it is right because every device's owner has a trial
  (`DeviceHasTrial`) and every credential a row (`CredHasDevice`), so a user
  without a trial has neither.
* `EnrollmentProofs`: `EnrollmentInv`. `OneCredentialPerCode` needs that an
  exchange about to bind has consumed the row, alone, and that nothing was minted
  for the code yet (`BindingAlone`), and that a minted credential left its row
  consumed (`IssuedRow`); `BoughtAsApproved` needs that what an exchange carries
  over the unlock is what memory and table say (`ExchangeAgrees`,
  `MemoryAgrees`). Theorems: both, their conjunction `CodeHolds`, and
  `CredentialsHold`.
* `AccessProofs`: `AccessInv`. `RevokedIsOffline` is about a registration at the
  end of reads that were true earlier. It needs that a revoked device holds no
  credential (`AccountsInv`), so that no authentication of it begins, that the
  ones under way at the commit are known (`LateIsOvertaken`, `AuthHasRow`), and
  that the registry files connections under their device. Theorems besides: the
  type invariant, and `CredentialsHold` while devices connect.
* `BridgeProofs`: `CycleInv` says that a request is correlated only after it was
  dispatched and before it is answered or cancelled (`CorrelationInv`,
  `CancelledInv`), and that the local ids suffice (`IdsSuffice`: one for each
  dispatched request). From it: the type invariant, which includes the bounds of
  every queue, and `NoAnswerAfterCancel`. `NeverCollide` and `Correlated` need
  that every frame that stems from a gateway request names the request its id
  stands for (`CallsAgree`), while a frame of the child's own making may carry any
  id (`IsOwn`); and `Correlated` also that the frame of a dispatch is in one place
  between loop and child (`HandOver`) and no answer to it exists before the writer
  reported it (`PendingCallInv`), for the loop correlates a call only after it was
  written. Nothing is assumed of the ids the child uses. So the theorem allows, as
  the code does, that a request of the child's own takes an answer's place
  (section 5), and `Correlated` leaves out the ids the child uses itself.
* `OAuthProofs`: `OAuthInv`, a part for each module. A login is in the memory,
  carried by one callback, or spent (`LoginIsOnce`); a consumed code is in the
  hands of one request or has bought its one root (`CodeIsSpentOnce`); the tokens
  of a family are of one grant, and each but the root took the place of a used one
  (`FamilyTree`). Theorems: the type invariant, `LoginBuysOneSession`,
  `CodeBuysOnePair`, `FamilyIsALine`, `RevokedFamilyIsDead`, and the action
  property `NewCodeIsBacked`.
* `AdmissionProofs`: `AdmissionInv`. `LimitsHold` needs that the limiter is in the
  window of its latest reading and that a bucket has counted all its key was
  allowed there (`WindowsInOrder`): a clock set back cannot reopen a window.
  `SlotsMatchCalls` counts the requests that hold a key's slot; what a request
  holds follows from the step it is at (`HoldsBySteps`). `StragglersCancelled`
  needs what the stage of the shutdown says of the gate (`GateInv`).
* `LifecycleProofs`: `LifecycleInv`. `StatusIsLegal` needs the status each step is
  taken in (`StatusAt`); `IdentityIsKept` that the configuration names a device
  before the gateway hears of it (`ConfigIsFirst`), wherever the process dies.

Model-checked only: all liveness (`ConnectionsEnd`, `CallsEnd`,
`AbandonedWorkStops`, `CycleEnds`, `LostPermissionIsClosed`, `EventsAreDrained`,
`ShutdownEnds`, `StopReturns`, `EndsAreNoticed`) and the liveness half of
`ImplementsOneShot`: the prover does not reason about fairness and ENABLED. No
definition is recursive over data, so no proof needs induction other than over
steps.

`DeviceHasTrial` holds of rows that pairing creates. A device provisioned from
outside for a user without a trial (`CreateDevice`, which only tests call) would
break it: `Access`, whose devices are provisioned, starts every user with a trial.

## 5. Findings

1. `internal/httpserver/admin.go:583` (run `oauth_recovery`): a recovery revokes
   the connectors it listed first and ends the sessions later, in another
   transaction; an approval that commits in between is on no list and its grant
   survives, with the code and the tokens the code buys.
2. `internal/bridgeapp/remote.go:631` (run `bridge_wedge`): when the session
   closes while the loop waits in `child.Send`, and the child, its stdout pipe and
   the responses channel are full, nobody drains: the cycle never ends.
3. `cmd/bridge/firstrun.go:107` (run `first_run_pairing`): a pairing that the
   gateway committed and whose answer was lost is repeated only when there is no
   credential file; where an earlier pairing of the same device left one (enroll
   mode, then the wizard), the next smart run dials with that credential, which no
   longer stands, and is rejected for good, until the file is deleted by hand.

Seen on the way, with no run of their own:

* `remote.go:672`: the loop routes what the child sends by its id alone, so a
  request of the child's own under the local id of a call in flight is forwarded
  as that call's response, and the real one is discarded, although the comments
  of `relayLoop` and `routeChildFrame` (`remote.go:521`, `659`) speak of
  responses only. `bridge_relay` has such a child, and `NeverCollide` states what
  the code does guarantee: the answer of another call is never taken. With the
  frame `<<None>>` removed from it (an answer is the child's answer to this very
  call) `NeverCollide` fails in that run, and holds with `ChildIds = {}`.
* `relay.go:210`: the watcher of one call fails every pending request of the
  device, so the close of a superseded connection fails a call that was sent on
  the new one, which is open and current; its request is delivered nevertheless
  and never cancelled. What does hold is `DeviceFailedMeansClosed`.
* `admin.go:509`: a transfer disconnects the old device before the slot moves; a
  Bridge admitted by the slot may register in between, and speaks for the slot its
  device has lost until the next revalidation. The slot may also move to a device
  that was revoked meanwhile, which grants nothing.
* `relay.go:306` calls an abandoned correlation retired locally; its entry stays
  until the deadline.
* Replaying a code after its grant was moved to another target does not revoke
  the tokens it bought; tokens issued by a request in flight during a revocation
  are live again after a new approval of the same grant; `RevokeConnector` skips
  a grant that a family's revocation has revoked already; a sign-in callback in
  flight during a recovery opens a session after it.
* `server.go:358` says that nothing queries the pool after it closes; the audit
  drain is neither stopped nor flushed (`FlushSuccessAudit` has no caller), so
  success events still queued at exit are lost, and calls that outlive their
  cancellation still write usage.
* `remote.go:228`: the attempt counter is reset by each successful dial, so
  against a gateway that accepts and drops the backoff never grows. A child that
  exits while bring-up sends its first frame ends the run as a fatal error,
  although an exited child is otherwise retried.
* `exec.CommandContext` kills the child at cancellation, before the graceful stop
  can run. `promptLine` does not see a cancellation, and `runSmart` reports it as
  a failure. A credential file is not written atomically: a torn one makes every
  start fail until it is deleted.
* `RunLocal`, `sessionMiddleware`, `handleToolsCall` and `handleToolsList` are
  not reached by the program.

## 6. Not modelled, and why

* *Target routing* (`tools.go`, `relay.go` resolution and status snapshots): which
  of several targets a call goes to is a pure choice over a snapshot; `Relay`
  leaves it open whether a target is found (`CallUnresolved`).
* *Telemetry worker, dashboards, exports*: best effort rows that no decision reads.
* *Token buckets of the HTTP endpoints* (`ratelimit.go`, second half): arithmetic
  of one mutex-protected struct with no interaction.
* *Wire protocol, formats, digests, encodings, templates*: data, abstracted to
  what the properties tell apart.
* *Migrations, wiring, tooling, test doubles*: no state of their own at run time.
* *RunLocal* is not reached by the command; the Windows service wrapper is
  modelled as a run that is stopped.

Within the modelled components: a failing write to a living child's stdin, a
commit that succeeds without being acknowledged (other than in `FirstRun`), the
provider-subject key of a trial, credential expiry (no statement sets it),
provisioning of licenses and slots (no caller in the program).

What the models take for granted: a store transaction is atomic, for InnoDB locks
the rows (and the gaps) it decides on; `revokeByRequestID`'s look-up of a family and
its revocation are one step (rows of a family never leave it, so the look-up cannot
go stale; a grant's look-up and revocation are two, `FindGrantOfCode` and
`RevokeByCode`); fosite asks for such a revocation once or twice, and a request of
`OAuth` may ask again, as another replay would; an unused code or a refresh token
that expires only ends the request that presents it, so its lifetime is no
variable (`RequestEnds`), and neither is the deadline that `forwardRequest` looks
at once (`DropExpired`); the enroll mode writes the credential to the path the
smart flow reads (`BRIDGE_CREDENTIAL_PATH`); one account in `OAuth`, since no
transaction touches another's rows; in `Admission` the relay is its outcome only,
and in `Lifecycle` the frames are.

## 7. Plan: what to prove next

The models are complete as far as section 6 allows, and the safety properties of
the runs are proved. That a composed module moves its parts only by their own
actions is the way it is written, and needs no theorem. What is left to prove is
what only holds over many steps:

1. Facts that last, as action properties: a request's outcome in `Relay`, a spent
   code, a used or revoked token, a revoked credential, a closed connection, a
   cancelled call never come back.
2. Each cycle of `Lifecycle` promises its run what `BridgeRelay` shows of a cycle.
