# A TLA+ verification of vvagent

vvagent is a mesh in which coding agents on one machine, and on machines
paired over a bridge, send each other requests, notices and responses. There
is no server: every client (the command line, an MCP server inside a provider,
a watcher, a bridge session, a Python program) opens the same SQLite database
and runs operations of `agent-mesh-store` on it. Correctness is therefore a
matter of what several processes do to shared tables, in transactions that
each cover only a part of an operation.

## Parts of the system

| part | state it keeps | operations | what makes it correct |
|---|---|---|---|
| policy gates (`agent-mesh-core/src/lib.rs`) | none; a policy per endpoint is stored by the store | `Policy::evaluate` | a sender passes exactly when the rule grants what it has; nothing local leaks to peers |
| mailbox store (`agent-mesh-store/src/lib.rs`) | `endpoint`, `message`, `idempotency`, `audit` tables | `bind`, `unbind`, `authenticate`, `ensure_local_user`, `set_policy`, `send`, `claim`, `respond`, `cancel`, `interrupt_target`, `confirm_interrupt`, `sweep` | exactly one message per key, exact counters, order, claims held by one owner, resolutions final, a reserve for answers |
| peers | `peer` (with its lease columns) and `proxy` tables | `pin_peer`, `acquire_peer_lease`, `release_peer_lease`, `ensure_proxy`, `retire_peer` | one session per peer, a retired peer is silent, a proxy is only an outbox |
| bridge (`vvagent/src/bridge.rs`, store) | origin ids, forwarded and outbound marks, a connection | `outbound`, `forwarded`, `ingest`, `settle_outbound`, `cancellations_to_forward`, `confirm_remote_cancel` | exactly once across broken connections, no answer lost, no cancelled work reported as done |
| activation and watcher (`vvagent/src/watch.rs`, store) | activation counts and times per message, per-peer budget | `activatable`, `record_activation`, `activation_budget_left` | budgets hold with several watchers; work is eventually announced |
| groups | `mesh_group`, `group_member`, `group_send` tables | `set_group`, `open_group_send`, `attach_to_group_send` | a group send reaches each member once; a wait covers exactly its members |
| name resolution (`agent-mesh-core`: selectors, `address.rs`) | none | `resolve`, address parsing and matching | never guesses between two candidates |
| resolution rendezvous (`vvagent/src/remote.rs`, store) | `resolution` table | `request_resolution`, `answer_resolution`, `take_resolution` | an answer reaches the client that asked, once |
| file attachments (`vvagent/src/attach.rs`) | `attachment` table, files on two hosts | `attach`, `record_attachment`, `verify` | an accepted reference names bytes that exist, where the window led; nothing copied is forgotten |
| layout reconciliation (`vvagent/src/reconcile.rs`) | the address column, a child process | `reconcile::run`, `readdress`, `bind`, `set_address` | addresses follow windows, and never a window the agent was not in |
| wire (`agent-mesh-core/src/bridge.rs`, reader thread of `vvagent/src/bridge.rs`) | decoder buffer, bounded channel | `push`, `next_hello`, `next_frame`, `finish` | frames in order, truncation noticed, no thread stuck |
| clients (`main.rs`, `mcp.rs`, `python-bindings`) | a caller obtained once | sequences of store calls | retries and restarts are harmless |

They interact through the database only, except that a bridge session talks to
the session on the other host, that cancellation and the watcher call a
provider between two transactions, and that attaching and reconciling call a
program of the runtime.

What is hard here: operations that read outside the transaction they write in
(`claim`, `respond`, `cancel`, `ingest`, group edits, the watcher's budgets);
crashes between two transactions of one operation; rebinding an endpoint while
its old process is still running; leases, of claims and of peers, that lapse
while their owner works; receipts and answers lost with a connection, and the
resends after it; two connections to one peer at once; threads and processes
that wait for each other through full pipes; counters cached in one table about
the rows of another; limits at their boundary; policies, names and layouts that
change between being read and being used. PROJECT.json lists each of these with
its line and the properties that cover it.

## Modules

| module | models |
|---|---|
| `MeshPolicy` | `Policy::evaluate` as operators, and a reference: a rule is a set of grounds, a sender passes when it has one of them |
| `MeshGate`, `MCMeshGate` | one question put to one gate; all arguments in play |
| `Mailbox`, `MCMailbox` | the store of one host and the client processes using it |
| `Peers`, `MCPeers` | the `peer` and `proxy` tables of one store: pins, trust, leases, proxies, retirement |
| `RemoteCall` | abstract: what asking an agent of another host promises |
| `Bridge`, `MCBridge` | two stores and the sessions between them, over connections that break |
| `Wire`, `MCWire` | one direction of a connection as bytes: decoder, reader thread, channel |
| `Rendezvous`, `MCRendezvous` | asking a peer what a name means there now |
| `Watcher`, `MCWatcher` | waking agents: candidates, budgets, turns, records |
| `Groups`, `MCGroups` | editing a group, fanning out to it, waiting for a quorum |
| `Attach`, `MCAttach` | copying files through a window for a message, recording and reusing copies |
| `Address` | addresses as operators |
| `Naming`, `MCNaming` | selectors and `resolve`, and a reference that ranks the matches |
| `Reconcile`, `MCReconcile` | keeping addresses in step with a layout |
| `EdgeProofs` | proofs about the gates, the wire, the reconciliation and the names |
| `MailboxProofs` | proofs about the store: typing, what a step may do to mail and to processes, and all its safety properties |
| `BridgeProofs` | proofs about the bridge, and that it implements `RemoteCall` |
| `PeersProofs`, `RendezvousProofs`, `WatcherProofs`, `GroupsProofs`, `AttachProofs` | proofs about these components |

`Naming` and `Reconcile` extend `Address`; `Bridge` instantiates `RemoteCall`
under a refinement mapping. The other modules stand alone: what one needs of
another's component it states as the steps that component can take (a recipient
in `Bridge` is any agent that claims, answers, stops and lapses as `Mailbox`
says agents do).

### How Mailbox corresponds to the code

A step is one SQLite transaction (all of them `BEGIN IMMEDIATE`), or one read
outside a transaction whose result is used later. `op[p]` holds the local
variables that survive from one step of process `p` to the next.

| code | actions |
|---|---|
| `bind`, `unbind`, `set_policy` | `Bind`, `Unbind`, `SetPolicy` |
| `authenticate` of the client, with or without a token | `Authenticate`, `LocalUser` |
| `send` | `Send` |
| `claim` | `ClaimCheck` (authority, clock), `ClaimTx` |
| `respond` | `RespondCheck` (authority, request), `RespondSend`, `RespondRetire` |
| the `cancel` command | `CancelCheck`, `CancelTx`, `InterruptTarget`, `Abort` (the provider), `ConfirmInterrupt` |
| `sweep` | `Sweep` |
| process death, the clock | `Exit`, `Tick` |

Choices of abstraction:

* `online` is true exactly when `incarnation_id` is not null in every write of
  the table, so it is not a variable. An endpoint is its (alias, instance)
  pair, which is what `bind` looks up. Runtime instance and address are
  constants of an endpoint here.
* Text, subject, refs and outcome are one `Body`; its bytes are what
  `charged_bytes` charges. `Digest` keeps the fields the real digest keeps: the
  lifetime is not one of them.
* Generated ids are only compared, so a fresh one is any unused one. `MsgId`
  and `Incarnation` bound how many there are.
* `created_at` of the message stands for the audit row of the accepted send,
  which the same transaction writes with the same time and recipient; the rate
  limit counts those rows.
* Refusals and replays of `send` change no row but the audit and are not
  steps. In `respond` they are, because they decide how it goes on.
* `send` and `claim` read the clock before they wait for the write lock. In
  `claim` that is a step of its own, with the authority check; in `send`, which
  reads nothing else early, the time is any that has passed (`ClockRead`).
* The reads of `respond` before its first transaction are one step. They are
  several queries in the code; a request never leaves a terminal state and its
  other columns are never written, so reading it later shows nothing an
  earlier read would not have allowed.
* Two bounds appear in guards: `MaxTime` on the clock and `ClaimHorizon` on
  the time at which a claim starts.
* Mail from a peer, delivery over a bridge (`delivered`) and activation are
  other components: in this module nobody enters `delivered` or
  `undeliverable`, though every query treats them as the code does.

### How the other modules correspond to the code

As in `Mailbox`, a step is a transaction, a read whose result is used later, or
one call to something outside; what a process remembers between two steps is a
field of its record. Actions carry the names of the functions they model.

`Peers`. `peer`, `proxy` are the tables; `out` and `inbox` the mail that goes
to and comes from peers; `sess` a bridge process, `draft` a sender that resolved
a proxy and has not sent yet; `given` remembers which hosts the operator ever
trusted. `Hello`, `IdentifyDial`, `ServeKnown`, `ServePin`, `ServeShort` are
`identify` by both roles, with `Pins` as `pin_peer`; `Acquire`, `Renew`,
`Release`, `LeaseLapses` the lease; `ClaimCheck`/`ClaimOut`,
`IngestProxy`/`IngestInsert` the checks and the transactions that follow them;
`Retire` is `retire_peer`.

`Bridge`. `mail[h][m]` is the state of message `m`'s row in the store of host
`h`: the outbox row at its home, the mailbox row at its destination. `owner` is
the outbox claim, `copies` counts how many rows the destination ever inserted,
`lease` the lease on each host, `sess[c][h]` the session at each end of
connection `c` and `wire[c][h]` the frames on the way to it. `resent` remembers
the messages that were put back on the outbox while the connection they were
claimed for was in use, so that a second copy may travel beside the first. `ForwardCheck` then
`Forward` are a turn of `forward_outbound` (`ForwardFailed` when the message
cannot be expressed or its lifetime is over), `IngestCheck` then `Ingest`,
`IngestReplay`, `IngestRefuse` or `IngestResponse` and `RetireRequest` are
`ingest` with the two transactions of `respond`, `Receipt` the two receipts,
`ForwardCancel`, `HandleCancel`, `HandleCancelState` cancellation. `Die`,
`Break`, `Hangup`, `LeaseLapses` are the faults. A message that is
undeliverable because it expired before it was forwarded has the state
`too_late`, since the repository promises other things of refusals than of
expiry.

`RemoteCall` is what this amounts to for an agent: an asker's side, a worker's
side and one answer per request, each moving forward only. The refinement maps
the home row to the asker, the destination row to the worker, and the rows of
the response to the answer. Note what it does *not* promise: an asker may be
told `cancelled` while work goes on (`CancelledMeansStopped`, below).

`Wire` looks at one direction of a connection as bytes: positions in a stream,
with the decoder's window as two of them, and the reader thread's bounded
channel to the session.

`Rendezvous`. `row` is the `resolution` table with ids in the order of its
AUTOINCREMENT, `client` a `vvagent send` in `ask`, `meant[c]` every agent the
name has meant since the client asked. `CheckLive` and `Insert` are
`request_resolution`, `TakeRead` and `TakeDelete` `take_resolution`.

`Watcher`. `List` is `activatable`, then per candidate `Refuse`, `ReadBudget`,
`ReadPeerBudget`, `RateLimited`, an activation, and `Activated` for the record.
An activation starts a turn and is told so (`ActivateStarts`), starts one while
its answer is late, cut or lost and is recorded as unavailable
(`ActivateUnanswered`: the read timeout and the incomplete body of an HTTP
exchange, the control program that is killed), or starts none
(`ActivateFails`). `turns` is what really happened, with the turns the watcher
was `told` of apart from the `silent` ones, `audit` what was recorded; time is
kept as ages, capped where no comparison can tell them apart.

`Groups`. `FanOut`, `OpenGroupSend`, `SendAccepted` or `SendRejected`,
`AttachToGroupSend` are `send --group`; `AddRead` or `RemoveRead` and then
`SetGroup` an edit; `Wait`, `Poll`, `Timeout` the waiting client. `wished` is
the membership the edits asked for.

`Attach`. `ReadFile`, `Carrier`, `Lookup`, `DropFile`, `RecordAttachment`,
`Send` are the steps of one run, each with its failure; `known` is every path
that a record, an error or a message ever named. A window has a vvssh session
to one peer at a time (`session`); `Acquire` puts the window of a bridge into
its peer's lease, `Carrier` reads it there once, and every copy of the run then
goes to whichever peer the window's session leads to at that moment
(`Commits`), since `drop_file` is given a window number and compares only the
size and digest of what arrived. `copy.same` is history: whether the session
was still the one the bridge ran over.

`Naming`, `Address`. `Matches`, `Others`, `Mine`, `Nearest` are the numbered
steps of `resolve`; the reference ranks matches by a triple and takes the best.
An address is a function from levels to indexes with 0 for a level that is left
out, which is what `satisfies` and `shared_prefix` see of it. A word is a
sequence of segments or an alias, so that one word can be both.

`Reconcile`. `Spawn`, `Deadline`, `Capture` are `capture`, with the child's
output pipe; `ListEndpoints` and `SetAddress` the correction from what was
captured and listed earlier. `Bind` is `store.bind`, first or again, in any item,
and overwrites the column; `ReaddressList` and `ReaddressSet` are the two store
calls of `readdress`. An item is a number that the runtime may give to a new
window after a restart (`Reopen`). A pass and a readdress write by endpoint id
what they decided before, so an agent that is bound in another window in between
gets the place of the one it left, and keeps it: `home` is where it was last
bound, `owed` the items whose place was on its way to it at that moment, and the
two together (`MayBeIn`) are what the properties allow.

## Runs

| run | shows | bounds, and why they are enough |
|---|---|---|
| `gate` | `VerdictMatchesGrounds`, `WideningNeverRefuses`: `evaluate` agrees with the reference for every rule, scope, principal and address situation, and widening a rule never refuses | one sender, two instances, two spaces plus the two ways of having none; gates read only their own rule, so the rules of a policy are equal |
| `mail_quota` | `TypeOK`, `ReserveForResponses`, `OneMessagePerKey`, `RateRespected`, `ResponsesAuthentic`, `NoSilentEviction`, `OldestVisibleFirst`, `LapsedClaimsReturn`: the limits of a mailbox and the order in it | two messages, bodies of one and two bytes, a limit of two messages and two bytes with a reserve of one and one, one message a minute, a policy that hides the mailbox, and responses built by library callers: full, exactly full and one over occur in count, bytes and rate. Clock to 1, claims start at 0, so every lease can lapse within the bound |
| `mail_claims` | `AtMostOneResponse`, `CountersExact`, `ClaimsAreNotStolen`, `TerminalIsFinal`, `OnlyLiveOwnerIsStopped`: what processes of one endpoint do to each other's work | three messages (a request, a notice, answers with two texts), an asker and two workers that may crash anywhere, two incarnations, leases and a lifetime of 1 on a clock to 1, so that lapse and expiry race with answers |
| `bridge` | `LandsOnce`, `ReceiptMeansCommit`, `UndeliverableNeverLanded`, `ConfirmedCancelStops`, the refinement `ImplementsCall`, and `OutboxDrains` | a request with a deadline that may be refused, and its answer; two connections one after the other, so that everything can be lost once and resent, the second of which holds; two messages in flight, and one frame on its way when another is forwarded, so that a claim that lapses under a running session puts a second copy on the same connection |
| `peers` | `NothingIsInherited`, `RetiredHoldsNothing`, `ProxiesFollowTheLease` | two hosts for two labels, two peer rows, two bridges, a message each way: a host can be replaced, forgotten and pinned again while the other bridge works |
| `rendezvous` | `AnswersAreCurrent`, `QuestionsBounded`, `AskReturns` | two clients and two bridges of one peer, one waiting question allowed, two ids, one rename: one client can delete the other's row and both bridges can hold its question |
| `watch` | `TurnsPerMessage`, `PeerOverrunBounded` | two instances with a watcher and an agent each, a message for each from one peer, two attempts, a peer budget of one turn in a minute of two ticks, one watcher killed, any activation with a lost answer |
| `groups` | `AskedWereMembers`, `QuorumIsHonest` | two members, two keys, two senders and so two sends that are independent or a retry; create and one edit; a wait for all or for one |
| `wire` | `HandledInOrder`, `NeverStalls`, `ReaderEnds` | a hello and two frames with bodies up to one over the limit, reads of any size, a channel of one slot so that it is full |
| `attach` | `AcceptedRefsExist`, `AtMostOneLostPerFailure` | two runs of one key with two files, two contents, two peers and one window that carries the bridge of either, two copies, one change (an edit of a file, or a session to the other peer in the window) and one failure |
| `reconcile` | `NeverAnothersPlace`, `Converges` | two windows with two agents that may be bound in either, and an agent of another instance with the same numbers; two positions; two moves, reused numbers, later binds or failed layout commands, which is what it takes to move a window, bind its agent in the other one under a running pass or readdress, and have the old place written |
| `naming` | `NeverSilentlyNarrowed`, `RetypingNeverMisdirects` | every directory of four agents in two instances over four places (one of them none), every caller, seven words, a window that may carry a bridge |

Each property is also run against a mutated definition (named `X_...` beside
`X`) that must break it: a counter that is not recounted, a key that is not
remembered, a claim taken back too early, and so on. The state machines
document their variables in a `TypeOK`. Runs check that of `Mailbox`, where an
underflow would show in it; the proofs establish it for `Mailbox`, `Bridge`,
`Peers`, `Rendezvous`, `Groups`, `Attach`, `Watcher`, `Wire` and `Reconcile`.

Symmetry is used for the two workers of `mail_claims`, for the hosts of
`peers`, the senders and keys of `groups` and the runs, peers and contents of
`attach`, and never in a run with a liveness property. Deadlock is checked in both Mailbox runs: the local user's process can always start or end. The other
components may all come to rest (connections are made a bounded number of
times, windows move and agents are bound a bounded number of times, a
connection's two threads
end), so their runs do not check it; what must not stop there is stated as a
liveness property.

`AtMostOneResponse` is a property of the clients as much as of the store. Its
run gives every answer the key the command line derives, `reply-<request id>`.
Whoever passes `--idempotency-key`, or answers through the MCP server, uses
another one, and then it fails, see below.

`ConfirmedCancelStops` is claimed of connections that follow one another, and
fails when two overlap, see below. `UndeliverableNeverLanded` is claimed of any
connections, but not of messages that were `resent` while a first copy was on
its way; of those the refusal of one copy says nothing about the other.

### Fairness

* `Mailbox`: the clock runs and somebody keeps sweeping. The watcher sweeps
  on every pass and `wait` while it polls, so this holds on a host with a
  watcher or a waiting client. Nothing is assumed of the clients: they may stop
  anywhere. Claims also reclaim, but no client is obliged to claim.
* `Bridge`: supervisors reconnect, connections that are not `Stable` break in
  the end, leases lapse, lifetimes run out and are swept, and a session's loop
  goes on. `Handle` and `HearsNothing` are strongly fair because the loop takes
  what the channel holds once in every turn, whatever it forwards in between. Nothing is assumed of
  agents. Liveness is claimed of what waits while a last connection holds.
* `Rendezvous`: the polling client goes on and time passes; nothing is assumed
  of bridges and peers.
* `Wire`: both threads of an end are scheduled. That the carrier delivers is
  not assumed: it may end anywhere.
* `Reconcile`: the loop of the watcher goes on, a started `readdress` makes both
  its calls, and the layout command is scheduled; it may fail or hang a bounded number of
  times.

Nothing is assumed of `Watcher`, `Peers`, `Groups`, `Attach` and `Naming`,
whose properties are safety properties.

## Known deviations

While modelling, statements of comments, help texts and tests turned up that an
interleaving, a crash or a boundary refutes. Each is defined as a property in
the module named, with its quotation. To see the steps, take the cfg in the
second column, replace its properties by the one in the first, remove its
SYMMETRY and set the constants listed.

| property | module and cfg | change | what happens |
|---|---|---|---|
| `NoAnsweredButPending` | `Mailbox`, `mail_claims` | | `respond` is described as one transaction without "a window in which a request is answered but still pending"; it is two |
| `AtMostOneResponse` | `Mailbox`, `mail_claims` | `ReplyKey <- CliOrMcpKey` | after a crash in that window a duplicate response "is refused" only when it has the same key; the command line and the MCP server derive different ones |
| `SupersededCannotAnswer` | `Mailbox`, `mail_claims` | | "a superseded incarnation must not answer", but the check is made before the transaction and `send` has none |
| `OnlyTheOwnerAcknowledges` | `Mailbox`, `mail_claims` | | "a replacement process cannot acknowledge work its predecessor claimed": `respond` does not look at the claim's owner |
| `AbortHitsOneRequest` | `Mailbox`, `mail_claims` | `NumSendKeys = 2`, `MaxPendingBytes = 2` | the abort needs "only one active mesh request in that endpoint", which is looked up before the provider is called |
| `CancelledMeansStopped` | `Bridge`, `bridge` | | a request whose receipt was lost is back on the outbox, and cancelling it there says `cancelled` while the peer works on it |
| `ConfirmedCancelStops` | `Bridge`, `bridge` | `MaxLive = 2`, `Stable = {}` | "nothing of it can still arrive", but over overlapping connections it can: leases are checked before the transaction |
| `RefusedNeverLands` | `Bridge`, `bridge` | | a claim lapses under a session that still runs, the message is sent again, the first copy is refused and the second lands: the claim's owner is the same |
| `AnsweredRequestsSettle` | `Bridge`, `bridge` | | a bridge that dies between the two transactions of `respond` leaves a request that nothing retires: the replay returns early |
| `DeadlinesEndTheWait` | `Bridge`, `bridge` | | a request that expires on the peer after it was delivered never ends the wait at home |
| `StopsAreReported` | `Bridge`, `bridge` | | a stop confirmed after the cancel was answered is not reported |
| `RetiredMailIsWithdrawn` | `Peers`, `peers` | | mail of a forgotten peer returns to the queue when its claim lapses, and then sits there invisible and charged |
| `PeerBudget` | `Watcher`, `watch` | | two watchers both spend the last turn of a peer's budget; and a turn whose answer was lost is recorded as unavailable and never charged to the peer |
| `GivesUpAfterWaking` | `Watcher`, `watch` | | refusals use up the attempts of a message that never woke anybody |
| `NeverMoreThanMaxAttempts` | `Watcher`, `watch` | | a watcher killed before recording a turn starts one too many |
| `QuorumAlwaysHonest` | `Groups`, `groups` | | a retried fan-out leaves the first send id with no requests, and a wait on it reports a quorum of zero at once |
| `EditsLeaveTheRestAlone` | `Groups`, `groups` | `Editor = {d1, d2}`, `MaxEdits = 3` | overlapping edits of a group undo each other |
| `NothingLeftSilently` | `Attach`, `attach` | | when recording a copy fails, no error says where it is |
| `AcceptedRefsOnTheirPeer` | `Attach`, `attach` | | "the message then refers to the verified copy on the recipient's host": the window was read from the lease, its session goes to another peer by the time of the drop, and nothing asks which host the file went to |
| `SameContentReplays` | `Attach`, `attach` | `Positions <- OneFile` | a retry that overlaps its first try is told of a conflict |
| `Converges` | `Reconcile`, `reconcile` | `PipeSize = 1` | a layout larger than a pipe is never read |
| `NeverAFormerPlace` | `Reconcile`, `reconcile` (as an INVARIANT) | | a pass or a readdress that found an agent in one window writes that window's place after the agent was bound in another |
| `ConvergesHome` | `Reconcile`, `reconcile` | | the address then stays: later passes find the agent at the anchor of the window it left, and keep it there |
| `ConvergesAll` | `Reconcile`, `reconcile` | | two endpoints with one window's number, one of them offline or just bound there, are both left where they are |
| `OnlyDriftedAddressesChange` | `Reconcile`, `reconcile` | `Shape = "pane"`, `Positions <- Frames`, `Host <- InWindow`, `Elsewhere <- AnotherPane`, `MaxMoves = 0`, `SPECIFICATION LayoutSpec` | reconciling drops the prefix of a nested pane's address |
| `RetypingSettles` | `Naming`, `naming` | `Endpoints = {"a", "b", "c"}`, `Aliases <- PaneAliases` | the name offered for a candidate can be ambiguous again |
| `NoNameMisdirects` | `Naming`, `naming` | `Aliases <- PaneAliases` | an agent with alias `p2` is offered as `instance/p2`; a caller at pane 2 who retypes that gets another agent beside it |
| `NoNameMisdirects` | `Naming`, `naming` | `NameOf <- OneName` | two instances bound under one name, with ids given by hand: the name offered for an agent of one leads a caller in the other to its own agent of that alias |

## Proofs

A theorem holds for every value of the constants that the named assumptions of
its module admit: any sets of endpoints, processes, keys, hosts, messages,
connections, bridges, clients, members and files, and any limits. What is
assumed is that `None` is not an id, that kinds, hosts, agents, users and
incarnations do not overlap, that limits and lifetimes are naturals and leases
positive, and that sets that are counted are finite (`MsgIdFinite`; peers and
remote agents in `Peers`, watchers in `Watcher`; endpoints in `Naming`). Of the
wire it is assumed that headers and limits are positive and that the longest
hello is no longer than the longest frame, as the constants in the code have it
(`WireAssumption`); of a layout that numbers start at 1 and stay below the
largest index (`LayoutAssumption`, `AddressAssumption`); of names that an empty
alias is not a word and no instance is called `any` (`NamingAssumption`).

Every proof has the same shape. A strengthening, called `Sound`, is inductive
and implies the property; each action is shown to keep each conjunct it can
disturb. Where many actions do one thing, a predicate says what a step may do
(`StepEffect`, `Fate` and `Comes` in `MailboxProofs`, `RowsMove` and
`CancelsMove` in `BridgeProofs`, `Turn` in `WatcherProofs`, `CopiesGrow` in
`AttachProofs`); it is proved once per action and the rest follows from it.

### Gates

`VerdictsAreGrounded` and `WideningIsMonotone`. `RuleOfGate` reduces a ruled
gate to its rule, `PeerVerdict` and `LocalVerdict` compare each branch of
`evaluate` with the reference, and the invariant `Asked` carries the result to
every state.

### Mailbox

* `TypeCorrect`. `TypeOK` alone is not inductive: `RespondSend` reads the
  request it looked up earlier, and `ConfirmInterrupt` the row it captured. The
  strengthening adds `OperationsSound`: a process in mid-operation has a
  caller, and the message it names exists and has the shape the lookup saw. It
  rests on rows never disappearing (`MailStays`).
* `ResolutionsAreFinal`: every action's write is guarded by a pending state.
* `SequencesStayUnique`: from `SequencesBelow`, every sequence of a mailbox is
  below the endpoint's `next_sequence`.
* `KeysIdentifyMessages`, `ResponsesStayAuthentic`: only `Insert` writes keys
  and creates rows, and no step changes author, recipient or kind.
* `CountersStayExact`: each action either writes no pending state, or recounts,
  or inserts one row and adds its charge. `InsertIsExact` is the arithmetic of
  the last; bytes are counted as a set of units so that a sum is a cardinality.
* `ReserveIsKept`: from exact counters, because `WithinQuota` reads the
  counters and the property speaks about rows.
* `NoClaimIsStolen`, `LateConfirmationsAreHarmless`, `NothingIsSilentlyEvicted`,
  `MailIsTakenInOrder`. `Fates` lists the ten things a step may do to a message,
  each with the process that does it. They need what an operation still knows
  of what it looked up (`History`): a claim read the clock in the past, a cancel
  was asked for by the author, a process that retires a request has an answer
  to it in the store (also after a replay, by `KeysIdentifyMessages`), and a
  claimed row has a lease.
* `TheRateIsRespected`. The property speaks of windows that ended; what is
  inductive is the limit of every window (`RateLimited`). A send may carry a
  time before that of mail accepted earlier, and the proof shows why this does
  no harm: the count it compares with the limit has no upper end.
* `RequestsAreAnsweredOnce` has two hypotheses, which describe a deployment:
  clients do not pass the kind `response` to `send`, and the answers to a
  request carry one key. The second is the default of `vvagent respond`; where
  it fails so does the property (see Known deviations). The invariant is that a
  response is what a key of its request stands for (`ResponseKeys`).

### Bridge

* `DeliveriesLandOnce`, `ReceiptsMeanCommits`. `Hands` says of the message in
  the hand of a session, and `FramesSound` of every frame on any connection,
  what must already be true in the two stores: a delivery is of a row that
  exists at home, a receipt of one that landed. `Rows` ties `copies` to the row
  at the destination, `Answers` gives a request one answer.
* `BridgeImplementsCall`. The initial states map to initial states of
  `RemoteCall`, and each action to an action of it or to a stutter: ingesting a
  request is `Arrive`, the answer of an agent `Work`, its way home
  `AnswerArrives`, retiring the request `TakeAnswer`, and everything that concerns
  connections, leases, receipts and resends changes nothing there.
* `RefusalsAreFinal`. This one needs an account of everything that is on its
  way (`Outcomes`): of a message that was not put back beside a copy of itself,
  nothing is on its way while it waits on the outbox, at most one delivery,
  decision or refusal while it is claimed, on the connection of the claim, and
  nothing once it is undeliverable. `Quiet` is why a broken connection takes
  what was on it along.
* `ConfirmedCancelsStop` assumes `MaxLive =< 1`, one connection in use at a
  time (`Single`); with two the property fails (see Known deviations). `Asked`
  says that a cancel frame comes behind every delivery of its message and that
  the message left the outbox for good, so a session that has no row for it when
  it reads the frame never will: earlier connections are quiet and this one has
  delivered everything. `Gone` is what a report of a cancellation promises, and
  `Reported` that every report on its way, and every row settled on one, keeps
  that promise.

### Peers

`PeersTyped`, `NobodyInherits`, `RetirementIsFinal`, `LeasesLeadProxies`.
`Pinned` is the heart: a row that has no host was never used, and two known
peers never have the same host. A bridge that is past `identify` remembers a
peer row and a host, and the row keeps that host even when it is retired
(`Identity`), so what it claims later (`Claims`) is still for the host it talks
to. `Addressed` says that mail and drafts name proxies that exist.
`LeasesLeadProxies` says whom a bound proxy is bound to, the recorded owner of
the lease; not that one is bound exactly while a lease is held: after the lease
has run out it stays bound until somebody takes, releases or retires it.

### Rendezvous

`TakenAnswersWereTrue`, `WaitingIsBounded`. An answer passes through a row, a
question and an answer frame, each of which may outlive what it was made for.
`Fits` says of all three what holds while their client still polls; ids are
never handed out twice (`Wires`), which keeps one client's answer from being
taken for another's.

### Groups

`OnlySnapshotsAreAsked`, `QuorumsAreHonest`. `Tied` and `FanOuts` follow the
snapshot through a fan-out in progress; `Kept` says that the accepted members
of a send keep their tie to it unless it was run again, which is the exception
the property makes.

### Attach

`AttachTyped`, `AcceptedRefsAreThere`, `FailuresLoseOneCopy`. Copies are only
added, so what a record, a run or a message refers to stays there (`Holds`);
a run that is about to record has in hand the copy it just made (`GoodRun`).
That the copy is on the peer of the message is proved of copies made while the
window had the session it had when the bridge took the lease (`same`); of
others nothing can be said (see Known deviations).
Only three kinds of step leave a copy without a name, one copy each, and each
is a counted failure.

### Watcher

`WatcherTyped`, `AttemptsBoundTurns`, `PeersOverrunLittle`. A candidate waits on
the list of one watcher only, that of its recipient's instance, so nobody else
records an attempt for it meanwhile (`Listings`); each turn of a message is then
a recorded attempt, one about to be recorded, or the loss of a killed watcher
(`Spent`). For a peer the same must hold at every age (`PeerSpent`), because a
tick forgets turns and records at different moments: what is recorded is younger
than the turn, so it is forgotten later. Turns whose answer was lost are in no
record of a started turn, and so they are counted apart and added to the bound.
`PeerBooked` is the argument for the
bound: a watcher that passes the check saw the budget not used up, and only the
other watchers can be between their check and their record.

### Wire

* `TheDecoderNeverStalls`. `NeverStalls` alone is not inductive. What is
  (`BufferSound`): the decoder holds no more than `Capacity`, and less than that
  whenever the reader has bytes to push or reads more. `Decode` leaves it less
  full because a header is not empty; a header that claims more than the limit
  is refused when it is complete, and one that does not, needs no more than
  `Capacity` in all.
* `FramesAreHandledInOrder`. `InOrder` lays what was handled, what the channel
  holds, what the reader has decoded and not sent, and what the decoder will
  see next end to end on the stream. It needs that two items never begin at
  one position (`StartsGrow`), since the decoder knows its position and not the
  index of an item. Positions are sums, and a sum over a sequence is a
  recursive function: the prover has no induction over an operator, so
  `StartsEquation` and `StartsGrow` argue from a least counterexample
  (`LeastNatural`).

### Reconciliation

`AddressesAreOwn`. Every address on its way to a row, in an environment, a
report of a move or a captured layout, is one its item has had, however old it is
(`PlacesSound`). `MatchMayBeIn` is where the anchor matters: an agent found at
the anchor of an item may be in that item, because the number that anchors it is
the one that is unique in the instance. What was decided from such a match is
written later by id, when the agent may have been bound elsewhere
(`DecisionsSound`); `BindSound` shows that this covers no more than the items
`owed` at that bind. `NeverAFormerPlace`, which would leave `owed` out, fails
(see Known deviations). The hypothesis
`Host = Nowhere` says that the runtime does not run in a pane of another one;
for nested runtimes the addresses lose their prefix (see Known deviations).

### Names

* `AmbiguityIsReported`. `resolve` narrows in three steps; the reference ranks
  by a triple. A set that is best by the first k parts of the rank is narrowed
  to the best by the first k + 1 (`OthersAreTop`, `MineAreTop`, `NearestAreTop`,
  with `Top` and `Key`), which is what preferring means when nothing is lost if
  no match has the preferred quality.
* `OfferedNamesLeadBack`. An alias, with the name of its instance, is that of
  one agent (`AliasIsOneAgent`). An address that is offered reads back as itself
  (`RenderedFacts`), and what it finds the first word found too
  (`AddressFindsFewer`), so an agent that was among the best for the caller is
  so again (`BestOfFewer`). Two
  conditions are part of the property, since without either it fails (see Known
  deviations): no alias reads as an address, and instances have different names.

### Only model-checked

* `LapsedClaimsReturn`, `OutboxDrains`, `AskReturns`, `ReaderEnds` and
  `Converges` need fairness and are beyond the prover, as is anything with
  ENABLED.

`SequencesUnique` is the reverse: proved for every instance and not repeated by
a run. Every other safety property of a run is a theorem.

## Plan

All components that keep state are modelled and all safety properties that the
runs check are proved. What could be added:

1. `AddressesAreOwn` for nested runtimes, once `reconcile` keeps the prefix.
2. The two conditions of `RequestsAreAnsweredOnce` and the restrictions of
   `RefusalsAreFinal` and `ConfirmedCancelsStop` dropped, once the code closes
   the gaps under Known deviations.
3. Models of the provider adapters, as far as they keep state of their own.

## Not modelled

The receiver's check of files it was sent (`verify` in `attach.rs`), which
reads and hashes the referenced files and writes nothing. Argument parsing,
printing, installation, provider processes and sockets, token files and their
permissions, Windows support, schema migrations, the JSON inside a frame, time
formatting, and the Python wrappers. They keep no state that the operations
above read, or are file and process I/O. The MCP server appears only as
another client that derives other keys. Of `capability.rs` only the choice of
a delivery mode is modelled. The terminal runtimes, the layout command, the
file-drop receiver, the vvssh sessions of windows, the clock and the carrier
are external and modelled by what the code expects of them. The sizes of the
carrier's own buffers are not modelled, so two ends that both block writing
are outside the model; nested panes occur in `Reconcile` only with the
constants listed under Known deviations.
