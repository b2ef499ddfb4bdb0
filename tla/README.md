# SecondSign: a TLA+ model of the decision and signing core

SecondSign sits between an agent and whatever moves its money. An agent proposes
a payment or a Safe transaction; SecondSign decides, asks a human when the
decision needs one, and only then calls the payment rail or adds its half of a
2-of-2 signature. This directory models that core, and the
client, rails, extensions and operator's records around it, in TLA+, checks it with
TLC on small instances and proves its main properties with TLAPS.

Paths below are relative to `src/src/secondsign/` unless they begin with `src/`.

## 1. Inventory

| Component | Source | State | Operations | Talks to |
|---|---|---|---|---|
| Authorization service | `gateway/authorization.py` | `_lock`, `_now_floor`, `_reservations` | `authorize`, `resolve`, `open_reviews` | everything below |
| Execution gateway | `gateway/execution.py` | idempotency store | `execute`: check, reserve, dispatch, finalize | rail executor |
| Rail executors | `rails/http.py`, `rails/stripe.py` | none | `dispatch` with a deadline; answers success, failure or unknown | the rail |
| Window ledger | `controlplane/window.py` | entries | `record`, `aggregate` | read by the decision |
| Pending store | `controlplane/pending.py` | held reviews | `hold`, `get`, `release` | the approver channel |
| Maker-checker | `approval/maker_checker.py` | consumed one-shots | `request`, `consume` | service, co-signer |
| Decision engine, policies | `decision/engine.py`, `policy/*.py` | none | `decide`, `evaluate` | plugin runner |
| Intent and digests | `intent/*.py`, `agent/surface.py` | none | `complete_intent`, the digests | |
| Audit log | `audit/*.py` | the sink's entries | `record`, `verify_chain` | service, co-signer |
| File sink | `src/examples/audit_sink/jsonl_sink.py` | a file of lines | `append`, `entries` | audit log |
| Co-signer | `gateway/onchain_cosigner.py` | `_pending`, `_settled`, `_lock` | `cosign`, `resolve`, `open_reviews` | chain reader, signer, audit |
| On-chain policy and decoding | `onchain/policy.py`, `onchain/effect.py` | none | `decode`, `evaluate` | |
| Chain state | `onchain/chain_state.py` | none (the chain's) | `read_safe`, `token_identity`, `mismatches` | the chain |
| Gateway server | `gateway/server.py`, `gateway/leaf.py` | configuration, listener, an identity per connection | `main`, `load_config`, `derive_principal`, `do_POST` | service |
| Approver server | `gateway/approver.py` | configuration, listener, an identity per connection | `load_approver_config`, `check_channel_separation`, list and answer reviews | service |
| Relaxation guard | `controlplane/relaxation.py` | none: the records are passed in | `resolve` | |
| Fingerprints | `controlplane/fingerprint.py` | a per-process key | fingerprints | service |
| Plugin runner | `contracts/runner.py`, `contracts/combine.py`, `contracts/render.py` | none | run, contain, combine, render | policies |
| Rail adapters | `adapters/*.py` | none | payload to intent | |
| Wire format, clients | `agent/wire.py`, `src/client/`, `src/examples/wire_client/` | none | one POST with a deadline, reading whatever comes back | gateway server |
| Conformance kits | `conformance/*.py` | what a probe recorded, what a plugin remembers | certify a client, a plugin, an adapter, a sink | their subjects |
| Safe contracts | `src/onchain/src/*.sol` | pending recovery | guards, timelocked recovery | the Safe |

What makes each correct:

* the service: a cap holds in every trailing window, a handle pays at most once,
  every answer and every receipt is true of the payment it is about, every
  dispatch was authorized, every review ends once, no request waits for ever;
* the gateway and its store: a key is reserved before the rail is called and
  never called again;
* the maker-checker: a one-shot is spent once, in time, on what the checker saw,
  by somebody other than the maker;
* the co-signer: no signature outside the policy, none in the review band without
  a live approval of that transaction on the chain as attested, none without a
  receipt, and no human answer burnt for nothing;
* the audit log: what `verify_chain` accepts was written in that order, and a reader
  of the file is given all of it or none;
* the way from an agent to the rail and back: `completed` is told only of a payment
  that was made, whatever is lost, late or forgotten in a crash, and whatever answers
  that does not speak the gateway's dialect, and a key is called once;
* the extensions: no verdict, finding or failure of one is lost to another's, in any
  order, and a concern can be acted on;
* the two channels: nobody who proposes answers, no authority vouches for both,
  nothing is held that nobody can answer, a refused start has served nobody;
* the relaxation guard: a value looser than the strictest is returned only under a
  live record for that setting that reaches it, and names the narrowest such record;
* the recovery controller: only the recorded rotation, once, after the delay,
  and not after a veto.

What is hard: handler threads stamp the clock before they wait for an unfair
lock; the lock is held across a rail call while other requests arrive; `cosign`
reads the chain with no lock at all; the rail may answer ambiguously; the audit
sink, the signer and the chain reader may raise between two state changes, and a
write to the file may be torn; the process may die with a call at the rail, and a
retry meets a process that has forgotten it; a client gives up before the rail does;
reviews live for hours while limits, clock, nonce and configuration move.
`PROJECT.json` lists each hazard at its line with the properties that cover it.

## 2. Modules

| Module | Models | Extends |
|---|---|---|
| `DecisionPath` | completion of a request, digests, window aggregate, policies, gateway checks, agent status: operators only | |
| `MakerChecker` | `consume` and the terminal rejections | |
| `AuthorizationService` | the service, its stores, the rail, the handler threads | `DecisionPath`, `MakerChecker`; instantiates `OneShotPayment` |
| `OneShotPayment` | the abstract promise about a handle | |
| `OneCosignature` | the abstract promise about a Safe transaction | |
| `OnchainPolicy` | decoding and judging a Safe transaction | |
| `OnchainCosigner` | the co-signer, its threads, the chain | `OnchainPolicy`, `MakerChecker`; instantiates `OneCosignature` |
| `AuditLog` | `AuditLog.record` over a sink, `verify_chain` | |
| `JsonlAuditSink` | the file-backed sink, torn writes, its reader, the audit-sink kit | `AuditLog` |
| `WireClient` | the wire contract from both ends: requests, answers, four clients | |
| `WireClientKit` | the checks that certify a client | `WireClient` |
| `Rails` | what the two executors make of a rail's reply | |
| `PaymentPath` | agents, connections, lives of the gateway, checkers and the rail | `WireClientKit`, `Rails` |
| `RelaxationGuard` | `resolve` over records that are granted, withdrawn and lapse | |
| `PluginRunner` | consulting extensions and combining what they say | |
| `OperatorInputs` | the two above together | both |
| `PolicyPluginKit` | the checks that certify a policy plugin, on one instance in sequence | `PluginRunner` |
| `RailAdapters` | the Stripe and Alpaca adapters and the kit that certifies them | |
| `Channels` | `main` from configuration to shutdown, the two doors and who comes in by each | |
| `ProtectedSafe` | the two guards and the recovery controller on one Safe | `OnchainPolicy` |
| `MC...` | instances for TLC | |
| `...Proofs` | theorems | their component, `TLAPS` |

### AuthorizationService

One worker is one handler thread. `AgentCalls` and `CheckerCalls` are an HTTP
request that reads the clock; `Enter` takes the lock and raises the floor. The
section between lock and unlock is one action per path (`RepeatAnswer`,
`AuthorizeDenied`, `AuthorizeHeld`, `AuthorizeAllowed`, `ResolveUnknown`,
`ResolveDenied`, `ResolveMisdirected`, `ResolveEnded`, `ResolveGranted`), because
nothing outside the lock reads or writes those stores. The exception is the rail
call: `Execute` ends the action with the key reserved, the call sent and the
lock held, and `RailAnswers` finalizes, counts, settles and unlocks; time passes
and requests arrive in between. A receipt write may raise (`AuditMayFail`), and
what the code did before it stays done: a dispatch whose receipt fails leaves no
reservation, an approval no released review.

| Variable | Code |
|---|---|
| `handler`, `clock` | handler threads, `datetime.now` |
| `lock`, `floor` | `_lock`, `_now_floor` |
| `reservations` | `_reservations` |
| `pending`, `consumed` | pending store, `MakerChecker._consumed` |
| `ledger`, `outcomes` | `WindowLedger._entries`, idempotency store |
| `receipts` | what the audit sink holds |
| `rail` | what the rail received under each key, what became of it, and the service's time when it was sent (history) |
| `told`, `declined` | history variables; no action reads them |

### OnchainCosigner

A request is two steps. `Proposes` (or `ResolveReads`) reads the Safe's nonce and
configuration; the second step reads the token and does the rest. `cosign`'s
steps hold no lock, except that `_hold` is atomic under it; `resolve` takes the
lock in its first step, if the review is held, and gives it back in the second.
`SafeExecutes` is the chain executing any co-signed transaction at the current
nonce (the agent, the other owner, signs whatever it likes) and `ChainDrifts`
moves the Safe or the token away from the attested configuration and back.
`ReaderRaises` is a chain read that raises, `Signs` a signer or a receipt that
may. A transaction stands for its EIP-712 hash: the call and the nonce.

| Variable | Code |
|---|---|
| `nonce`, `safeDrift`, `tokenDrift` | the chain: nonce, Safe and token against `ExpectedSafeConfig` |
| `handler`, `lock` | handler threads with what they read, `_lock` |
| `pending`, `settled`, `consumed` | `_pending`, `_settled`, `MakerChecker._consumed` |
| `receipts` | what the audit sink holds |
| `signed`, `withheld` | history: signatures returned, and those lost because the signer or the receipt raised |

`signed` is read by `SafeExecutes` only: it is what the agent can execute.

### AuditLog

`Derives` is the first half of `record`: take the lock, read the tail, build the
next receipt. `Appends` is the second; `AppendRaises` is an append that raises,
with a durable sink that kept the receipt or did not. `LogOf` says which
`AuditLog` object a thread uses, each with its own lock. A hash is what it was
computed from, so that equal hashes mean equal content. The two services model
their receipts as a set: this module is why that is enough.

| Variable | Code |
|---|---|
| `entries` | what the sink holds |
| `lock`, `caller` | `AuditLog._lock`; the local `receipt` between building and append |
| `returned` | history: what `record` returned |

### JsonlAuditSink

`Reads` is `Derives` through `entries()`, which parses every line or raises
(`Refuses`: `record` passes that on). `Writes` is one line on the disk; `Tears` a
write that raises and leaves nothing, a part, all but the newline, or everything.
What is appended to a line without a newline joins it. `entries` of `AuditLog`
stays what reached the disk whole, and `Entries(file)` is what a reader gets:
the property is that the two never differ while the file can be read.
`_assert_redacted` refuses nothing a receipt can hold, since `AuditReceipt` already
refused it. `MCAuditLog` states, as assumptions TLC evaluates, that the sink passes
`AuditSinkConformance` and that a lost newline silences it (see the divergences).

| Variable | Code |
|---|---|
| `file` | the file's lines, each with the receipts whose text it holds and whether it ended |

### PaymentPath

The stores are those of the service, and what policies say of a request is a choice.
A queued request that gets the lock is a repeat (`Repeats`) or, without a reservation,
held, refused, sent to the rail (`Holds`, `Refuses`, `Sends`) or, when its handle's key
is spent already, answered with what the key recorded (`Recalls`). `Reaches` is what a
checker's answer to a review of `shown`, which keeps the references of every life,
must meet; `Approves` sends, `ApprovesSpent` meets a spent key, `Declines` ends the
review. Each of these writes its receipt before the reservation (`Settles`), and with
`AuditMayFail` the write may raise instead (`Raises`): the handle stays as it was, the
exception closes the connection (`Breaks`) and what was done before stays done, a key
spent, a review in the queue, an approval consumed. `RailAnswers` is any status `Rails`
allows for what the rail has done by then, and the settlement after it.

`Crash` empties the stores, resets the connections and leaves the rail its calls;
`Restart` is a new life with a new fingerprint key, so that a key and a review's
reference are `<<life, handle>>`. The rail (external) de-duplicates by key and moves or
declines a payment in its own time. An exchange whose client has stopped waiting goes
on in the gateway, and `Interrupted` and `AskNobody` are answers that did not come from
it: silence, errors, and responses that do not announce this dialect (something that
announces it and lies is not modelled: the channel's TLS is what keeps it away).
`design` is one of four clients; `Init` keeps those `WireClientKit` certifies: that
`dialect_blind` and `optimist` are not among them is what `CompletedMovedMoney` needs.

`CompletedMovedMoney`: `completed` is told only of a handle under which money moved, and
of another proposal than the paid one only where a receipt of that very key was lost.
That this exception is met is a divergence of the code (section 3). While receipts can
be written `raised` is empty and the property is `CompletedWasPaid`: `completed` is of the
very proposal that was paid.

| Variable | Code |
|---|---|
| `design` | the agents' client |
| `life`, `up` | the process, `FingerprintKey.generate` once in each |
| `subject`, `answer` | `_reservations`: the proposal and the answer of each handle |
| `review`, `consumed` | the pending store, `MakerChecker._consumed` |
| `sent` | the idempotency store |
| `conn`, `lock` | handler threads with their exchange; `AuthorizationService._lock` while it dispatches |
| `shown` | reviews on a checker's screen |
| `rail`, `moved` | what the rail has received and not decided, what it has paid |
| `told` | what each agent was last told |
| `calls`, `asked`, `released`, `raised` | history: calls by key, requests by life, sends with the review that released them, keys a receipt was lost of |

### RelaxationGuard, PluginRunner, OperatorInputs

`Resolve` is `resolve`: a set, because the order in which records are handed in
decides between records that tie. `Grant`, `Withdraw` and `Tick` are the caller's
store and clock. What a value lets through (`Permits`) is said without the order of
numbers the code compares by, which differs by setting.

`Consult` is one extension doing any of the things of `Behaviour`: judging, raising,
unwinding, speaking another version, returning what no validator has seen. `host`
is the third-party runner, which revalidates, or the decision engine, which does
not, and never asks an extension which version it speaks. `Combined` reduces the answers one by one; a `combine` that raises, or an
exception nobody catches, ends the run as `unwound`, with no decision.

| Variable | Code |
|---|---|
| `records`, `now` | the relaxations handed to `resolve`, its clock |
| `host`, `installed` | `run_plugins` or `DecisionEngine`, and what it consults |
| `heard`, `result`, `phase` | the loop: what each extension did, the judgement so far, how far it is |

### The kits

`WireClientKit`, `PolicyPluginKit`, `RailAdapters` and `JsonlAuditSink` have one
operator for each check of the conformance suites, named as in the code. They have
no state; the `MC` modules assume of each subject that it passes or does not, and
TLC evaluates those assumptions: the shipped and the minimal client, the allowlist
plugin for every list, both adapters on every call they map, and the sink.

### Channels

The process `gateway/server.py:main` is. `LoadsConfig` is all that is checked
before a socket exists; `CreatesServer` and `CreatesApproverServer` bind, load the
TLS material and may refuse or raise; `Serves`, `Stops` and `Exits` are the rest of
`main`, with requests on open connections running until the process is gone.
`Connects` is a handshake the door's bundle admits and the identity `setup` derives
from the leaf; `Proposes` and `Answers` are requests that get as far as the
service. What the service does with them is `AuthorizationService`; here a
proposal may be held and an answer may end a review. `HeldCanBeAnswered` is about
a process that serves: while it stops, a request on an open connection can still be
held after the checkers' listener closed, and goes with the process.

| Variable | Code |
|---|---|
| `env` | `os.environ`, and what the files it names hold |
| `phase`, `listener` | how far `main` has come, the two listening sockets |
| `connection` | `identity` of each handler |
| `held` | makers of the reviews in the pending store |
| `calls` | history: who reached `authorize` or `resolve`, through which door |

### ProtectedSafe

`Executes` is a transaction enough owners signed, seen by the transaction guard;
`ModuleCalls` one from a module that was enabled before the guards, seen by the
module guard; `RequestRecovery`, `ExecuteRecovery` and the `cancelRecovery`
branch of `Runs` are the controller. `Reconfigured` is what the Safe's own
entrypoints can leave, in general terms, because the Safe is external: a
delegatecall can leave any of it. The account starts set up as
`src/onchain/test/production/RecoveryController.t.sol` deploys it, or before that,
with neither guard, one signature enough, and a foreign module still to enable.
`PolicyBound` says whether the co-signer signs by `OnchainPolicy!Judge` or signs
whatever it is shown: the guards must hold either way.

| Variable | Code |
|---|---|
| `account` | the Safe's owners, threshold, guards, modules, fallback handler |
| `pending` | `SecondSignRecoveryController._pending` |
| `clock` | `block.timestamp` |
| `requestedAt` | history: when the pending recovery was requested |

## 3. Runs

| Run | Instance | Shows |
|---|---|---|
| `authorization_spend` | 2 threads, 2 handles, amounts 1 and 2, cap 3, no band, clock to 3 | `WithinCap`, `SpendIsCounted`, `MovedWithinCap`, `AnswersAreTrue`, `ReceiptsAreTrue`, `VerdictsOnlyTighten`, `TypeOK` |
| `authorization_review` | 2 threads, 2 handles, one amount in the band, reviews live 3 ticks | `HeldMeansHeld`, `DispatchesAreRecorded`; `ImplementsOneShot`: the service refines `OneShotPayment` |
| `authorization_failing` | a failing sink, 1 handle, 2 amounts and an unmappable request, fair | `AtMostOnce`, `DispatchIsAuthorized`, `Drains` |
| `payment_path` | 1 handle, 2 proposals, 2 connections, 2 lives, 4 designs of client, any receipt's write may raise | `CompletedMovedMoney`, `OneCallPerKey`, `SentInItsOwnLife` |
| `cosigner` | 2 threads, 2 principals, one nonce; an approval below the band, a transfer in it, a delegatecall; both drifts, sink and signer may raise | `BurntMeansSigned`, `SignedIsBounded`, `SignedIsRecorded`, `SignatureIsApproved`, `HeldReviewIsKept`; `ImplementsOneCosignature`: the co-signer refines `OneCosignature` |
| `auditlog_chain` | 3 threads, one log, 3 contents, chains up to `MaxEntries` = 5, a file whose writes tear | `ChainVerifies`, `ReturnedIsKept`, `TamperIsDetected`, `TrailIsWholeOrRefused` |
| `operator_inputs` | 3 settings, values to 3, 2 records, 2 approvers, clock to 2; 2 extensions with 3 findings | `OnlyAuthorityLoosens`, `AuthorityIsNarrowest`, `LapseTightens`, `NobodyIsSilenced`, `ConcernsAreActionable`, `TypeOK` |
| `protectedsafe_guards` | 3 keys, one foreign module, delay 1, clock to 2, owners who sign anything | `GuardedIsFrozen`, `RotationIsRecorded`, `LostKeyIsReplaceable` |
| `channels_doors` | 2 principals, 2 authorities, 2 connections, every leaf, every setting of either channel beside a sound one of the other | `MakerIsNotChecker`, `OneDoorPerAuthority`, `HeldCanBeAnswered`, `RefusedNeverServed`, `TypeOK` |

The runs below are expected to be violated: each states what a doc or a comment
says and finds the code doing something else. `PROJECT.json` quotes the lines.

| Run | Property | What the trace does |
|---|---|---|
| `authorization_v_unrecorded` | `DispatchesAreRecorded` | the receipt is written after the dispatch; its write raises |
| `authorization_v_decline` | `DeclineIsFinal` | a decline that meets a full window is dropped; a second checker approves later |
| `protectedsafe_v_veto` | `VetoIsAvailable` | a recovery is pending and the co-signer's policy denies `cancelRecovery` |

Divergences noted while modelling that have no run of their own:

* a dispatch whose receipt's write raises leaves no reservation
  (`gateway/authorization.py:605-608`), so another proposal under the handle meets the
  spent key (`gateway/execution.py:172-175`), is receipted with the first one's outcome
  and, when that was a success, told `completed` although nobody paid it, against
  `gateway/authorization.py:384-388` ("Refusing is the only true statement"). TLC finds
  it as a violation of `CompletedWasPaid` in the instance of `payment_path`;
* a granted answer whose settlement's receipt raises is burnt while its review stays in
  the queue (`gateway/authorization.py:509-519`), where every later answer is
  `already_consumed`, before its expiry is looked at: it never ends, and a hold of the
  same handle is born burnt;
* the intent's window is compared with a clock read before the wait for the lock
  (`gateway/server.py:596`), so the rail may be called after it closed, against
  `gateway/execution.py:18-19`;
* an ambiguous rail answer that moved money is told as refused
  (`gateway/authorization.py:680`), while `agent/surface.py:45` calls `completed`
  the only status under which value has moved;
* the wire's action is in no digest (`gateway/authorization.py:246`), so a handle
  sent again with another action is answered as a repeat, against lines 35-37;
* a settled transaction that is proposed again, and an answer that is misdirected,
  are refused with no receipt (`gateway/onchain_cosigner.py:376`, `472-480`),
  against lines 257-258;
* an identity is derived once per connection (`gateway/server.py:468`) and a
  connection may be kept alive past its leaf's expiry, while lines 95-97 call the
  24 hours of a leaf the entire revocation story;
* a decline removes the review and leaves the transaction in neither `_pending` nor
  `_settled` (`gateway/onchain_cosigner.py:478`, `372`), so it can be proposed and
  held again and a second checker can approve it, against lines 440-441 and 70-71;
* a restart has a new key and empty stores: a retry after it carries a new
  idempotency key, so the crash window `gateway/execution.py:20-25` says reserving
  first closes is open across processes, and a review, a window and every earlier
  reference are gone. `OneCallPerKey` speaks of keys and not of handles for that
  reason;
* a client whose answer was lost, or whose process asked nobody, tells its agent
  refused although the payment may have been made (`agent/surface.py:45`);
* the gateway and the minimal client compare the version by equality, so `1.0` passes
  as version 1 at both, and at the client `true` does too (`gateway/server.py:552` bars
  booleans); the minimal client checks no other field of the outcome
  and lets `http.client.HTTPException` through;
* the wire-client kit probes no `refused` answer with code 200, no timeout and no
  4xx, so a client that reads those as it likes is certified;
* the policy-plugin kit runs its corpus always in one order, so a plugin with a
  latch that the first view trips is certified, although
  `conformance/policy_plugin.py:225` looks for state carried across views
  (`TheKitMissesALatch`);
* `contracts/runner.py:64` and `77` read attributes of a plugin outside the `try`, so a
  property that raises ends the whole run, against lines 7-8;
* the engine does not revalidate what a policy returned (`decision/engine.py:107-111`):
  a judgement no validator saw can make `combine` raise or not by its place in the
  order, and quantities beyond the bound pass;
* `controlplane/relaxation.py:69-70` calls a short window the stricter one, and
  `is_looser_than` (line 195) treats it as the looser; `approved_at` is never
  consulted; records that agree in value and approver but not in expiry are told
  apart by the order they came in, against "for determinism" (line 243); an
  `expires_at` without a time zone makes `resolve` raise;
* both adapters' keys cover the whole call with its window, so a call retried with a
  refreshed window is a new payment; the Alpaca adapter relates no limit price and
  quantity to the value band, and nobody looks at a quote's age after it derived;
* a tear that loses only a newline leaves a line that parses: `record` raised and the
  receipt is kept, the next receipt joins that line, its `record` returns, and from
  then on `entries()` raises and nothing can be recorded
  (`src/examples/audit_sink/jsonl_sink.py:77-79`, `LostNewlineSilences`);
* two `AuditLog` objects over one sink fork the chain: the lock of
  `audit/log.py:69` belongs to the object, so the append is atomic only for the
  callers of one.

### Bounds, and why they are enough

Two threads are enough for every race: the lock serialises the section, so a
third thread adds only another stamp. Two handles are what it takes for two
payments to compete for a window; two amounts against a cap of 3 give pairs that
fit and pairs that do not. The window is one tick and the clock runs to 3, so a
spend is counted, leaves the window, and both edges are met. A review outlives an
intent (TTL 2 or 3 against 1), so it is answered before and after the window has
changed and after it expired. `Answers = {}` leaves the checkers out where a run
is about the window: that a held review is decided again on the window as it is when it
is answered is in the theorem `SpendWithinCap` only.

The run with the failing sink is the smallest in which every write can fail: one
handle, clock to 1, a review that expires on the next tick, approvals only.

For the co-signer the nonce runs from 0 to `MaxNonce` = 1 and nothing is proposed
at 1: a held review of nonce 0 becomes stale when a transaction executes.
The cap is 3 and the review band starts above 1. The calls are an approval at the
edge of the band, a transfer just above it, and a delegatecall that looks like the
harmless approval; two of them compete for one nonce, and the theorem
`SignaturesAreBounded` covers every other call and every other bound, the edge of the
cap among them, which no call of the run meets. The transfer is the only one in the
band, so that an approval of one transaction is never offered for another there; the
theorem `ApprovalBeforeSignature` is for any calls.

On the payment path one handle is enough: handles share nothing but the lock, and
what can be confused is two proposals under one handle, which the second
proposal is for. Two connections are a request under way and its retry, or two
askers; two lives are one to crash and one to be confused with it. All four designs
are offered and the certified ones explored. `MaxLife` is the only counter. With
lost receipts the two lives together are too many for TLC, so `LossesEndTheRun` does not
follow a life that lost one past its crash, which forgets what the loss left behind
anyway, nor the second life past its own first; the theorems cover them all.

For the settings, values 0 to 3 lie on both sides of every default of
`MCStrictest`; two records can tie, overlap or be for different settings, and clock
0 to 2 has each expiry before, at and after now. Two extensions are one and its
neighbour, in either order; the findings are two quantities of one code, which must
not be merged, and one beyond the bound. The two halves of `OperatorInputs` share
no variable, so `MCNext` explores each with the other at its start.

A chain of five receipts has a first, a last and inner ones to remove, swap and
edit; three threads are one in the section and two waiting. Every way a write can
tear happens at every length.

For the Safe, three keys are two owners and one to rotate in; two rotations can
be recorded one after the other; delay 1 and clock 2 give a request, a
replacement and an execution at, before and after the ready time. `Width` 4 keeps
`MaxClock + Delay < Width`: no wrap is reached, as `ProtectedSafeAssumption`
says; a delay near 2^64 is outside the model.

For the channels, two principals and two authorities are one on each side, or one
on both; two connections are an agent's and a checker's at once. `MCEnvironments`
takes all settings of one channel (bundles and lists of at most one entry) with a
sound or absent other one, and all pairs of sound ones with larger bundles and
lists. A start that is refused stops, and so does the process: deadlock is not
checked there.

Threads, handles and principals are symmetric: no property names one. `authorization_failing`
checks liveness and uses no symmetry; the channels' principals are strings.

### Fairness

`FairSpec` is weak fairness of each thread's section and of the rail's answer.
The first holds while arrivals stop, which `Drains` assumes; Python's lock is not
fair, so with endless arrivals one thread may wait for ever and no property
claims otherwise. The second is `TIMEOUT_SECONDS` of `rails/http.py`: a dispatch
returns, with `unknown` if need be. Nothing is assumed of arrivals, of the clock
or of checkers; no other specification states fairness, and their properties are
safety.

## 4. Proofs

All theorems hold for every value of the constants under the named assumptions
(`DecisionPathAssumption`, `AuthorizationAssumption`, `OnchainPolicyAssumption`,
`OnchainCosignerAssumption`,
`AuditLogAssumption`, `JsonlAssumption`, `ProtectedSafeAssumption`,
`ChannelsAssumption`, `PaymentPathAssumption`, `RelaxationGuardAssumption`,
`NoAuthorityAssumption`, `PluginRunnerAssumption`, `SilentAssumption`), which say what the constants
are and nothing about behaviour: any number of threads, handles, requests, calls, principals, any caps.

`AuthorizationServiceProofs`. `AtMostOnce` is not inductive: that a reserved key
was called once must be known together with who holds the lock. `SafeInv` is
`TypeOK`, `LockHolder` (the lock's holder still handles the request it
dispatches for, and its key is in flight) and `KeysDescribeRail` (a key is
reserved exactly when the rail was called under it, once). From it:
`TypeCorrect`, `OneDispatch` and `AuthorityToDispatch`.

The limits are sums over the ledger. `SumFunction` folds over a set in an order
nobody names, so the module begins with what is needed of it: induction over the
subsets of a finite set (`SubsetInduction`, from well-founded induction's minimal
elements and not from its operator form), and from it that a sum is a natural, loses
exactly the element that is taken out (`SumRemove`), depends on the amounts alone
(`SumCongruent`) and grows with the set (`SumMonotone`). Then:

* `SpendWithinCap`. `WithinCap` is not inductive: a decision is made before the rail
  call and its entry written after it. `WindowInv` adds that no entry is later than
  the floor and that the dispatch in flight is not denied against the ledger as it is
  *now*; the lock keeps the ledger and the floor for it. The floor is what makes
  `WindowGrows` true: a window that holds the new entry holds, of the others, no
  more than the window the decision read.
* `MovedIsCounted`. `SpendInv` adds that a call without an answer has moved nothing,
  that the lock holds the proposal its answer will be counted under, and that the
  floor is still the time it was sent at. It compares, for any key and any set of
  times, what the rail moved with what the ledger holds.
* `TheRailKeepsToTheCap`. The two together, on the times a window spans: in no
  trailing window does the rail move more under one key than a limit on its
  currency allows.
* `DecisionsOnlyTighten`. More spend is never judged laxer (`MoreSpendIsNeverLaxer`,
  from `DecisionType`) and an entry leaves no window with less in it
  (`WindowNeverShrinks`), so a limit that refused a payment refuses it as of that
  time whoever is answered in between.
* `SomebodyCanGoOn` and `SectionsEnd`, the safety half of `Drains`. `NobodyIsStuck`
  says that while the lock is free every request that waits has a way through the
  section, because the decision is always one of the verdicts (`DecisionType`) and a
  grant's fresh window leaves the gateway nothing to refuse, and that a taken lock is
  held by a thread whose one rail call is out. `EverySectionEnds` says that a section
  frees the lock and answers its request or keeps the lock for its own rail call.
  What is left of `Drains` is that the lock is fair enough and the rail times out.

All of this module holds with an audit sink that may fail at any write. It also proves
`ConfirmedMoves`, that a key reads success only of a payment the rail moved, for the
next one.

`AuthorizationPromiseProofs` assumes `~AuditMayFail`; the violated runs show the
properties false without it. `SoundInv` adds `HandleBooks` (queue, reservations,
idempotency store and rail agree about each handle) and `LockBooks` (the dispatch
in flight is of the review or the request it was decided for). From it:
`HeldIsHeld`, `AnswersAreFinal`, `RefusedIsNotOvertaken` and `KeepsThePromise`,
the refinement of `OneShotPayment` step by step. `TrailInv` adds `TrailBooks`: a
receipt of an execution tells how a reserved key ended (`ReceiptsFollowRail`), every
ended key has one (`RailIsReceipted`), and what an agent was told is what its handle
is bound to, what it read before the review ended, or the refusal of another proposal
(`Truthful`). `ReceiptEffect` and `ToldEffect` say what each step records and tells.
From it: `TrueReceipts`, `EveryDispatchIsRecorded`, `AgentsReadTheTruth` (with
`ConfirmedMoves`: what an agent was told is true of the money) and so
`AgentsReadOneStory`, that its final answers about one proposal agree.

`OnchainCosignerProofs`. `CosignerInv` adds to the types that a held review is
about its own key and was judged REVIEW, that the lock is held by exactly the
request that re-reads the chain and its review is still held, that a one-shot is
burnt exactly when its review is settled, and that what is signed was judged
free of concern or approved. From it: `SignaturesAreBounded`,
`SignaturesAreRecorded`, `ReviewsCanBeAnswered`, `ApprovalBeforeSignature`,
`HeldReviewsAreKept` and `AnswersAreNotBurnt`, whichever call raises. `KeepsThePromise`
is the refinement of `OneCosignature`: `CosignerSteps` says what any step does to a
transaction's review and signature, `AbstractStep` which step of the promise that is.

`AuditLogProofs` assumes `OneLog`: every thread records through the same object.
`ChainInv` adds to the types that whoever has built a receipt holds the lock and
what it built is the next link of the chain as it still is (`BuiltIsNext`). From
it: `ChainIsIntact`, `ReturnedStays` and `TamperingShows`, for chains of every
length. For the file, without `OneLog`: `FileIsALog`, that recording to it implements
the log, and `TrailIsNeverShortened`, from `FileInv` and the lemma `WrittenReads`: a
write leaves a file readable only if it was, and the receipt is whole on its own
line. So a file that does not parse is never mended (`TornIsNotMended`), and with
`OneLog` what a reader is given verifies and holds every receipt `record` returned
(`WhatIsReadIsIntact`).

`ProtectedSafeProofs`. `SafeInv` adds to the types that a pending recovery's ready
time is its request's time plus the delay, which the truncation would break
without the assumption on `Width`. `GuardedTransaction` and `GuardedModule` say
what passes each guard: a cancellation, and on the module path an owner rotation.
From them: `GuardsFreezeTheAccount` and `OnlyTheRecordedRotation`, for any keys,
modules, delay and signatures. `DueRotationIsReady` is `LostKeyIsReplaceable` but
for the word `ENABLED`: once a rotation the Safe would accept has waited the delay,
every check on its way passes; `DueRotationStays` says that it stays so until it is
executed, replaced or cancelled, or the owners change.

`ChannelsProofs`. `ChannelsInv` adds to the types that a running process has passed
its checks (`StartInv`), how far each socket has come by phase (`ListenerInv`), that
nothing is connected, called or held before it serves (`QuietInv`), that every
principal behind a door is on that door's list by one of that door's authorities
(`EntitledInv`) and that only a limit with a band holds (`HeldInv`). From it:
`NobodyAnswersTheirOwn`, `AuthoritiesAreApart`, `ReviewsHaveADoor` and
`RefusalsComeFirst`, for any environments and certificates.

`PaymentPathProofs`. The invariant is a chain of copies. `SoundBooks` says of each
handle that what it is reserved for, or under review for, was asked for; that a recorded
success is money the rail moved (`SuccessIsMoved`), and an answer `completed` is of the
proposal it moved it for, or a receipt of the key was lost; and that a key spent without
a reservation, or a review its handle is not reserved for, means a lost receipt too.
`SoundExchanges` says of a decided exchange what `SoundBooks` says of an answer; `LockIsOwned` that whoever dispatches holds the
lock with its one key in flight; `Quiet` that a life that is over has left nothing but
what the rail and people know; and a certified client says `completed` of nothing else
(`CompletedIsTheGateways`, from the kit's own checks). That a key is called once needs
`CalledOnce` (no key of a later life was called, and one of this life only if its handle
is spent), and that nothing outlives its process `ShownInItsLife`. From it, whichever
receipts are lost: `CompletedMeansMoved`, `EachKeyIsCalledOnce` and
`NothingOutlivesItsLife`, for any handles, proposals, connections and lives.
`CompletedMeansPaid`, that `completed` is of the very proposal that was paid, is proved
under `~AuditMayFail`, where no key is ever in `raised` (`NothingLost`); without it TLC
refutes it.

`OperatorInputsProofs`. For the settings the types are invariant enough: the lemma
`Direction` says that the code's comparison of numbers is inclusion of what the
values let through, and `LooseningTakesAuthority`, `TheNarrowestIsNamed` and
`LapsingTightens` follow by the cases of `resolve`. `EverySettingResolves` is that
`resolve` always answers (`NarrowestExists`: among any number of permitting records one
is least) and that the order of the records decides neither value nor resolution
(`NarrowestTie`). For the extensions, a run keeps as it goes that its result is the
least judgement above the answers heard so far (`ResultIsTheJoin`); from it
`EveryoneIsHeard` (and nobody else is), `RegistrationOrderIsInvisible` and
`ConcernsRender`. All for any values, records, clock, extensions and findings.

Model-checked only: that `ENABLED` follows from the guard in `LostKeyIsReplaceable`
(`RotationIsReady`, the guard, is proved); `Drains` (its safety half is proved, fairness
is beyond this prover);
and what the conformance kits make of their subjects, which are assumptions over
small corpora.

## 5. Not modelled

* In the service: `decided_at`, `decision_ref` and `reservation.approval_id`, which
  nothing reads; the agent's reversibility claim, which completion replaces;
  `wrong_approval` and `self_approval` on the payment path (the id comes from the
  URL the review is looked up by, and the maker is a fingerprint no checker's
  subject equals); `resolve`'s digest check before the re-decision, which
  `consume` repeats; a policy that raises, which is `PluginRunner`'s.
* In the co-signer: a co-signer wired without reader or configuration, which
  refuses everything; amounts the adapter cannot determine, which it never
  produces; the naive-datetime check; the wording of findings and the approval
  id on receipts.
* In the Safe: nonces and signatures as bytes, gas, events and getters, transactions
  that touch neither the account's configuration nor the controller, the sum of
  time and delay beyond 2^64.
* Hashing, canonical JSON, calldata and certificates: digests are injective,
  calldata is the fields a static decode reads.
* In the channels: a certificate or key file replaced between two reads of it, a
  listed entry that cannot be compared, malformed requests, the health and list
  paths, idle timeouts; the handshake is external.
* On the payment path: the window and the limits, which the service's own runs cover
  (a request may be refused or held at will); durable stores, which this code does
  not have; several gateways over one rail.
* In the adapters: the arithmetic of decimals and the fields no check looks at; in the
  extensions: one that never returns, since nothing bounds its time.
* The approval-provider kit (`conformance/approval_provider.py`), which repeats the
  maker-checker's refusals one by one, and the isolation probes (`isolation.py`), a
  sequence of reads of the operating system with no state.
* TLS, HTTP and DER parsing, HTML, the demonstrations, the repository's tools and the
  reference deployment's scripts: a panel, a rail that always answers 200 and does not
  de-duplicate (so that `RailMoves` does not hold of it), and certificate generation.

Components not modelled are listed in `PROJECT.json` with the reason.

## 6. Plan

The components of section 1 are modelled, up to what section 5 lists. What would add
most next:

1. Durable stores for the gateway, once the code has them: what must be on disk before
   the rail is called for `OneCallPerKey` to hold of handles.
2. A fairness of the clients and the rail under which `PaymentPath` answers every
   waiting agent; the code bounds each wait, but no process is bound to come back.
