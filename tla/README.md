# A TLA+ model of the TOS trading core

This directory models the order-safety core of the repository: the *TOS* kernel
(`src/tos/src/tos`) and its application runtime (`src/tos/runtime/src/tos_runtime`).
Its question is the one the code is built around: **can an order be sent twice,
or a capacity be given back while its order may still be alive, whatever crashes,
is retried, comes late or comes twice?**  It also models the consume loop that the
streaming daemons of `src/shared` are built on.

Paths below are relative to `src/tos/src/tos/` (kernel, "K:") or
`src/tos/runtime/src/tos_runtime/` (runtime, "R:").

## 1. The system

A runtime process serves one (account, instrument) scope.  A *decision tick* makes
the engine walk a commitment flow of fourteen steps, each an injected stage that
admits or stops; step 9 occupies the scope in the engine's provisional ledger and
commits a reservation to the *Safety Commit Log* of the Risk Capacity Ledger (RCL),
step 12 binds an attempt, and then the attempt is handed to the broker egress
gateway.  The broker's answers return as events, possibly much later.  Capacity is
given back only by a finality proof.

| component | state | operations | talks to |
|---|---|---|---|
| RCL commit log (R:`rcl/log.py`, `gates.py`) | tables epochs, entries, reservations of one SQLite file | acquire an epoch, linearizable read, append / transition, approval-only gap, replay verification | evidence store (before every COMMIT); other processes, by the file's lock |
| Engine core (K:`engine/core.py`, `sequencer.py`, `state.py`) | last ordering coordinate; one provisional reservation per scope, result signatures, released attempts | tick, flow steps, result, release, discard | stages, transmit (gateway), evidence sink |
| Engine driver and inbox (R:`engine/driver.py`, `inbox.py`, `_timeout_tracker.py`) | events table with started/consumed marks, halt latch; in memory the coordinate counter, pending waits, gateway results | enqueue, process next, recover an interrupted row, inject timeouts, drain, clear the latch | core, evidence store, gateway, release consumer |
| Boot: replay and barrier (R:`engine/replay*.py`, `compose/_engine_wiring.py`, `recovery/*`) | none of its own; reads inbox, evidence, RCL | replay, compare, re-apply releases, hold or go | all durable stores |
| Egress gateway (K:`egressgw/gateway.py`) | consumed attempts and claims (memory), results | verify, claim, SEND_STARTED, one call | transport, evidence |
| Release consumer, entry discharge, unsent release (R:`posttrade/*`) | evidence rows and RCL transitions | consume a result, hold, release, discharge, discard | RCL, reconciliation, evidence, ledger |
| Evidence store, emergency log, outbox (R:`evidence/*`) | a hash-chained append-only table, key generation | append, rotate, verify, deliver | every writer |
| Halt latch and re-arm (R:`nontrade/latch.py`, `safety/*`, `compose/_cli_ops.py`) | one latch row, approvals | latch, quorum, clear | inbox, evidence |
| Fill observer (R:`posttrade/fill_observer*.py`, `fill_fetch.py`) | tracked attempts, due re-projections (memory) | poll, classify, emit, re-project | broker inquiry, inbox, release consumer |
| Reconciliation (R:`recon/*`) | none | compare receipts with a broker snapshot | release consumer, entry recovery |
| Operator commands (R:`compose/cli.py`) | a process of their own over the same files | rotate-key, rearm | evidence store, RCL, inbox |
| Composite state store (K:`staterestore/*`) | write-ahead log | write, reload | barrier |
| Streaming stage (`src/shared/streaming/stage.py`, `publisher.py`) | claim cursors and the disabled flag (memory); in Redis the streams, groups and pending entries | ensure groups, claim idle messages, read, handle, acknowledge, sweep vanished groups | Redis, the service's handler, other workers of the group |
| Stage policies (R:`authority`, `currentness`, `risk`, `riskstate`, `brokercap`, `venue`, ...; K: the `*` predicate packages) | configuration and observations | a verdict for a flow step | sequencer |

Around this core the repository holds market feed, calendar and time services,
the strategy DSL, a backtest harness, operator procedures (backup, key rotation,
schema migration), the dashboard API, a Next.js interface, and the legacy pipeline
under `src/shared` beyond its stream loop, whose live orders are blocked by policy.  `PROJECT.json` lists
all of them with what is modelled.

What is hard here: two runtime processes over one log file during a replacement;
two databases written by one commit; a process that may die between any two
durable writes and comes back by *replaying* its inbox; an order whose answer may
come late, twice, contradictorily or never; a latch that must hold across all of
that; workers of one consumer group whose streams expire under them.  `PROJECT.json` "hazards" names each at its line.

What makes each part correct:

- *Commit log*: a command takes effect once; only the current epoch is written under; no entry
  without evidence; a released reservation never returns; projection = replay.
- *Engine core*: at most one possibly live attempt per scope; nothing proven about an
  attempt is lost; ignorance is quarantined; a scope is reopened only by proof.
- *Driver and inbox*: a row is handled once, over crashes and retries; every row is
  finished by the drain that meets it; a restriction outlives a crash; a drain times out an
  unanswered send that is due.
- *Replay and barrier*: a boot rebuilds the ledger it left or refuses to start.
- *Gateway*: evidence before the network, one call per attempt, a nonce is used once.
- *Release consumer, discharge, unsent release*: capacity goes back once, for the right
  reservation, with proof, and log and ledger agree after a crash between them.
- *Evidence store*: one key signs at a time (which fails, finding 5), and a rotation that dies
  anywhere leaves a store that can be opened again.
- *Re-arm*: a clear needs two independent persons and uses their approval once; the way
  out of a halt never closes.
- *Streaming stage*: no message is skipped when a group goes and is made anew by whichever
  worker; a read is retried without a backoff only for a group that was missing; a
  message left pending by a dead or refusing worker is handled in the end.

## 2. Modules

| module | role |
|---|---|
| `RclVocabulary` | capacity states, causes, conservatism ranks, the lifecycle gate |
| `RclCommitLog` | the log: several processes, one file, one evidence store |
| `RclCommitLogProps`, `MCRclCommitLog`, `RclCommitLogProofs` | properties, instance, theorems |
| `ExposureSlot` | abstract specification: one slot per scope |
| `EngineCore` | flow sequencer and provisional reservation ledger |
| `EngineCoreProps`, `MCEngineCore`, `EngineCoreProofs` | properties and refinement, instance, theorems |
| `EngineDriver` | driver, inbox, evidence, replay, barrier, latch, timeouts, gateway send, release |
| `EngineDriverProps`, `MCEngineDriver`, `EngineDriverProofs` | properties, instance, theorems |
| `PostTradeRelease` | how capacity comes back: fill observer, reconciliation gate, release consumer, entry discharge and its recovery, unsent release pass, over the log, the evidence and the replayed ledger |
| `PostTradeReleaseProps`, `MCPostTradeRelease` | properties, instances |
| `PostTradeReleaseProofs`, `PostTradePositionProofs` | theorems about the log, the ledger and the recovery; theorems about the position at the broker, which build on them |
| `EvidenceStore` | opening the evidence store, appends and halts, key generations and rotate-key, by several processes |
| `RearmDoor` | extends it with the halt latch and the two-person door out of it |
| `RearmDoorProps`, `MCRearmDoor`, `RearmDoorProofs` | properties, instances, theorems |
| `StreamStage` | the consume loop of `MultiStreamStage`: several workers of one Redis consumer group over several streams |
| `StreamStageProps`, `MCStreamStage`, `StreamStageProofs` | properties, instance, theorems |
| `NatSetInduction` | induction over the naturals, for the proofs about folds, sums and closures |

Operators named `Mutant: ...` in their comments are deliberate defects.  No
specification uses them; each one, put in place of the definition below it, must
break the property `PROJECT.json` pairs it with.

### RclCommitLog

`epochs`, `entries`, `reservations` are the three tables (the entry of sequence
number *n* is `entries[n+1]`), `evidence` the payloads the evidence store holds,
`lock` the owner of `BEGIN IMMEDIATE`.  `held`, `view`, `call`, `outcome` are a
process's memory: its epoch, the epoch and tip of its last read, the call in flight and the
last answer.  A call names the epoch of its process, but a release names the one it has
just read as `current_epoch()` (`ReadEpochs`, `writer_epoch_of`): a process that has been
fenced can still release, under the epoch of the one that fenced it, which is what
`OutcomeIsTruthful` says of its receipt.  One call is the chain `Begin` – `InsertEntryAndReservation` –
`AppendEvidence` – `Commit` – `ReturnReceipt`; at each place it may also be refused
(`ChecksRefuse`), fail (`EvidenceFails`, `StoreFails`, `BeginBusy`) or die
(`Crash`).  `_commit_entry` rolls back for SQLite's exceptions only; any other one that
the checks or the insert raise leaves the transaction open and the lock taken (`CallRaises`) until
the process dies or calls `read_approval_only_gap`, whose handler rolls back
(`GapReadRollsBack`); every other call of that process fails at its own BEGIN.  The checks read the tables at the moment the lock is held, in the order
of `_pre_insert_checks`; `view` may be arbitrarily old by then.  `Init` also starts
from a file whose only transition was written before vectors were recorded, since
the replay has a branch for it.

Data abstracted: command bytes to a digest, a vector to a model value, the command
type to the classes that reads and callers tell apart.

### EngineCore

`reservations[s]` is the ledger's record, `signatures[s]` and `released[s]` its two
memories, `flow` the flow being walked, `sent` (history) the attempts given to
transmit.  The core is single threaded, so results, releases and discards happen
between flows; the flow itself is walked one step at a time since any step may stop
it.  A stage's verdict is nondeterministic.  `disposition` decides a result in the
order of `apply_egress_result`; `StoreAccepts` is the guard of `_store`, which
raises in the code.  Results are sent for every attempt handed off so far, in any
order, with any quantities.

### EngineDriver

`pc` names the place between two durable writes of `_process_next`; `Crash` may take
any of them and loses exactly the variables listed under "memory".  `evidence` keeps
the rows somebody reads back.  `replay_engine` is the boot's comparison: it follows
the receipts over a fresh ledger and says whether they agree and which ledger
results.  `BootReady`, `BootHolds`, `BootDiverges` are the three ends of a boot.
`Raise` is an exception that leaves `_process_next` to a caller that survives it;
the production loop does not catch, so a behaviour with `raises = 0` is one of the production
process, and one with more that of a caller that drains again, which is what the driver's in-process
recovery windows are for.  `ReplayReproducesLedger` and `RestrictionStopsNewRisk` are
stated up to the first survived exception: a caller that goes on after one between the
receipt and the latch goes on without the latch.

The core appears here by what the driver can see of it (`Sent`, `Unsent`, `Applied`,
`Releasable`); its own steps are `EngineCore`'s.  One scope, which is what compose
wires; results are ACK, FULL_FILL and the injected TIMEOUT.

### PostTradeRelease

One scope with its orders in the order of their commit (`orders`; entries and partial
or full closes), the reservation transitions of the scope in the RCL (`log`), the
evidence rows somebody reads back (`ev`, `receipts`), the broker's own state
(`broker`, which goes on filling between any two steps) and the memory of each
process (`mem`).  A process is at one place between two durable writes: in a
commitment flow (`VerifyLedger` – `AtomicCommit` – one of the ways a flow ends), in the
unsent release pass (`EndTurn` – `UnsentRelease` – `UnsentDiscard` – `UnsentIntent`), in a
poll of the fill observer (`Poll` – `StartApply` – one item after the other – `EndApply`)
or, for an item, in the release consumer and the discharge (`RecordObligation` ...
`Consume` – `PersistPending` – `PersistLink` – `ReleaseIntent` – `CommitRelease` –
`ProjectRelease` – `DischargeHistory` – `DischargeIntent` – `CommitDischarge`), with
`Resume` and `Mark` for the recovery of a discharge that was cut short.  `Crash` takes
any of these places; `Boot` replays (`ReplayedLedger`) and takes the epoch, after which
a second process may still be running: releases carry the epoch of the day, commits that of their process.

`durable_close_history` has the refusals of the code and the proofs each row must have
(full fill, never sent, release, entry binding); `reconcile` is the report as its
readers use it.  Three facts of the code that the model keeps and a reader may not
expect: an order that was not executed never releases through the consumer, because
the real reconciliation service has no witness for it; any attempt of the scope
whose receipt, witness and proof do not agree withholds every release of the scope;
and a flow that raised holds the next boot at the recovery barrier.  Abstracted:
quantities are small integers, field confidences, tolerances and the age of a snapshot
are left out, as are results of kind UNKNOWN and expiry of obligations.

### EvidenceStore and RearmDoor

`entries` is the evidence table (a row is its kind, the generation that signed it and
what it refers to), `keys` the key files, `rcl` the rotations the commit log knows,
`emergency` the lines of the emergency log, `proc` the processes: the runtime and the
rotate-key and rearm commands, at most one per slot.  Opening is two steps, the
continuity check (`Open`) and the lookup of the key (`ResolveSigningKey`), because the
code lists the files twice.  `Stop` is an end, an uncaught exception or a crash, at any
place.  Keys are staged and rotated whatever processes are up, since nothing in the code
keeps rotate-key apart from them; what then goes wrong is finding 5.  `NoOverlap`, the
documented promise, is a violation run; what does hold is `OnlyOverlapLocksStore`: wherever
rotate-key dies the next boot opens the store, unless a process that was up has put a
row of the retired key behind the rotation.

`RearmDoor` adds the latch and its three causes (a violation through `record_halt`, a
restrictive event, a controlled shutdown), each writing its row before the latch.  The
door is `Ask` (which latch?), `Evaluate` (file, latch, roster, earlier approvals),
`ConsumeApproval`, `RecordCleared`, `clear_new_risk_halt`; each refusal leaves its
row.  The latch is read before the earlier approvals in the code; one action reads both,
which loses nothing since the approval of a clear is durable before the clear.  Two
doors may be open at once, and both may record an approval of one latch: the second
ends in `StorageRefused`.

### StreamStage

`entries`, `group`, `pel`, `idle` are what Redis keeps of a stream (external: modelled
from the commands the loop sends); ids grow over all streams.  `worker[w]` is the memory
of a process: its place in the loop, the stream a loop over `input_streams` is at,
the messages still to process, `_pending_claim_start_ids`, `_pending_claim_disabled`
and the outcomes of a running sweep.  Every awaited command is a step, so anything may
happen between two: `EnsureGroups`, then per round one claim per stream
(`ClaimPending`, or `ClaimDisabled`, `ClaimFails`, `ClaimMissing` – `ClaimRecovers`), a
`Read` of all streams only if nothing was claimed, `HandleAccepts` – `xack` per message.
`ReadVanished` starts the `Sweep`, one stream at a time.  `HandleRaises`, `AckFails`,
`Crash` and `Stop` end the process; a supervisor starts it again.  `Vanish` is the expiry
or deletion of a key, or of the group alone.  A server without XAUTOCLAIM is an initial
state of its own.  Trimming by `maxlen` never happens, since the limit is far above
`MaxEntries`; the heartbeat, log rate limits and the daemons' handlers are left out.

## 3. Runs

| run | instance | what it shows |
|---|---|---|
| `rcl_log_safety` | 2 process slots, 1 reservation, 7 requests, 2 epochs, 3 entries, fair | evidence covers the log; nothing is appended under an epoch older than the newest of the log; a command commits once; held projection = replay; transitions form a chain; answers stay true, for releases under the epoch of the day too; an approval-only gap keeps capacity; the write lock is given back unless an exception that the code does not catch escapes |
| `engine_core` | 1 scope, 2 proposals, 2 coordinates, quantities up to 2, 3 applied results | one possibly live attempt per scope, no raise inside a result, settlement and fills never unwound, `ExposureSlot` implemented |
| `engine_driver` | 2 outside rows, 3 boots, a crash anywhere, 1 survived exception, fair | a row is handled once; "no send evidence" is never said of a sent tick; one live order; coordinates increase; until an exception is survived, replay reproduces the ledger and restrictions stop new risk; a drain that has begun consumes every row and times out what is due |
| `driver_lost_timeout` (violation) | 1 row, 2 boots, drains keep coming (`PolledSpec`) | finding 1 |
| `driver_clear_wipes` (violation) | 2 rows, 1 boot | finding 2 |
| `posttrade_release` | 1 process, 4 orders of quantity up to 2, 2 boots, 1 refusal of the log, fair | what the broker holds is reserved; closes never exceed the entry; a released close is not forgotten before its entry is discharged; at most an entry and a close in a scope; the replayed ledger covers the log; a flat scope is given back |
| `posttrade_takeover` | 2 processes, 3 orders, 2 boots | the same exposure promise while an old process finishes; the unsent pass's cached verdict keeps its anchor |
| `posttrade_unsent_crash` (violation) | 1 process, 2 orders, 2 boots | finding 3 |
| `operator_doors` | 2 processes (symmetric), 5 rows, or 2 key generations and 3 rows, 4 decision files | rotate-key leaves a store that opens, wherever it dies and whatever else is up, unless a process signed on with the retired key; a latch is cleared only by two independent persons; a latch is traceable to its cause |
| `doors_rearm_stuck` (violation) | the same, 3 rows | finding 4 |
| `doors_key_overlap` (violation) | the same as `operator_doors` | finding 5 |
| `stream_stage` | 2 workers, 2 streams, batches of 1, 2 messages, 2 faults, fair | no message is skipped; retries without a backoff are paid for by a missing group; a message is handled in the end unless its key goes |

Why the bounds are enough.  In the log, a hazard needs one process with an old view
and one that moved on, hence two slots and two epochs; three entries let a
reservation be committed, moved and released, and a command be retried after each.
Two proposals make two owners of one scope; two coordinates give before, equal and
after; quantities up to 2 give partial, full and contradictory fills; three applied
results enter, leave and re-enter quarantine.  In the driver, two outside rows are
two ticks, or a tick and what must stop it, and injected timeouts and drained
results come on top of them; three boots give a crash of the recovery itself, and one
survived exception a second meeting with an interrupted row in the same process.  What the
log and the engine core promise for more writers, scopes, permits and unresolved
sends is proved (section 5).  In a scope, four orders are an entry, two partial closes and
one that must be refused, or a second entry after the scope was given back;
quantity 2 makes a partial close; a second boot is the crash, and the
takeover.  For the doors, five rows are a cause, two approvals and two clears by two
processes; a staged key takes the room of two rows, and the three left are a row
before the rotation, the rotation, and its RCL row or the row of a process that
was up; two generations are one rotation.
For the stream loop, two workers race to make
a group again or share a pending list; two streams make a sweep that creates one
group and finds another, and a claim that finds messages in the first stream only; a
batch of 1 makes the cursor stop inside the list; two faults are a dead worker and a
vanished group.
`Window` is above every reachable inbox, as the deployment's 1,000,000 is.
`MaxEpoch`, `MaxLog`, `MaxApplied`, `MaxRows`, `MaxBoots`, `MaxRaises`, `MaxRef`,
`MaxQuantity`, `MaxAttempts`, `MaxQty`, `MaxRefusals`, `MaxGen`, `MaxRoom`, `MaxEntries` and `MaxFaults` are the
only bounds, all in guards or in the sets inputs come from.

Deadlock checking is off where the system may really stop: a log at its bound with
all processes down, a runtime that is down or held and not started again, a store
at its bound, and a stream loop with its messages handled and its faults spent.  It is
on for the engine core.

Fairness.  `RclCommitLog`: a running process executes its call (`WF` of `CallStep`);
nothing is assumed of when calls are made.  `EngineDriver`: a process that is up goes on
with the drain it has begun (`WF` of `ProcessNext`), and no more.  No loop of the code
polls `run_until_idle`: `run_forever` drains only by `enqueue_and_run`, on a pass that has
a tick, and the fill observer by the same call.  Without another tick, fill or other event
nothing is drained, so nothing times out, however long the wait; `EventuallyConsumed` and
`PendingTimesOut` are therefore about a drain once it has begun.  `PolledSpec` assumes
more (drains keep coming, time passes, a supervisor restarts) and is used only for
the violation of `driver_lost_timeout`, whose counterexample survives even that.
`PostTradeRelease`: the loop of the process goes on with what it started and polls, and
a supervisor starts the process again.
`StreamStage`: each worker's event loop goes on (`WF` of `Loop`, of which the failures are
no part), a dead one is started again, and time passes for a pending message;
failures are bounded in number and never excluded.
Nothing is assumed of the broker, the operator or the arrival of events, and crashes
are never excluded: `EventuallyConsumed` ends its promise when the process goes down or
an exception cuts the drain.

## 4. Findings

1. **A lost wait** (`driver_lost_timeout`).  The driver's module text says a hand-off
   without a result becomes a TIMEOUT once the bound elapses, and
   `_timeout_tracker.py` calls the alternative "fail-SILENT".  The waits are memory
   only and are set only in the process that made the hand-off; the boot's replay
   rebuilds the reservation and not the wait.  After a crash the attempt stays
   SENT_UNCONFIRMED with nothing timing it.
2. **A clear that wipes a newer restriction** (`driver_clear_wipes`).  `inbox.py` says
   a clear against an older sequence number can never wipe a newer violation.  The
   latch is first-wins (`INSERT OR IGNORE`), so a second restriction leaves the
   latched number as it was and the clear for the first deletes the only row.

3. **A discard without its intent** (`posttrade_unsent_crash`).  The unsent pass writes the
   row of the discard and then the row of its release intent.  Cut short between them,
   the next boot replays the discard, finds nothing held, and never writes the second
   row; `unsent_release.py` says such a pass is one "which the next boot's pass
   finishes".  If the order was a close, every later close history of its entry is
   refused, which is what `close_history.py` says must not happen ("would re-seal exactly
   the scope #974's release path exists to re-open").
4. **A door that locks itself** (`doors_rearm_stuck`).  The approval is consumed, durably,
   before the latch is cleared.  If the process dies between the two, the latch stands
   with the same number, and the single-use check, whose key is that number alone,
   refuses every later quorum; `inbox.py` calls an unclearable latch "too strong".
5. **Keys that overlap** (`doors_key_overlap`).  `custody/key_provider.py` says that a
   generation is valid from its rotation commit on, that the previous key is invalid for
   signing at the same moment, "overlap 0".  An opening process checks the list of key
   files and then lists them again to take the newest, so a file staged in between signs
   with no rotation on record: TLC's shortest trace.  And a process that is up while
   rotate-key runs keeps the key it opened with: its next row is signed with the
   retired one, and the next boot finds the history unverifiable.  No lock keeps
   rotate-key apart from a running process.

`ReplayReproducesLedger` also records two histories on which a boot diverges and the
runtime stays down: the receipt of an interrupted event, and a transmit that raised
before any hand-off was recorded.  Both are the safe side.

## 5. Proofs

All theorems are proved for every value of the constants that satisfies the named
assumptions.  Each states a property a run also checks, except `NoRevival` and
`QuarantineExact`, which are only proved, and the theorems that state an inductive
invariant (`Invariant`, `PositionInvariant`).

**`NatSetInduction`.**  The provers cannot instantiate an induction theorem whose
parameter is an operator.  The induction here is over a *set* of naturals: a
non-empty one has a least element (`WFMin` of the library, over `<`), so a set that has
0 and, with each number below a bound, the next one, has them all.  With it a recursive
function is handled in three steps: it exists, it is unique, and what its value
at `n` says follows from its value at `n - 1`.  The replays, the quorum's closure and the
sums below are all treated so.

**`RclCommitLogProofs`** (assumptions: `NoneIsNew`, `RequestsAreTyped`,
`BoundsAreNat`).  The inductive invariant `IInv` joins `TInv` (types; a call in flight
has a request), `TablesInv` (the four properties of the log, and `RowInv`: a row is
the last transition of its reservation) and `ProcessInv(w)` for every process.  The
properties of the log alone are not inductive: what `Commit` appends was checked
steps earlier.  `LockInv` says that the process inside a transaction owns the lock,
so nothing it checked can have changed (`PendingInv`: epoch current, tip as expected,
command new, from-state held, evidence present once "evidenced"); `CommittedInv` ties a
call between COMMIT and receipt to its entry.  From it: `TypeCorrect`,
`EvidenceFirst`, `Fencing`, `AtMostOnce`, `LifecycleChain`, `TruthfulOutcomes`,
`GapKeepsCapacity` and the action property `NoRevival`.  `ReplayAgrees` adds `ReplayInv`: there is a
replay of the log as it stands, and it ends in the held projection.  Appending an entry extends
the replay by one value, which `RowInv` compares with the row that was upserted.

**`EngineCoreProofs`** (assumptions: `ScopeOfType`, `BoundsAreNaturals`, `NoneIsNew`).
`IInv` is `TypeOK`, `FlowInv` (a flow past step 9 owns its scope's reservation, past
step 12 with its attempt bound), `SentAttemptIsHeld`, and for every scope
`ScopeInv`: ownership of attempts, the stage of life that capacity and knowledge may
have together, the quarantine facts, where an attempt came from, and that signatures
belong to sent attempts.  From it: `TypeCorrect`, `AtMostOneExposure`,
`QuarantineExact`, `ResultsNeverRaise`, the action properties `SettlementKept` and
`FillsKept`, and the refinement `CoreImplementsSlot` (initial states map to initial
states; every action is shown to be a step of `ExposureSlot` or a stutter).

**`EngineDriverProofs`** (assumptions: `BoundsAreNaturals`, `NoneIsNew`).  `IInv` says what
the code has established of the row in hand at each place between two durable writes
(`PlaceInv`), how rows, markers and receipts fit (`StoreInv`), that the core was called
only with marked rows (`HandleInv`) and that an order went out only after the entry that
says so (`NetworkInv`).  From it: `TypeCorrect`, `RowsAreHandledOnce`,
`DroppedWasUnsent`, `CoordinatesIncrease`.

- `RestrictionHolds`.  `RestrictInv`: a restriction that nobody cleared is latched, is about
  to be latched, or left a row that keeps the recovery barrier closed.  It is inductive
  as long as no exception was survived.
- `OneOrderAtATime` assumes that the inbox always fits the replay window (the deployment's
  window is 1,000,000 rows); with a smaller one a boot does not see the tick of a
  live order.  `LiveInv`: the one order that may be live occupies the ledger of every
  process that drives.  For a boot this is a statement about the replay: the row of a sent
  tick has a receipt that installs it, and nothing after it removes it but a release.
- `ReplayRebuildsLedger` assumes the same window.  `ReplayInv` compares memory with a *steady*
  replay, one whose inputs no later step can change, and says by how much memory is ahead of
  it between a change and the entry that records it; it too is inductive until an
  exception is survived.  At a boot the real replay is shown to be the steady one.

**`RearmDoorProofs`** (assumptions: `StoreConstants`, `FilesAreTyped`, whose principals are
a finite set).  `TraceInv` and `DoorInv` follow a process on its way: what it has written is
what the latch will name, and the quorum, its record and the clear's record come in this
order.  From them `HaltsAreTraced` and `ClearsHaveQuorum`; for the second, the code's
collapse of the control graph is shown to compute its connected components.
`KeysOnRecord` is `KeyInv`: every row has a key that is there, a rotation is signed with the
generation it names, and the RCL hears of a rotation after the store has it, whatever
processes are up.  `LockedOnlyByOverlap` follows: a history is unverifiable
only if the newest key was rotated to and the last row has an older one.

**`PostTradeReleaseProofs`** (assumptions: `BoundsAssumption`, `NoneIsNew`).  Any number of
processes over one scope, the replaced ones still releasing.  What makes it work is
`UnboundInv`: while a reservation is unbound its commit is the last row of the log.  A
commit needs the current epoch and, for a close, the tip that was verified; the
release of a fill and a discharge are refused unless the log is where they read it.  So what the process in charge verified is
still true when it commits (`CommitInv`), and `ScopeIsShaped` follows.  `ReleasedInv`
says why a reservation is where it is: a full fill or a flow that never sent; a released
close has its recovery row, written before the release, which gives `CloseIsFound`.
`Anchor(e, c)` is the one entry that a close was committed over; the pending rows and the
jobs of all processes agree on it.  `HeldInv` is the ledger of the process in charge, also
after a replay: `NewestIsHeld` and `LedgerCovers`.  `ProcInv` is stated about the record a
process keeps, so that a step of another process is one lemma: the stores only grow.

**`PostTradePositionProofs`** continues with the position at the broker.  `PosAt(k)` is the
sum of the fills of the first `k` orders.  `PosInv`: every OPEN starts from a flat position
and every CLOSE fits in the position before it; attempts follow each other in the
log; a verified close still fits when it is committed, and the close of a discharge left
the scope flat.  Only the newest order can still fill, since all others are full or were
never sent.  The history of closes that `durable_close_history` proves is shown to
sum to that position: candidates it counts are the closes since the entry, and those it
leaves out were never sent.  A discharge whose fence still matches is that of the
newest order; any other one is refused by the log.  From it: `ExposureHolds` and `NeverShortHolds`.

**`StreamStageProofs`** (assumption: `ConstantsAssumption`, with finitely many workers).
`NothingSkipped` alone is not inductive.  `IndInv` adds the types of what Redis keeps, that every worker is a record
(the actions use `EXCEPT` on it), `IdsBelow` (a new message is past every group, so a
publish adds nothing that counts as delivered) and `AckIsEarned` (a worker about to
acknowledge has an accepted message in hand, so `xack` takes nothing else out of the
pending entries).  One lemma per kind of step: those that leave Redis alone, those that
may make a group, the read, the acknowledgement, the world.  From it:
`NoMessageSkipped`.  `EveryRetryIsPaid` is an account (`PaidInv`): the retries so far, the
sweeps that have made a group and not yet retried, and the groups that are missing are together
at most the groups that have gone; the streams that no worker has come to
yet are left out of the count.

Only model-checked: liveness (`LockIsReturned`, `EventuallyConsumed`, `PendingTimesOut`,
`EntryEventuallyDischarged`, `EventuallyHandled`), which is out of the prover's reach, and
the five findings, which are counterexamples.  `ReplayReproducesLedger` and
`OneLiveAttempt` are proved under the hypothesis named above; every other invariant and
action property of a passing run is proved without any.

## 6. Plan

1. RCL commit log. *Modelled, checked and proved.*
2. Engine core and the abstract slot. *Modelled, checked and proved.*
3. Driver, inbox, replay, barrier, latch. *Modelled, checked and proved.*
4. Release consumer, entry discharge and its recovery, unsent release pass, fill
   observer (`PostTradeRelease`). *Modelled, checked and proved.*
5. Evidence store with key rotation; re-arm quorum and latch (`EvidenceStore`,
   `RearmDoor`). *Modelled, checked and proved.*
6. Consume loop of the streaming stages (`StreamStage`). *Modelled, checked and proved.*
7. Proofs to come: that the driver's steps are steps of the engine core where the two
   overlap, and an abstract specification of the release that `PostTradeRelease` implements.
8. Egress gateway with its claim ledger: single use of nonces and attempts, evidence
   order; composed with the driver's restart.
9. RCL kernel reducer: limits, stale revisions, idempotent replay, grants and
   capabilities.  Composite state store: write-ahead log and reload.
10. A replay window smaller than the inbox.

## 7. Not modelled

The numerical content of stages (risk, currentness, brokercap, venue): the flow may
stop at any step instead.  Market data, strategies and backtests: pure computation.
HTTP transports, dashboard, interface, files and YAML: I/O.  Hash functions: a digest
is a model value, equal exactly for equal content.  SQLite itself: a transaction is
atomic and durable, its lock exclusive.  The outbox of the
evidence store, which nothing in production enqueues to.  The legacy pipeline under
`src/shared` except the consume loop of its daemons, and the research, collector and tooling code around it, which is most of the
repository's lines and has no part in the order path of the TOS runtime.
