# khor: a TLA+ model of its trust, its transfers, its event store and its installer

khor joins the machines of one person into a network without a server, runs
agents on them and keeps itself up to date. This directory holds TLA+ modules of
the parts where order, failure and interruption decide what is true afterwards:

- *trust*: who signs the list of machines, how the list spreads, how a machine
  comes in, leaves and is shown out, and what a crash in the middle of a pairing
  leaves on the disk;
- *document transfer*: how a shared document is carried between two machines
  that stop, lose answers and change it meanwhile;
- *the event store* of an agent connection, and the host that ends a turn only
  when its events are there;
- *the installer*: how a new program takes the place of the old one under a
  keeper, and how it goes back.

TLC checks the modules on small instances. TLAPS proves for instances of every
size: the invariants of the settlement of a pairing, of the installer, of the
event store with its host and of the transfers; that the settlement and the
transfers implement their specifications; and, for the mesh of machines, that
removals and revocations last, that rosters never fall back and that a holder
stays on its roster, under the conditions section 4 names.

Source paths below are relative to `src/crates/`.

## 1. The system

| Component | State | Operations | Shares state with |
|---|---|---|---|
| Signed records (`net/src/trust.rs`) | none; values signed by a root key | genesis, admit, revoke, refresh, verify, newest, settle | everything that reads trust |
| Device table (`sync/src/devices.rs`) | last-writer-wins registers `<id>/<field>`, the TRUST map of rosters and archives | upsert, set_gone, set_cert, keep_only, put_roster, drop_rosters, merge | trust verbs, rounds, pairings |
| Trust verbs (`node/src/trust.rs`) | `.khor/root.pub` (anchor), `.khor/root.key`, `.khor/pending` | bootstrap_trust, trust_tick, pending, approve, revoke, root_init, root_recover, leave_trust, take_vouch, prepare/apply_pair_settlement | device table, settlement rows, root fence |
| Pairing (`node/src/link_pairing.rs`, `node/src/doc_transfer_state/pairing.rs`) | claim and local rows, settlement rows, invites, staged rosters | Start, Commit, Accept, abort, recover, collect, the exchange of tables | trust verbs, transfer journal |
| Rounds and the gate (`node/src/link.rs`) | running rounds, when a peer was vouched to | pump, round, vouch, leave | device table, transfer journal, transport |
| Document store (`sync/src/store.rs`, `store_apply.rs`) | a pile of op files per document, pens (writer leases), epochs | load, flush, reseed, compact | every shared document |
| Document transfer (`node/src/doc_transfer_state*`, `node/src/link_doc_transfer.rs`, `sync/src/doc_transfer*`, `sync/src/transfer.rs`) | journal of outgoing and incoming transfers, staged bodies | offer, receive, import, acknowledge, collect | rounds, pairing |
| Transport (`net/src/endpoint.rs`, `carry.rs`, `path.rs`, `node/src/wires.rs`, `roadbook.rs`, `tunnel.rs`) | wires, roads, back-off | dial, carry, leave alone | rounds |
| Joining over ssh, satellites (`node/src/join.rs`, `satellite.rs`) | external processes | add, promote, sample | pairing, device table |
| Live sessions (`node/src/live*`, `session_recovery.rs`, `host.rs`, `gui_host.rs`, `session_content*`) | rows, hosts, journals, one recovery attempt per row | start, join, recover, close | runtime |
| Delegation (`node/src/delegation.rs`, `remote_cancel.rs`, `mcp*.rs`, `a2a/src/`) | task ledger, cancellation intents, leases | accept, claim, update, cancel, recover | agents on other machines |
| Agent protocol (`acp/src/`) | event store, byte budget, interactions | append, replay, wait for credit | live sessions |
| Runtime images and updates (`runtime/src/`, `update/src/`) | images, leases, install receipt | stage, activate, recover, roll back | the installed program |
| Other documents (`sync/src/chat.rs`, `accounts.rs`, `pins.rs`, ...) | registers and lists | per document | rounds |
| Front ends (`cli/`, `commands/`, `web/`, `catalog/`, `apps/`) | none to speak of | parse, word, show | node |

Four of these parts are modelled. They meet in few places, so each is a model of
its own.

A machine believes an *anchor*, the public half of a root. The root's holder
signs *rosters*; each roster lists certified and revoked machines and has a
version, `seq`. Rosters travel in the device table, which machines that admit
each other merge in *rounds*. Whether a machine is admitted depends on the newest
roster under the reader's own anchor, on the certificate in the other machine's
row and on the row's `gone` mark.

A round carries every shared document whose versions differ. The sender plans a
*transfer* from what the recipient has to what it has now, stages the body and
sends it in chunks; the recipient stages them, merges the body into its document
and answers with a *receipt*. The sender lets go of the plan when it has the
receipt, and acknowledges it so that the recipient may let go of its record.

What an agent says is numbered, spooled to disk by one thread and read in order
by one receiver. Handlers wait for *credit* before they may queue. When a prompt
is answered, a *fence* says how far the stream was then, and the host counts down
what is left before it ends the turn.

An installation stages an *image*, writes a *receipt* of its own, reserves the
image, moves the pointer `current`, tries the program once and records the
outcome. Whoever starts next settles what was cut short. The *keeper* starts the
selected program and confirms, or takes back, a selection whose program did not
come up.

What is hard here:

- **Interleaving.** Tables merge in either direction and any order; a roster
  that closes the gate between two machines stops its own delivery; two
  pairings settle against rosters that were read at different moments.
- **Crashes.** A settlement makes ten writes to five places (journal, staged
  body, invite, anchor, table, key) and any of them may be the last.
  A transfer's journal, staged bodies and document are three files, and so are
  the installer's receipt, pointer and images.
- **Old messages.** A vouch and a pairing's offer carry rosters read earlier. A
  transfer's request may be served after its sender gave up.
- **Waiting.** A handler waits for credit that a thread gives back; a thread
  sleeps on a condition that tasks change; a receiver waits for both.
- **State read twice.** A visit compares epochs it read steps ago. The keeper
  reads the pointer and the receipt without the installer's lock.
- **Deletion in a replicated document.** Leaving deletes in a replica that is
  merged again later.
- **Time.** Rosters go stale, and the holder must sign them again.

What makes each component correct:

| Component | Properties |
|---|---|
| Signed records | one roster per seq under one holder; which root gives way never strands a network |
| Device table | the last-writer-wins registers never decide which roster counts; a removal outlives merges |
| Trust verbs | revocations stick; machines agree in the end; the holder stays on its roster; the date stays fresh; every member gets a new root |
| Settlement | a decision is carried out once and completely, or not at all; keys go last; nothing moves in between |
| Pairing | both sides end under one root |
| Transfers | a receipt is true of the recipient's disk; a plan is let go only when its target has arrived; no body is orphaned; copies and journals settle |
| Event store | credits are exact; events come in order and none is lost before the end of a turn; whoever waits is woken |
| Images and installer | what is selected, may be gone back to, or runs stays on disk; what is cut short is settled; late answers change nothing |
| Store (planned) | no op is written twice under one pen; a reseed loses nothing |

`PROJECT.json` lists every component with its status, every hazard at its line,
and, for each definition, the lines it stands for.

## 2. The modules

| Module | Models |
|---|---|
| `Roster` | `net/src/trust.rs`: rosters as values, what a holder signs, `newest`, `lone`, `settle`, and `standing` of `node/src/trust.rs` |
| `DeviceTable` (extends `Roster`) | the registers of `sync/src/devices.rs` with their stamps, the TRUST map, deletion, merge, and `store_roster_at` |
| `TrustMesh` (extends `DeviceTable`) | several machines, their verbs, rounds, vouches, pairings |
| `DeviceTableProofs` (extends `DeviceTable`), `TrustMeshProofs` (extends `TrustMesh` and it) | what each operation does to a table or a roster; the inductive invariants of the mesh and the theorems |
| `PairAdmission` | what pairings promise about one machine's trust: the abstract specification |
| `PairSettlement` | the writes of `prepare_pair_settlement` and `apply_pair_settlement` one by one, who else may run in between, interruption anywhere, recovery |
| `PairSettlementProofs` (extends `PairSettlement`) | the theorems |
| `DocDelivery` | what transfers promise about one document on two machines: the abstract specification |
| `DocTransfer` | `node/src/doc_transfer_state.rs` and `node/src/link_doc_transfer.rs`: journals, staged bodies, visits, the handler that answers them, crashes and lost answers |
| `DocTransferSteps` (extends `DocTransfer`), `DocTransferProofs` (extends it) | the inductive invariant, what each operation keeps at every cut, the theorems |
| `EventStore` | `acp/src/event_store.rs`, its budget, and the driver and opening in `acp/src/lib.rs` |
| `HostTurn` (extends `EventStore`) | the store together with the loop of `node/src/gui_host.rs` that reads it |
| `HostTurnStream` (extends `HostTurn`), `HostTurnProofs` (extends it) | the inductive invariant, its proof and the theorems |
| `ImageStore` | `runtime/src/store.rs` and `lease.rs`: images, selections, reservations, leases |
| `CliInstall` (extends `ImageStore`) | `update/src/install.rs` and the keeper of `node/src/keeper.rs` over the image store |
| `CliInstallProofs` (extends `CliInstall`) | its theorems |
| `MCTrustMesh`, `MCPairSettlement`, `MCDocTransfer`, `MCHostTurn`, `MCCliInstall` | values of the constants for TLC |

In every module a definition whose comment begins with "Mutant" is a plausible
mistake: the definition of the same name without the suffix is what the code
does, and the property named with it in `PROJECT.json` fails with the mistake in
its place.

`TrustMesh` and `PairSettlement` look at the same code at two grains. In
`TrustMesh` a settlement is one step of a machine's disk. `PairSettlement` takes
it apart on one machine; the other machines are the rosters they have signed.

### TrustMesh

| Variable | Code |
|---|---|
| `doc[m]` | the device table on m's disk |
| `anchor[m]`, `key[m]`, `notes[m]` | `.khor/root.pub`, `.khor/root.key`, `.khor/pending` |
| `born` | the roots that were generated |
| `pairs` | for each pairing: its two sides, its phase, the offer and the reply fixed on the way |
| `vouch` | vouches on their way, with the roster fixed at the start |
| `leaving` | machines between the two halves of `khor leave` |
| `now` | the day |
| `used`, `door` | how many verbs people have used (a bound); whom each machine was shown out and not told to take back (a history variable of one property) |

Each verb is one action: it holds the root fence and flushes the table before it
lets go. Exceptions are the places where the code lets go in between: `leave`
(`LeaveTell`, then `LeaveEmpty`), vouching (`VouchStart`, `TakeVouch`), a pairing
(`PairStart`, `PairCommit`, `PairAccept`, and `PairDocs` per direction), and
`root_init`, which may stop half way (`RootInitStops`).

Abstractions:

- Signatures. A roster or certificate exists only if one of the signing
  operators built it, so verification is a comparison of roots.
- The bytes of a roster, which break ties, are a number; `Write` keeps two
  different rosters of one root from being tied in every respect.
- Days instead of milliseconds. Satellites, kinds and expiry are left out
  (certificates are always issued without an expiry).
- A row is its trust-relevant registers. Deleting a register is a write with a
  stamp, as in the document underneath.
- A settlement that would be refused while it is applied (`Completes`) is not
  followed in this module; that is what `PairSettlement` is about.

### PairSettlement

| Variable | Code |
|---|---|
| `anchor`, `key` | the two files |
| `kept`, `archive` | the table's TRUST map: rosters under their own keys, and under `pair-archive:` keys |
| `ver` | the table's version vector, an entry per pen |
| `claim`, `plan` | the `Claim`/`Local` row and the `Settlement` row |
| `invite`, `blob` | the ticket's file; whether the staged body is `VerifiedComplete` |
| `pc`, `cur`, `pen`, `mem` | the one worker (the state's gate is exclusive): its step, its pairing, the pen it leases, the version it is about to write |
| `signed` | rosters of this machine's root that exist, so that others can present them |
| `faults`, `edits`, `moves` | bounds |
| `overtaken` | a history variable: the roots of plans whose saved version others' edits reached before a flush (section 5); nothing in the model reads it but properties |

`Interrupt` may stop the worker after any write: a crash, or an I/O error that
ends the attempt. `Recover` is `recover_pairing`. `Sign`, `RootInit`, `Arrive`
and `Leave` are the changes of trust that take the fence and are refused while
recovery is pending; `Edit` is a write to other fields of the table, which takes
neither the fence nor the gate and uses whichever pen is free.

One simplification is that `Admitting` counts one `seq` when a holder has to
enrol both sides of a pairing. The number is compared, never used as a
distance.

### DocTransfer and DocDelivery

| Variable | Code |
|---|---|
| `disk[m].out`, `.in` | the journal's `Outgoing` and `Incoming` records |
| `disk[m].blob` | the staged bodies and how many chunks each has |
| `disk[m].ver`, `.epoch` | the document's version vector and the epoch of its pile |
| `visit[m]` | `Work` of the visit m makes: its place, what it asked or was answered, the plans it pushes and pulls |
| `late` | requests whose sender is gone and that may still be served |
| `world`, `faults` | the surroundings of this behaviour (who dials, who reseeds, how many edits and faults), and the faults so far |

A step on the state holds the journal's gate from `State::open` to its end, so it
is one action. Inside it the code writes several files one after the other. Each
operation is therefore an operator that returns its result, the disk it leaves,
and its *cuts*, the disks between two of its writes; `Crash` leaves any of the
cuts of any step that may be running. `Then` puts one operation after another and
ends with the first that fails; `Each` does so along a list of receipts. `Opened`
and `Ran` put the cleanup of `recover_completed_cleanup` and the check of
`reconcile_references` before every step, and `Noticed` puts `deliver_doc_notices`
after it. Between its steps a visit
waits for the other machine, which may edit, reseed, visit in its turn or stop.

`DocDelivery` knows versions, epochs and the open plans. Its promise is that a
plan is let go only when the other copy covers its target, or has another epoch;
and that a copy changes only by its own edits, by a transfer's whole content or
by being rebuilt. A plan is published with a target its machine has, or, when it
was recorded and staged before the copy was rebuilt and a crash kept it from being
published, with one of an earlier epoch: `read_outgoing` refuses to read that one,
but it is on record as ready. `ImplementsDocDelivery` maps the `Ready` records to
the open plans.

### EventStore and HostTurn

| Variable | Code |
|---|---|
| `st` | `State`, all fields under the mutex, and the atomic `cancelled` |
| `progress`, `completed` | the two watch channels |
| `budget` | `BudgetStats` |
| `spool`, `worker` | what the worker thread owns, and where `run_io` is |
| `call[p]` | where each protocol handler is in its call |
| `driver`, `opener` | the task that owns the transport, and `start_transport` |
| `rx` | the receiver: registered, parked, woken, ended, dropped, and the questions in the client's hands |
| `tail`, `snap` | what an actor still owes after a critical section, and the progress it read in it |
| `turn`, `host` | the task that answers and fences a prompt; `pending_completion`, `remaining`, `deferred_ending` |
| `trouble` | the one kind of trouble of this behaviour |

A step is one critical section, or one physical operation of the worker. What the
code does after it lets go of the mutex (publishing progress, closing the budget,
waking) is owed, one entry of `tail` after the other, and other actors come in
between. A receiver or a handler that waits holds a registration, and only a
notification that reaches it makes it look again.

### ImageStore and CliInstall

| Variable | Code |
|---|---|
| `images`, `recent`, `reserved`, `held` | the generations on disk, `index.json`, the `.reservation-` files, the leases |
| `current`, `receipt` | the pointer; `update.json` |
| `source` | the program found before khor managed any |
| `job` | what the holder of `update.lock` does, and its next write |
| `keeper` | its place, the program it runs, whether that start is pending |

Every operation of the store is one step, since it holds the catalog's lock; a
collection removes any part of the garbage. An operation of the installer is a
step per write, under `update.lock`; `Fails` ends it with an error and `PowerFails`
stops everything between any two of them. The keeper's readings take no lock.

## 3. The runs

Each pass run finishes on its full instance; the bounds are constants named in
the `.cfg`, or fields of the worlds in `MCDocTransfer`.

| Run | Instance | Checks |
|---|---|---|
| `MeshVerbs` | three machines, of one root or from before roots; three verbs of revoke, forget, approve, `root_init` and `root_init` that stops half way; one vouch at a time; two tie-breaking values; fair | `RevocationSticks`, `Converges`, `ShownOutStaysOut`, `OneRosterPerSeq`, `HolderOnRoster` |
| `MeshPair` | a network of two and a fresh third machine with a root of its own; two verbs of pair, forget, recover, leave, revoke, collecting archives and reading `khor pending`; one pairing, from any side; two tie-breaking values | `NobodyStranded`, `OneRootAfterPairing`, `SeqNeverFalls` |
| `MeshLegacy` | three machines from before roots, two verbs, three days with roster life 2 and renewal after 1, so that a roster may go stale; fair | `InitReachesAll`, `StaysFresh` |
| `SettleSafe` | two pairings, one pen, one crash, and one edit, which is as many ops as a settlement has, or one other change of trust; fair | `TypeOK`, `OneOpenPlan`, `RecoveryHasItsInputs`, `BurnIsOwned`, `AnchorHasRoster`, `AppliedPlanFinishes`, `KeyRetiredOnceCovered`, `ImplementsPairAdmission` |
| `DocVisits` | two machines, bodies of two chunks, two records and two stages; six worlds: one dials, with three edits and two faults; both dial; both dial, with one fault; both reseed; both reseed, with one edit and one fault; one reseeds, with one fault; fair | `TypeOK`, `StagesReferenced`, `ReceiptsTruthful`, `NoticeBeforeRelease`, `ImplementsDocDelivery`, `Converges` |
| `StoreTurns` | one handler, two events of size one or above the window, a window of two bytes and two records, one question; every kind of trouble; a turn of the host in three of them | `TypeOK` (with the window), `CreditsExact`, `NextInOrder`, `NothingHeldAtShutdown`, `TurnDrained` |
| `StoreWaits` | one handler, a window of one record, events of size one or above the window; a failing disk, or a foreign notification under a turn; fair | `ProducersAnswered`, `ReceiverWoken`, `WorkerStops`, `TurnSettles` |

Why the bounds are enough to be interesting. Every hazard of the mesh needs at
most three machines: one that signs, one that is signed about and one that hears
of it late. Two or three verbs are what it takes to have one overtake the other;
rounds are not bounded and may happen in any order between them. Opening a node
and the trust beat are not bounded either. In `PairSettlement` a second pairing
is needed to have something to recover in between, and one crash is enough to
separate any two writes. In `MeshLegacy` a roster is old enough to be renewed after
a day and stale after two, and a third day lets readers meet a stale one. `Tails` has two values where two holders, or two machines
with the same words, may sign the same seq; with one value such steps are cut
off. A transfer needs two chunks for a body to be partly there, a second edit to
make a plan that is older than the document, and two records and stages to fill
the journal. A window of two has a giant, two records side by side and a waiter;
a second event is what a lost wake-up would strand. Three installations are a
first, one on top of it and one that meets what the second left. Deadlock is not
checked: a model whose people have used up their verbs and whose copies agree
stops.

Some bounds are there because a property fails beyond them.

- `MeshPair` allows two verbs and one pairing. With three verbs leaving and
  pairing again undoes revocations (`MeshLeaveRepair`). With two pairings of one
  machine and three roots the two sides need not reach the same verdict
  (section 5). With one pairing that they do is what `SettleAgrees` proves of the
  rule, and no run checks it again.
- The bounds of `SettleSafe` exclude neither kind of trouble that section 5
  describes: one edit may reach a saved version, and the change of trust may come
  between a crash and its recovery. The properties name these cases instead:
  `overtaken` for the first, and `AppliedPlanFinishes` speaks of plans that apply.
  Edits that reach a saved version only together need more of them; the theorems
  of section 4 cover any number.
- `InitReachesAll` is checked without `RootInitStops`: after a stopped
  `root_init` the next start certifies one machine only, and `root_init` is
  refused from then on.
- `Converges` of `DocTransfer` is claimed for worlds in which nobody reseeds
  (`DocReseeded` shows the others).
- `TurnDrained` excepts a store that failed, see section 5.

### Fairness

- `Round`, in each direction, and `TrustTick` on each machine are weakly fair:
  the pump visits every row again and again, and the trust beat follows each
  visit. A round is possible only while both gates are open, and nothing in the
  code makes it possible again once a gate closes, so nothing stronger is
  assumed. Verbs, pairings, vouches and the clock are not fair.
- In `PairSettlement` the worker runs to its end (`Apply`), and `Recover` is
  fair, because `Node::open` and every pairing step begin with it. Nobody has
  to start a pairing or give one up.
- In `DocTransfer` a machine that can dial starts a visit as long as one is due
  (the pump), a visit that runs goes on, and what it asks is answered. Edits,
  reseeds, crashes and lost answers are not fair, and are bounded; `late` requests
  need not be served.
- In `HostTurn` the worker is a thread whose operations return; what an actor
  owes follows without a wait; handlers, the fence's task and the host's loop are
  polled when they can move; the awaited process ends. The agent need not say
  anything, and nobody need close, fail or answer a question. A parked receiver
  is polled again only when it was woken, which is what `ReceiverWoken` is about.
- In `CliInstall` whoever holds the lock goes on, and `Recover` is fair, because
  every process runs it when it starts (`process_entry`). Nobody has to install,
  confirm or fail.

## 4. The proofs

### The settlement of a pairing

`PairSettlementProofs` holds for every set of pairings, roots and pens, every
set of foreign rosters and every value of the bounds, under
`SettlementAssumption`: that `None` is none of the other values, that this
machine's root is a root and that others sign only for their own.

- `Invariance`: `IInv` is an invariant. It is the conjunction of `TypeOK`, the
  three safety properties below, and three strengthenings. `PlanInv` ties a
  plan's stage to the phase of its pairing (a finished plan belongs to a pairing
  past Receiving, which is why it can neither be prepared again nor aborted).
  `WorkerInv` says what the worker's step implies of its plan (between `stage`
  and `ready` nothing is open; from `check` on its own plan is). `TrustInv`
  follows the anchor and the key through a settlement: a saved target means that
  the anchor was published.
- `TypeCorrect`, `OnePlanAtATime`, `RecoveryIsProvided`, `BurnsAreOwned` follow.
  None of these properties is inductive alone: that no second plan opens, for
  example, needs that a worker which is about to mark one ready has found
  nothing to recover and that nobody else can open one meanwhile.
- `Refinement`: `Spec => Abstract!Spec`, with a pairing *decided* by the write
  that marks its plan ready and *admitted* by the one that finishes it. The
  lemma `StepRefines` goes through the actions; `OnlyOne` turns the single open
  plan of `IInv` into the abstract guard, and `TrustInv` gives the anchor and
  the key the abstract steps require.

Each action has a lemma of its own (`StageKeeps`, `FlushKeeps`, ...), and
`StepKeeps` puts them together.

- `AnchorAlwaysHasRoster` and `KeysRetireOnceCovered` rest on a second invariant,
  `AnchorInv` (`AnchorInvariance`), for any number of edits, crashes and other
  changes of trust. A settlement saves the version it is about to write. After a
  crash, others' edits may bring the table to that version, and recovery takes it
  for written. The code does nothing against that, so nothing is assumed against
  it either: `Edit` puts the root of such a plan into `overtaken`, the flush takes
  it out, and both properties hold for every root outside. For one inside,
  `KeyRetiredOnceCovered` still says that the anchor is published and the saved
  version on disk before the key goes. `SavedInv` says that a version reached any
  other way was flushed, with its roster. `Undone` is what makes a plan applicable
  after the anchor moved, `TableInv` that an open plan which has moved it is one of
  these, and that an anchor has its roster wherever no recovery is pending.
  `StepInv` ties the worker's copy to the disk: its own pen is `SettleOps` ahead,
  the others are not, so that the flush brings the table to the saved version.

### The mesh

`DeviceTableProofs` and `TrustMeshProofs` hold for any set of machines, members
and roots, any days, limits of a roster's life and tie-breaking values, and any
set of verbs but for those a theorem names. The assumptions (`RosterAssumption`,
`RankAssumption`, `MeshAssumption`) say that `None` is no other value, that ranks
tell machines apart, and that the first network has a member and a root exists.

`DeviceTableProofs` is about values: what each write leaves of a table
(`SetCertIs`, `MarkGoneIs`, `PutEntryIs`, ...), that a merge takes each register
from one of its sides and keeps the newest roster of both, that `Newest` is one
of the rosters and above the others, and what `genesis`, `admit`, `revoke` and
`refresh` sign. `SettleAgrees` is the rule of a pairing on its own: given the same
two rosters, both sides clash or neither does, they end under one root, and at most
one gives its root up, which then certified no other machine. Greatest elements (of
stamps, of rosters) are found by a least upper bound (`BoundedMax`, from `WFMin`),
since nothing can be proved by induction over data here.

`TrustMeshProofs` first says of each action what it does to tables, anchors and
keys (`OpenIs`, `RoundIs`, `LeaveEmptyIs`, `SettlementIs`, ...), and from these that
a step is one of nine kinds (`NextKinds`): one machine writes its own table, two
tables are merged, a pairing settles, and so on. The invariants are proved by kind.

- `MeshInvariance`: `MeshInv` for both specifications, without any condition. It
  is the type invariant, with tables whose stamps and numbers are bounded (so that a
  newest exists); that rosters of a root are told apart by what `newest` compares; and that
  every root in use was created.
- `StaysShownOut`, if nobody uses `leave`. `DoorOK` says that whoever was shown
  out has the mark on, and that a mark which says nothing was never written: then
  only a deliberate `false` can win over it in a merge. With `leave` a deletion
  can, and does (`MeshLeaveDoor`).
- `HolderStaysOn`, if nobody uses `leave` or `recover`. `HolderOK` says more than
  the property: a root has one holder, *every* roster of that root that is stored
  or under way admits it, and its own row is not marked. The property alone is not
  inductive, as an older table may arrive. With `leave` it is false: a holder that
  is between the two halves of leaving sees its own row in `khor pending` and may
  approve its own removal. With `recover` a root has two holders and the invariant
  says nothing; TLC finds no violation with three verbs.
- `OneRosterEach`, `SeqsRise` and `RevokedUntilCertified`, for a network of one
  holder: no pairing, and nobody types in the words on another machine. Machines
  may leave, empty their tables and begin networks of their own. The argument is
  that the holder's own table has every roster ever signed (`SignedOK`) and shows
  the newest (`TopOK`), so that what it signs next is above all of them; hence one
  roster for each seq (`OnePerSeq`), and what a roster revokes every later one
  revokes or certifies anew (`Lineage`). A machine's table shows rosters of its own
  root only (`LiveOK`), and whatever is pruned or deleted there is below one that
  is shown, so a merge never brings back less. `HomeOK` keeps networks begun after
  leaving apart from the first. `NetOK` is the conjunction; TLC checked it on
  instances with three machines, people who leave included, before it was proved. `OneRosterPerSeq` is
  false with `recover`, as `net/src/trust.rs:304` expects; `RevocationSticks` is
  false with `leave` and `pair` together (`MeshLeaveRepair`). With pairings but no
  leaving TLC finds no violation of either with three verbs. `SeqNeverFalls` runs in
  `MeshPair`, with pairings, where the proof does not reach.

### The installer

`CliInstallProofs` holds for every set of images, offers, first programs and
bytes, and every bound, under the assumptions that `None` is no image, that what
is offered or found is an image (or `None`, for nothing found), and that the
holders of leases are the updater,
the keeper and a session's host. `IInv` is the conjunction of

- `TypeOK`;
- `Progress`: which operation may be at which step, and what it has done by then,
  in particular that the record's image is the job's own from `reserve` to `point`;
- `Recorded`: there is no record, or it names an image;
- `ProtectedOnDisk`: selections, reservations and leases name images on disk,
  which is what a collection keeps (`CollectionKeeps`);
- `PointerProtected`: the pointer is a recent selection or a reserved image, and
  the newest selection wherever no reservation stands for it.
  `SelectedKept` is not inductive alone: between `point` and `complete` the
  pointer names an image that only its reservation protects, and the reservation
  is released only after `retain_selected` has put it in front of the index;
- `FallbackIndexed`: as long as a record may be rolled back, what it goes back to
  is in the index, and stays there when the selection of the moment is put in
  front;
- `OneReservation`: a reservation is the one the record names.

`BeginKeeps`, `RecordKeeps`, `StoreKeeps`, `RetainKeeps`, `FinishKeeps`,
`HolderKeeps`, `FaultKeeps` and `MaintainKeeps` show that each group of actions
keeps it. `TypeCorrect`, `SelectionSurvives`, `FallbackSurvives`,
`OccupiedSurvive` and `ReservationsKnown` follow from it. `RolledBackIsRestored`
needs one fact more, `UndoneAtRolled`: the step that records a rollback is reached
only when the pointer is where the record says it was. And
`LateAnswersHarmless`, about steps, from it and a case for each action that
writes the pointer or the record. `TypeOK` and `OccupiedKept` have no run of
their own: the proof covers every instance.

### The event store and its host

`HostTurnStream` and `HostTurnProofs` hold for every finite set of handlers, every
window, every set of positive sizes, every bound on the stream and every trouble
(`EventStoreAssumption`). The invariant `IInv` follows five things:

- `Queued`, `InHand`, `Spooled`: where each number of the stream is. The queue is
  the last part of the stream without a gap; before it comes what the worker took,
  before that what the spool holds, of which the first part is read, and of that
  all but at most one event delivered. A question waits beside the spool under a
  number of its own. These make every item that holds a credit a different one,
  which is what an exact account rests on;
- `Ending`, `Reported`: a worker stops only with a store that failed or a source
  that ended; at a clean end everything before Closed is delivered; the queue and
  the questions are gone before the end is reported;
- `CreditsExact`, `Calls`, `Window`: the budget against the items and the calls.
  A size is counted as a set of cells, so that the bytes of a set of items are a
  cardinality and add up (`CellsApart`, `CreditsApart`), without a recursive sum.
  `WindowShrinks` needs `CreditsExact`: that returning the last record also returns
  the last byte is what lets a giant in again;
- `Bounded`: what handlers say, plus the end of the opening, plus Closed;
- `Receiving`, `Counting`, `TurnDrained`: the receiver is alive as long as it reads
  and met the end only at the end; what the host still counts covers what the
  fence left undelivered.

`TypesStep`, `NumbersStep`, `ReportedStep`, `CreditsStep`, `WindowStep`, `CallsStep`,
`BoundedStep`, `ReceivingStep`, `CountingStep` and `DrainedStep` show that every step
keeps its part, and `InvariantStep` puts them together. `TypeCorrect`,
`CreditsAreExact`, `StreamInOrder`, `NothingLeftAtShutdown` and `TurnIsDrained`
follow. That `take_output` finds an event out of order, and cancels the store for
it, is shown to be unreachable on the way (`OutputInOrder`).

### The transfer of a document

`DocTransferSteps` and `DocTransferProofs` hold for any number of chunks, records
and stages, every world of edits, faults, dialers and reseeders, and two machines
(`TransferAssumption`), if `None` is no manifest, receipt or message
(`NoneAssumption`). The invariant `IInv` says three things.

- `Sound`, of a disk beside the other machine's. `Shape`: it is a journal and a
  body store that fit their format. `OutSound`: the target of a plan that is
  prepared or ready is here, unless the copy was rebuilt since, and a receipt kept
  for acknowledgement is one the other machine has given. `InSound`: a completed
  transfer's receipt is true of the copy. `BlobSound`: a staged body has a record
  that will see to its end. `StagesReferenced` alone is not inductive: a plan in
  `NeedAck` names its body too, but is dropped without looking for one, so the
  record that counts is any other one.
- `VisitSound`, of a running visit: what it pushes is open here or has arrived
  there, what it pulls the other way round; the receipts it carries are ones that
  were given; and what it asked or heard is of the kinds for its place (`Heard`).
- the same of the requests whose asker is gone (`late`).

What makes it inductive is what may be said of a receipt that is under way while
both disks move on. A receipt that has been given (`Given`) is true of the copy and
its transfer is not begun again: `completed` answers for a body that is here before
anything of it is taken up. Once it has left the machine (`Passed`) its notice was
delivered as well, since `Noticed` runs before a step's result is used. Both sets
only grow as the recipient goes on, by an edit or a rebuilt copy too. Hence whatever
answer comes late or twice is still right, and that a record is released only by a
receipt that passed gives `NoticeBeforeRelease`.

The argument goes by operation. `Leads` relates a disk to a cut of a step: it is
sound beside the other, keeps the epoch and the copy's operations, lets go of
delivered plans only (`LetsGo`) and holds a record that owes a notice (`Holds`);
`Lands` says that the copy stays or takes in an open plan's target.
Each operation has a lemma that all its cuts are reached so, and `LeadsOn` puts
operations in a row. `Grows` says what the other machine and a visit may rely on
when one disk changes, and each action has its lemma (`OpenExchangeKeeps`,
`ServeKeeps`, `CrashKeeps`, `ReseedKeeps`, ...), put together in `NextKeeps`.
`JournalsAgree` is `Spec => []IInv`, and `TypeCorrect`, `BodiesAreReferenced` and
`ReceiptsAreTruthful` follow. For the two results about steps, `NextCarries` reduces
every action to an edit, a rebuilt copy, or one machine's disk carried on to a cut,
and `CarriedFacts` says what that may do: `NoticesComeFirst`, and `JournalDelivers`,
which shows that every such step is one of `DocDelivery`, or a stutter.

An attempt at that last proof found `DocDelivery` too strong: it asked that a plan
being published have the epoch of the copy. A plan that a crash left recorded and
fully staged, on a copy that was rebuilt before the next start, is marked ready
with its old epoch (`offer`). The abstract specification now says so, and the world
of `DocVisits` in which both reseed after one edit and one fault reaches it.

### Only model-checked

Of `TrustMesh`: `NobodyStranded` and `OneRootAfterPairing`, which
are about pairings and may fail beyond the bounds named in section 3, so that a proof
would need a condition on how pairings overlap (`SettleAgrees` proves the rule for two
sides that settle on the same rosters; in a pairing the joiner settles later, on
what the issuer answers); and the theorems above beyond their conditions. Everything
about liveness, here and in the other modules
(`Converges`, `InitReachesAll`, `StaysFresh`, `AppliedPlanFinishes`,
`ProducersAnswered`, `ReceiverWoken`, `WorkerStops`, `TurnSettles`,
`InterruptedSettles`), which the prover does not reach.

## 5. Where the code and its comments disagree

Each of these runs checks one sentence of a comment or a document and finds a
behaviour of the code against it.

| Run | Sentence | What happens |
|---|---|---|
| `MeshLeaveRepair` | `sync/src/devices.rs:805`, `node/src/trust.rs:17` | Leaving deletes the rosters in the same replica; paired again, the deletions merge into the network, and a revoked machine stands differently |
| `MeshLeaveDoor` | `sync/src/devices.rs:778`, `:781`, `:805` | A holder that leaves deletes others' `gone` marks in its replica and keeps its root; machines that have not heard vouch to it, and the next round carries the deletion to them: who was shown out is admitted again, without a pairing |
| `DocReseeded` | `sync/src/store.rs:471` | A plan of the old epoch stays the one active plan after a reseed, is refused every time, and no other is made: the copies never agree |
| `KeeperTakesEarly` | `docs/INSTALLATION.md:29` | A keeper that starts while an installation is under way takes the program that is only being tried |

Others show with larger bounds, or follow from the same models:

- A holder that has begun to leave marks its own row, `khor pending` lists it
  (`node/src/trust.rs:528`), and approving it signs a roster without the holder,
  until the node is opened again: "A holder is always on its own roster"
  (`node/src/trust.rs:900`).
- Two machines of a network from before roots each make one: storing a roster of
  one root prunes lower versions of the other (`node/src/trust.rs:1914`).
- A crash between the staged bytes of a settlement and its ready mark, then a
  change of trust: the plan is marked ready with outdated inputs and never
  applies (`node/src/trust.rs:1469`). `AppliedPlanFinishes` names a further one in
  its exception: the archive of an earlier pairing is read as a roster of its root
  (`:1683`, `:1770`), and a plan that meets a newer one there, or an old root that
  one shows as a network, stays open.
- A flush fails after its target was saved, and others' edits reuse the pen until
  the table's version reaches it: the plan is taken for written and the key is
  retired without the roster (`node/src/trust.rs:1635`, against `:1758`). These
  are the roots in `overtaken`, the only ones that `AnchorHasRoster` and the
  roster's half of `KeyRetiredOnceCovered` except. `SettleSafe` reaches this with a
  saved target, a crash, an edit and a recovery.
- A machine with a root of its own offers its roster to one network and, before it
  has settled with it, is taken in by another. The issuer settled on the roster
  that was offered and committed; the joiner settles on the one it has by now,
  finds two networks that have both certified others, and refuses: "run on both
  sides with the same inputs, so both reach the same verdict"
  (`net/src/trust.rs:530-532`).
- The end of a stream counts like an event of the turn
  (`node/src/gui_host.rs:1586`): when the store fails after the fence, `Closed`
  and the end bring `remaining` to zero and the turn is journalled as ended though
  events were lost. `TurnDrained` excepts a failed store for this reason.
- A release is installed again after an update to another was rolled back: its
  record's `previous` is then that release itself, and the record names no other
  version to go back to (against `docs/INSTALLATION.md:27`).

## 6. What is not modelled

- Two holders of one root that sign at once. The tie-break of `newest` drops one
  of the two lists, as `net/src/trust.rs:304` documents.
- Document epochs in a settlement: a reseed between a plan and its application
  makes the plan inapplicable for good (`node/src/trust.rs:1627`). Transfers have
  epochs.
- Lost and repeated messages inside a pairing, and its route through the transfer
  journal: planned. Several documents in one journal: they share its limits and
  nothing else; the limits are small numbers here.
- In the store of documents, blocks, the ledger and compaction; a merge is atomic
  on disk.
- In the event store, overflow of the sequence (2^64 events), the encoding of
  records, the segments of the spool, a panic of the worker thread, and the texts
  of a session, which the host journals.
- In the image store, sizes, the cache limit, manifests, tombstones and the roles
  of the desktop application.
- Feeds, downloads and signatures of releases, which are input to an installation.
- Live rows and recovery attempts, delegation and its ledger, remote cancellation:
  planned, see below.
- Transport, ssh, processes, terminals, presentation: input and output, where
  the state worth checking is small and the code is mostly the outside world.

## 7. Plan

Done, in this order: `Roster`, `DeviceTable`, `TrustMesh`, `PairSettlement`,
`PairAdmission` and its proofs; `DocTransfer` and `DocDelivery`; `EventStore` and
`HostTurn`; `ImageStore`, `CliInstall` and its proofs; then the proofs about
`HostTurn`, `DocTransfer` and `TrustMesh`. The order put first what a
mistake would cost most: who is trusted, then whether data arrives, then whether
the program is still there.

| Next module | Content | Properties and theorems |
|---|---|---|
| `PairProtocol` | Start, Resume, WriteRoster, Commit, ReadRoster, Devices, Complete between two machines over a link that loses and repeats; the 240 s limit; composed with `PairAdmission` on each side | one claim per ticket; a retry finds what was committed; both complete |
| `PileStore` | pens, versions, epochs, reseed; replaces the fixed epoch of `PairSettlement` | no op twice under one pen; reseed loses nothing |
| `RemoteCancel` | intents, driver, leases, attempt ids | one outcome per attempt; pending intents are retired |
| `RecoveryAttempt` | the one attempt per row, join, claim, finish | never two hosts for a row |
| `TaskLedger` | the a2a store's turns and cancellations | one executor per turn |

Theorems still to prove: `SeqNeverFalls` and `RevocationSticks` with pairings and
without leaving, for which an invariant must say which rosters the offer and the
reply of a pairing may be older than; `OneRootAfterPairing` for one pairing at a
time.
