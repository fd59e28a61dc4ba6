# Obsigna in TLA+

TLA+ modules of the obsigna daemon and of the programs around it, the TLC
configurations that model-check them, and theorems about them that TLAPS
checks.  Paths are relative to `src/`.

Contents: [the system](#the-system), [modules and code](#modules-and-code),
[runs](#runs), [fairness](#fairness), [proofs](#proofs),
[what the checks say of the code](#what-the-checks-say-of-the-code),
[not modelled](#not-modelled), [plan](#plan).

## The system

Agents, hooks and proxies report what tools they ran.  A daemon turns each
report into a signed receipt and appends it to a hash chain in an SQLite file;
a verifier later checks the chains.  Programs can also build a chain of their
own and send it to a collector.  What matters is that a chain can be trusted:
complete, in order, without forks, closed when it was closed, telling what
happened and not more than it may, and checked against a witness outside the
file.

| Component | State | Operations | Works with |
|---|---|---|---|
| Commit path: `daemon/internal/pipeline`, `daemon/internal/chain` | one `chain.State` (mutex, `nextSeq`, `prevHash`) for the root chain and one per agent, the `agentChains` map under `agentChainsMu` | `Process` (live and drop path), `getOrCreateAgentState`, `Allocate`, `AllocatePair`, `CommitFirst`, `Commit`, `Rollback`, `EmitTerminator`, `FlushCheckpoints` | called by the listener's goroutines and by `Run`; writes the store; reports heads to the checkpoint emitter |
| Receipt store: `sdk/go/store` | table `receipts`, unique (chain, sequence), primary key id | `Insert`, `GetChainTail`, `GetChainTailReceipt`, queries, following behind a watermark | daemon, rotation, collector, read-only tools |
| Socket listener: `daemon/internal/socket` | open connections, wait group, `closed` | `Listen`, `Serve`, `serveConn`, `Close` | one goroutine per connection calls `Process` |
| Daemon life cycle: `daemon/daemon.go` | the phase of `Run`, the root chain id | start, resume or advance the root chain, serve, stop (drain, terminators, flush, close) | all of the above |
| Checkpoint emitter and reader: `daemon/internal/checkpoint` | `counts`, `lastSeq` under `mu`; queue; worker goroutine; counters | `Observe`, `Flush`, `Close`, `worker`, `emit`; `ReadVerifiedCheckpoints` | called after `Commit` and on shutdown; writes the anchors; the reader serves `verify` |
| Anchors: `daemon/internal/anchor` | an append-only file, a git repository, syslog | `Write`, `Close` | checkpoint emitter, rotation |
| Daemon emitter: `sdk/go/emitter` | `conn`, `closed` under `mu`; atomic `dropCount` | `Emit`, `Close` | dials the daemon's socket |
| Hook: `hook/cmd/obsigna-hook` | none: one process per event of the runtime | detection, the event of a call, targets of shell commands, transcript lookup | daemon emitter |
| MCP proxy: `mcp-proxy` | `pendingCalls` under `pendingMu`, pending approvals, policies | request, response, approve, deny, time out, end of session | daemon emitter |
| Contents of a receipt: `daemon/internal/pipeline`, `sdk/go/receipt`, `sdk/go/taxonomy` | the settings of the daemon | `validateFrame`, `buildAndSign`, redaction, disclosure policy, sealing | commit path, `receipt disclose` |
| SDK chain: `sdk/go/chain` | next sequence and previous hash of one process | `New`, `Emit` | SDK emitters |
| SDK emitters: `sdk/go/emitters` | WAL directory, HTTP retries and pending deliveries, buffer and timer | `Emit`, `Replay`, `Flush`, `Drain`, `Close` | collector |
| Collector: `collector` | its own receipt store | `POST /receipts` | SDK emitters |
| Key rotation: `daemon/rotate.go` | key files, archive, anchor, store | `RotateKey` | store and anchors, while the daemon is stopped |
| Verification: `sdk/go/receipt/chain.go`, `daemon/internal/verifycli`, `verifyeventcli`, `doctorcli`, `web-verifier` | none | `VerifyChain`, pin to the published key, anchor comparison, verdict per event | reads store and anchor |
| Command line tools, configuration, key files | none while running | | |

What is hard, and where a model checker reaches further than a test:

- **Interleaving.**  Connections run concurrently; a chain's mutex is held
  over a store write, the agent map has its own lock, the chain is loaded with
  no lock held, and the checkpoint is taken after the mutex was released.  The
  proxy's two pumps, its timer and its approval endpoint share two tables.
  Two deliveries of one receipt meet in the collector.  A hook reads a
  transcript that is being written, a follower a table that grows.
- **Failure half way.**  A frame can mean two receipts; a rotation is five
  writes to four places; each can fail, and some of the undoing too.
- **Crash and restart.**  Heads, agent map and checkpoint marks are memory of
  the process; store, anchor, key files and journal survive it.
- **Shutdown.**  Drain, terminators under a deadline, flush, close: each step
  may fail, and none may block for ever.
- **Loss and repetition.**  The socket has no acknowledgement; HTTP loses
  requests and answers, and what is retried may have arrived.
- **Two programs that must agree**: emitter and daemon on what a valid event
  is, writer and verifiers on what a valid chain is, hook and shell on what a
  command does.

For each component, what makes it correct:

- *Commit path*: chains without gap, fork or broken link; the State of a chain
  agrees with the store; the events_dropped receipt is followed by its live
  receipt; the first receipt of an agent's chain names its parent; an error
  means "not stored".
- *Life cycle*: the same across stops and crashes; the root chain is not
  extended past its terminator; every chain that can be terminated is; the
  stop ends.
- *Checkpoints*: the anchor never runs ahead of the store; its sequences
  increase; a head is anchored once; nothing is lost uncounted; the final head
  is anchored; the stop ends.
- *Daemon emitter*: drops are conserved; the answer is true; no connection
  leaks or is used after it failed.
- *Contents*: an accepted event is recorded; a receipt tells what became of
  the call; only its key opens a payload; no secret stays in plain; a follower
  misses nothing.
- *Proxy*: what a rule forbids does not reach the server; what is answered is
  reported, and nothing else; every call is decided.
- *SDK emitters and collector*: a receipt is in the journal until it is
  stored, and is stored once; a drain gets past what is stuck.
- *Rotation*: between rotations the key files are those of the chain; the
  anchor knew first; the first key of a chain can be found; a chain that holds
  its handovers verifies.
- *Verification*: what verifies is what was written, what a witness kept is
  whole, a report points at the first defect.

`PROJECT.json` lists the hazards one by one, each at its line.

## Modules and code

| Module | Models |
|---|---|
| `ReceiptLog` | abstract: one log per chain, extended only at its end, no receipt twice |
| `Pipeline` | `Process` and everything it calls, `chain.State`, the table |
| `Daemon` | `Run` around `Pipeline`: stop, drain, terminators, crash, start |
| `Checkpoint` | `checkpoint.Emitter`, its callers, the order of the shutdown |
| `DaemonEmitter` | `DaemonEmitter.Emit` and `Close`, and the daemon as the client sees it |
| `VerifyChain` | the verifiers, as operators: `VerifyChain`, `verify`, `verify-event`, doctor's chain check, the web verifier |
| `Verify` | a chain, its checkpoints, and what may happen to both before a verifier sees them |
| `Rotation` | `RotateKey` step by step between and beside the runs of a daemon; EXTENDS `VerifyChain` |
| `Outbox` | abstract: a receipt leaves the journal when it is stored, and is stored once |
| `Delivery` | chain builder, write-ahead emitter, HTTP emitter, collector; implements `Outbox` |
| `Policy` | the proxy's classifier, risk score and rules, as operators |
| `Proxy` | a session of the proxy; EXTENDS `Policy` |
| `Command` | the hook's reading of a shell command, and a shell's |
| `Redaction` | the texts of a receipt: redaction and caps, as operators |
| `Clients` | the events of hook and proxy, as operators; EXTENDS `Command`, `Redaction` |
| `Queries` | what readers ask the store, as operators |
| `Disclosure` | policy, sealing, `receipt disclose`, as operators; EXTENDS `Command`, `Queries` |
| `Recording` | a call's way from the runtime into a receipt and out to its readers; EXTENDS the four above |
| `...Proofs` | the theorems about `Daemon` (with `Pipeline`), `Checkpoint`, `DaemonEmitter`, `Verify`, `Rotation`, `Delivery`, `Proxy` and `Recording` (with the operators it EXTENDS), each in a module of its own |
| `MC...` | the constants of the instances TLC checks |

No module has a RECURSIVE operator, so every one can be proved about.

### Pipeline

A *worker* is the goroutine of one connection: it reads a frame and runs
`Process` to the end before it reads the next.  A worker's step is the code
between two accesses to shared state, so the labels of `pc` are the places where
another goroutine can come in:

| `pc` | next code |
|---|---|
| `lookup` | the read-locked look at `agentChains` (root frames need none) |
| `fast`, `delegateFast` | `NextSeq` of a known State; `buildDelegation` |
| `load`, `delegateSlow` | `LoadFromStore` with no lock held; `buildDelegation` |
| `install`, `raced` | the double check under `agentChainsMu`; the loser waits for `existing.NextSeq()` *while it holds the map's lock* |
| `allocate` | `Allocate` or `AllocatePair`; the delegation is dropped unless the sequence is 1 |
| `insertDrop`, `commitFirst` | the events_dropped receipt, `CommitFirst` |
| `insertLive`, `commit` | the live receipt, `Commit` or `Rollback` |

`head[k]` is `nextSeq` and `prevHash` of the State of key `k` (`Root`, or an
agent id) and `holder[k]` its mutex; `mapLock` is `agentChainsMu` held for
writing (readers hold it only for an instant and are not separate states).
`rows` is the table: `Insert` adds a row or fails, and an insert that the
UNIQUE index or the primary key would reject can only fail.  Every build,
signature, insert and query may fail.

Abstracted: a receipt is its chain, sequence, predecessor, identity and
delegation.  The identity `<<frame, kind>>` stands for the hash as well: two
receipts of the daemon differ in their random id and so in their hash.  A
failed `Insert` has stored nothing (SQLite rolls a failed statement back).

### Daemon

`Daemon` EXTENDS `Pipeline` and adds the process: `phase` is how far `Run` is,
`todo` the chains `EmitTerminator` has still to visit.  `Boot` is `Run` from
the store to `Listen`: it resumes the first root chain, from the configured id
on, that does not end in a terminal receipt, with no agent chain loaded.
`Stop` is the cancelled context, or a failing accept, which ends `Run` with
neither terminators nor flush (phase `aborting`).  `Drain` is the wait for the
handlers.  `TerminatorFails` covers a failed query, build or insert and the
deadline, after which (`late`) no chain can be terminated.  `Crash` can come at
any moment and keeps the table only.  What a terminator was caused by is a
member of `Past`, so its identity is fresh.

### Checkpoint

A chain is the number of its receipts (`tail`): `Pipeline` shows that the store
has no two with one sequence.  `HandleFrame` is `Process` up to the call of
`checkpoint`; `Observe` is its critical section, `Enqueue` what follows it
outside the mutex; `Take`, `SignFails` and `WriteSink` are the worker
goroutine; `Flush`, `FlushSend` and `FlushDone` are the shutdown's blocking
flush.  `EmitTerminator` and the drain are one step (they touch none of this
module's other state); a fatal error makes `Run` go on to the deferred `Close`.
`lost` is what the counters `Dropped` and `Failures` report, with the identity
of the head kept; `marked` and `flushed` are history variables.

### DaemonEmitter

A caller is a goroutine inside `Emit`; its labels are the stretches between
locks, system calls and operations on the atomic counter.  `holds` are the
connections a call has to install or to close.  `WriteFrame` and `WriteFails`
happen under `e.mu` and are one step each.  The daemon is what the client can
observe of it: it accepts, reads in order what was written, goes away (losing
what it has not read) and comes back.  `sent` and `failed` are history.

### VerifyChain and Verify

A receipt is its content and a proof.  The hash covers the content, so the
content stands for its own hash; a proof names its key and the content it was
made over, and `Verified` compares both.  That is what a reader may assume of
SHA-256 over canonical JSON and of Ed25519, and nothing of either is modelled
beyond it.

The loop of `receipt.VerifyChain` is split as the code's checks are: the key in
force at each receipt (`ActiveKey`, moved on by a valid rotation event only),
the flags, the loop's own breaks, then foreign chain ids, receipts after a
terminal one, response bodies and the caller's expectations, in the order in
which they set `BrokenAt`.  A receipt's predecessor is a set of at most one
hash (`prev`), as the Go pointer is nil or not; a proof that cannot be read is a
proof under no key.  On top of it: `ChainAccepted` (`verify`, with the
genesis key it resolves and the pin to the published one), `VerifyAccepts`
(with the anchor), `EventVerdict` and `EventExit` (`verify-event`), `DoctorHead`,
and the two rings of the web verifier.  An unreadable or unparsable input ends
before these functions.

`Verify` writes a chain as the daemon does (calls, terminators, rotations,
checkpoints), then receipts are lost, swapped, repeated, altered with or
without a new proof, replaced, or taken from another chain of the daemon.  The
options of `VerifyChain` range over what a witness of the true chain may know.

### Rotation

`RotateKey` is a process of its own: each of its steps (the probe of the socket
and the signed receipt, witness, archive, backup, private key, public key,
removal of the backups, insert, and the two restores) is an action that can
fail the way the code's can, and `Die` can follow any of them.  The daemon is a
process beside it, with reading the key, publishing its public half, resuming
and listening as separate steps, so a start can come between any two steps of a
rotation.  The key files, the archive and the anchor are what survives.
`torn` records that a rotation ended between the key files and its receipt, as
the repository's documents grant it may, and `overlap` that a daemon and a rotation
ran at the same time; a property that does not speak of those cases says so.
Chains are days, advances and agents, so that a chain older than a rotation
occurs.

### Outbox and Delivery

`Delivery` has one client and one collector.  The client has two tasks: the
delivery the builder waits for under its lock, and a drain (`Replay` at the
start, `Flush` later) over the list it read.  A task sends a request, hears an
answer or nothing, tries again up to `MaxAttempts`, and removes the entry after
a 201 or a 409.  The journal is a directory of numbered files and an index in
memory that `Load` rebuilds after a crash.  The collector looks a receipt up and
inserts it in two steps, so two requests for one receipt can interleave there;
the store refuses a second id and a second receipt at one place of a chain.
After a crash the program may give its builder any head it can know of.  Every
failure counts against `MaxFaults`.

`DeliveredOnce` is the refinement: with the journal's receipts for `pending`,
every behaviour is one of `Outbox`.

### Policy and Proxy

A tool is what the classifier, the score and the rules can tell apart: its
first and last word, the words in it, and a mutation without WHERE in its
arguments.  `DefaultRules` are the repository's.  `Proxy` has the client's pump
with the handler it runs in (reading, waiting for an approval, refusing,
forwarding), the server's pump, and the endpoint, where an approval is taken out
of the map (`Decide`) before it is put in the channel (`Deliver`), as the code
does it outside the lock.  `Panic` is the handler's nil dereference, recovered
by the pump, with `pendingMu` left locked; `locked` is the call it happened to.
A tool has params that decode or not: if not, the call is forwarded as it is
(`PassOn`), as the handler does that drops the error of `ParseToolCallParams`.
`crossed` records that an id was used again before its answer.  A `tools/call`
without an id is a notification for the proxy and no call here.

### Command, Clients, Redaction, Disclosure, Queries and Recording

`Recording` follows a call through all programs it passes.  The runtime starts
and ends calls and writes its transcript; a hook process reports each phase, or
the proxy or another program does; the emitter looks the event over (`Accepts`);
the daemon looks the frame over again (`Valid`), decides status, action type and
risk, redacts and cuts the texts, seals the payloads and stores the receipt
(`ReceiptOf`); it may be stopped and started with other settings; somebody
alters the ciphertext of an envelope; somebody with a key asks for a payload;
somebody follows the store.  A client `port` stands for an emitter in another
language, which checks nothing but the size of a frame.

The data are small on purpose.  A command is a few words; `Command` gives both
what the hook reads (`lex`, `extractBashTarget`) and what a POSIX shell does
with the same words (`Effects`, external), and `ToldAsItWas` compares them.  A
text is leaves of runes, where two or more runes `Secret` are what a pattern
matches, so that a cut can leave half of one.  A field is short, over the cap of
an identity field, or over the cap of a resource.  A payload is its kind and its
size.  The size of a frame (`FrameSize`) is that of its payloads and texts, one
for each string a runtime or a turn adds, and one for the rest; the cap
`MaxFrameSize` bounds it at the emitter, at the daemon and, over what it reads
from its stdin, in the hook (`StdinCut`).  What JSON adds in escapes and drops in
white space is left out, and so are the 4096 bytes by which the hook's cap is
above the emitter's.  An envelope's key id is never altered: the two messages of
a key that does not open it would change places.  The rowid of a receipt is its
place in `rows`.

## Runs

| Run | Instance | Distinct states | Shows |
|---|---|---|---|
| `pipeline` | 2 workers, 3 frames, 1 agent, 3 initial stores | 217,036 | `ChainLinked`, `HeadMatchesStore`, `SlotFree`, `DropAdjacent`, `DelegationCarried`, `AnswerMatchesStore`, `ProcessReturns` |
| `daemon` | 2 workers, 2 frames, 1 agent, 3 starts, 2 root chain ids | 64,278 | `RootEndsInTerminal`, `OneInterruption`, `StopTerminates`, `RunningHeadMatchesStore`, `StopCompletes`, and the refinement `ImplementsLog` across stops and crashes |
| `daemon_reopen` | as `daemon` | violation | an agent's terminated chain is appended to |
| `checkpoint` | 2 handlers, 2 chains of up to 3 receipts, 1 sink, queue of 1, cadence 2, 2 starts | 506,452 | `AnchoredIsStored`, `AnchoredOnce`, `NothingSwallowed`, `FinalHeadAnchored`, `ShutdownEnds` |
| `checkpoint_race` | 2 handlers, 1 chain, queue of 2, cadence 1, 1 start | violation | two heads are anchored in the wrong order |
| `daemon_emitter` | 2 goroutines, 3 calls, 1 outage | 184,556 | `DropsConserved`, `AnswerTrue`, `NoLeak`, `ConnOwned` |
| `verify` | chains of up to 3 receipts, 2 damages, all options | 428,123 | `FirstDefect`, `OnlyHistory`, `WitnessedWhole`, `ConfirmedIsHistory` |
| `rotation` | 2 rotations, 2 starts, 2 days, 4 receipts, 2 advances | 1,019,397 | `KeysAgree`, `GenesisResolvable`, `Witnessed`, `HandoverVerdict` |
| `rotation_terminal` | 1 rotation, 2 starts, 1 day | violation | a chain rotated after a graceful stop no longer verifies |
| `delivery` | 3 receipts (one refused for good), 2 attempts, 3 faults | 464,998 | the refinement `DeliveredOnce`; `DrainDelivers` |
| `proxy` | 3 calls, 2 ids, the default rules and a broken one | 180,896 | `Mediated`, `Accounted`, `Decided` |
| `recording` | 2,278 sessions of one or two calls, 2 starts | 856,489 | `AcceptedIsRecorded`, `ToldAsItWas`, `SealedForItsKey`, `NothingInPlain`, `FollowedOnce` |

Each property is stated with its comment in its module.

Why the bounds are enough.

- `pipeline`, `daemon`: the creation race needs two workers and a chain with no
  State, both delegation races need a third frame, and the initial stores
  (empty; a root chain; a root chain with an agent's chain) put every worker on
  each side of every `found`.  A third worker would only add a waiter at a
  mutex.  Three starts are a first run, a second that resumes or advances, and
  a third that meets what the second left; `MaxAdvance` stands for the 32 of
  the loop and is 1, so that the refusal to start is reached too.  `Past` has as
  many members as terminators can be written.
- `checkpoint`: a queue of one is full as soon as one job waits; with a cadence
  of two, both a due and a not due head occur, and `Flush` finds marked and
  unmarked heads.
- `daemon_emitter`: two callers and three calls are one that wins the dial race,
  one that loses it and one that carries the drops of both; one outage lets a
  connection die idle, under a write and with unread frames.
- `verify`: three receipts are a call, a rotation and a receipt under the new
  key, or a rotation after the end; two damages are an alteration and the one
  that would cover it up.
- `rotation`: two rotations are a first that fails or dies and its repetition,
  or two handovers in one chain; two starts are a run before and one after or
  beside a rotation; two days give a chain older than the rotation.  Four
  receipts are one that ends, a rotation and one after it, and one elsewhere.
- `delivery`: three faults are a lost answer, a crash and a failed removal, in
  any combination of three; one refused receipt stands before the others in the
  journal, and two receipts can come to claim one place of the chain.
- `proxy`: two ids and three calls let an id be used again, after its answer and
  before it, with another call in flight; the tools are one for each verdict and
  one whose params do not decode.
- `recording`: one family of sessions for each question: every verb, prefix,
  flag and redirect with up to three arguments; every text of up to five runes
  at the caps 3 and 4; every field at and over its cap; frames at and over the
  cap of 20, with and without what a turn adds; two calls side by side in one
  transcript; five settings, of which two runs of the daemon use any two;
  a limit of one for the follower.

Deadlock is checked in `pipeline`, `daemon`, `checkpoint`, `daemon_emitter` and
the violation runs over them: the only states without a proper step are the
declared ends (`Quiet`, `Off`, `Done`), which stutter.  The other runs say
`CHECK_DEADLOCK FALSE`, because their systems may really stop: a session is
over, a chain is verified, a client has sent what it had.  That nothing stops
half way is what their liveness properties are for.

Constants that stand for identities are model values; no symmetry is used (the
liveness properties would not permit it, and the instances do not need it).
`MCProxy` and `MCRecording` give tools and sessions as definitions.

Every property of a passing run has a mutant in `PROJECT.json`: an operator
named `Wrong...`, defined just before the definition it replaces, that changes
it the way a plausible bug would, and with which TLC finds the property
violated.  They are not part of any specification.

Type invariants are in no configuration, since a value outside its type would
show in the other properties: `TypeOK` of `Pipeline` and of `DaemonEmitter` are
theorems of their own, and those of `Daemon`, `Checkpoint`, `Delivery`, `Proxy`,
`Rotation` and `Verify` are the first conjuncts of inductive invariants below.
Before it was proved, each inductive invariant was checked by TLC on the run of
its module (`RecordingInv` with its frame looked for among those of the run).

## Fairness

- `Pipeline` (`FairSpec`): weak fairness of every worker's `Step`.  Go's
  scheduler runs what can run, and `sync.Mutex` hands a lock that is contended
  to a waiter (starvation mode), so a worker at a mutex that is free again and
  again is not passed over for ever.  Weak fairness suffices because the
  instance has finitely many frames; nothing forces a frame to arrive.
- `Daemon` (`FairDSpec`): the same, and weak fairness of the shutdown sequence.
  A stop, a crash and a start need never happen.
- `Checkpoint` (`FairSpec`): weak fairness of handlers, of the emitter's
  goroutine and of the shutdown.  It assumes that a sink's `Write` returns: the
  anchors are a local file, a local `git` command and the local syslog.  A sink
  that hangs does hang the shutdown.
- `Delivery` (`Spec`): a delivery that was begun goes on (a goroutine that can
  run), and the collector serves a request that has reached it.  Nothing makes a
  program start, emit or flush.  Faults are bounded, and `DrainDelivers` speaks
  of the time after the last one.
- `Proxy` (`Spec`): the client's pump goes on with the call it has; a timer that
  was set fires.  Nothing makes the client call, the approver decide, the server
  answer or the session end.
- `DaemonEmitter`, `Verify`, `Rotation` and `Recording` state safety only.

## Proofs

Eight modules prove, for every value of the constants that the named
assumptions allow, the 33 invariants of the passing runs and their two
refinements, `ImplementsLog` and `DeliveredOnce`.  A theorem is stated of the
specification of its module; the properties' names are those of the runs.

| Theorem | States |
|---|---|
| `DaemonProofs`: the commit path | |
| `TypeCorrect`, `Inductive`, `FramesAnswered`, `DelegationsKept` | `TypeOK`, `IInv`, `FrameInv`, `DelegationInv` |
| `StoreLinked`, `StateMatchesStore`, `SlotsFree` | `ChainLinked`, `HeadMatchesStore`, `SlotFree` |
| `AnswersTrue`, `DropsAdjacent`, `DelegationsCarried` | `AnswerMatchesStore`, `DropAdjacent`, `DelegationCarried` |
| `PipelineImplementsLog` | `ImplementsLog`: the commit path implements `ReceiptLog` |
| `DaemonProofs`: the process around it | |
| `DaemonInductive` | `DaemonInv` |
| `RootsEnd`, `OneTerminator`, `StopsTerminate` | `RootEndsInTerminal`, `OneInterruption`, `StopTerminates` |
| `RunningStatesMatch`, `RestartedStoreLinked` | `RunningHeadMatchesStore`, `ChainLinked` across restarts |
| `DaemonImplementsLog` | `ImplementsLog` across stops, crashes and starts |
| `CheckpointProofs` | |
| `CheckpointInductive` | `CheckpointInv` |
| `AnchorsAreStored`, `AnchorsAreSingle` | `AnchoredIsStored`, `AnchoredOnce` |
| `NoneSwallowed`, `FinalHeadsAnchored` | `NothingSwallowed`, `FinalHeadAnchored` |
| `DeliveryProofs` | |
| `DeliveryInductive` | `DeliveryInv` |
| `DeliveryImplementsOutbox` | `DeliveredOnce`: `Delivery` implements `Outbox` |
| `DaemonEmitterProofs` | |
| `EmitterInductive`, `EmitterTypes` | `EmitterInv`, `TypeOK` |
| `DropsAreConserved`, `AnswersAreTrue` | `DropsConserved`, `AnswerTrue` |
| `ConnsAreOwned`, `NothingLeaks` | `ConnOwned`, `NoLeak` |
| `ProxyProofs` | |
| `ProxyInductive` | `ProxyInv` |
| `CallsAreMediated`, `CallsAreAccounted` | `Mediated`, `Accounted` |
| `RotationProofs` | |
| `RotationInductive` | `RotationInv` |
| `KeysAreWitnessed`, `FilesAndChainsAgree`, `GenesisIsResolvable` | `Witnessed`, `KeysAgree`, `GenesisResolvable` |
| `ChainsAreOrderly` | `ChainsInv` |
| `HandoversAreJudged` | `HandoverVerdict` |
| `VerifyProofs` | |
| `VerifyInductive` | `VerifyInv` |
| `VerdictsAreHistory`, `BreaksAreFirst` | `OnlyHistory`, `FirstDefect` |
| `WitnessesDetectTruncation`, `ConfirmedReceiptsAreHistory` | `WitnessedWhole`, `ConfirmedIsHistory` |
| `RecordingProofs` | |
| `RecordingInductive` | `RecordingInv` |
| `ReportsBecomeReceipts`, `CallsToldAsTheyWere` | `AcceptedIsRecorded`, `ToldAsItWas` |
| `SealedForOneKey`, `FollowersSeeOnce` | `SealedForItsKey`, `FollowedOnce` |
| `TextsAreRedacted` | `NothingInPlain` |

### Assumptions

Each module with constants names its assumption, and TLC evaluates it in every
run of that module.  They say that model values are what they look like (a
lock's `Free` is no worker, `None` is no connection, key or head), that bounds
are numbers, and, where it is needed, more:

- `Pipeline`: the stores a run may find (`Prior`) are finite sets of receipts
  that are linked and were caused by none of this run's frames.  That is what
  `StoreLinked` leaves behind, and the empty store is one of them.
- `Daemon`: in such a store a root chain does not go on past a terminal receipt
  and no chain is terminated twice in a row, which is what `RootsEnd` and
  `OneTerminator` leave behind.  There is a root chain id for every advance the
  loop may make.
- `DaemonEmitter`: finitely many callers (a sum is taken over them).
- `Delivery`: `Nobody` is no task, and a delivery makes at least one attempt.
- `Rotation`: root and agent chains differ, a rotation event is not `None`, and
  every generated key is one that can be decoded.
- `Verify`: `None` and the stranger's key are not numbers, which the daemon's
  keys are.
- `Recording`: a session is a set of calls that a runtime, the proxy or a port
  can make (`SessionOK`).  Its parts say what each kind of call is allowed to
  hold: a call of the hook has a tool, a payload and a command whose words are
  any strings; two calls of the hook have ids of their own, if they have one, as
  the runtime promises; a usage read from the transcript is not empty; and "k"
  marks the values of sensitive keys.  `None` is no string,
  payload or envelope.  Texts, commands, policies and caps are arbitrary.

### Inductive invariants

None of the properties but a few is inductive as it stands.  What was added,
and why:

- **`IInv`** (`Pipeline`).  Whether an insert keeps a chain linked depends on
  what the worker allocated before, and that on what the State held.  `LockHeld`:
  from `Allocate` to `Commit` or `Rollback` the worker holds the mutex of its
  chain, so two workers in that stretch are on different chains.  `StateKnown`:
  a State never goes away, so no one installs a second one under a worker.
  `HeadCurrent`: a State is the head of its chain in the store unless its holder
  has inserted a receipt it has not committed.  `SlotOf`: what a worker is about
  to insert is the next receipt.  `LoadOf`: the tail a creator loaded without a
  lock is still the head as long as the chain has no State, since only a State's
  holder writes to a chain; that is why the lock-free slow path is right.
- **`FrameInv`** (`Pipeline`) ties the receipts of a frame to the place of its
  worker (`FrameOf`): the live receipt is stored only at `commit`, a drop's
  receipt sits in the slot before the one the worker holds; and no frame is
  worked on twice (`Unread`).
- **`DelegationInv`** (`Pipeline`) follows a delegation from `buildDelegation` to
  the insert.  On the way the chain may have grown (then the delegation is
  dropped) but never shrinks, so a sequence other than 1 stays one.
- **`DaemonInv`** is `IInv` while the process runs (`Up`), and between runs only
  what the next run needs.  `Rested`: from `EmitTerminator` on no handler is at
  work, without which a receipt could follow a terminal one.  `RootOpen`: the
  root chain in use has no terminal receipt; `Boot` establishes it, and
  `EmitTerminator` leaves it behind only with the phase.  `Visited`: what
  `EmitTerminator` is done with ends in a terminal receipt or failed.
- **`CheckpointInv`**: a marked head is in one place only (`OnePlace`), be it a
  handler between `Observe` and `Enqueue`, the queue, the worker, `Flush` or the
  log, and nothing unmarked is in any (`OnlyMarked`).  `AnchoredOnce` and
  `NothingSwallowed` are the two halves of that.  `Heads` keeps marks, `lastSeq`
  and the anchored sequences behind the store.
- **`DeliveryInv`**: no receipt has two files and the index in memory points to
  the right one (`OneFile`), or the removal after a 201 could take another
  receipt with it; a task waits only for its own request (`OwnAnswer`), or an
  answer to an earlier attempt could clear a receipt the collector never had;
  and whatever is under way is in the journal or stored (`NothingForeign`).
- **`EmitterInv`**: calls under way have numbers of their own (`OwnCalls`); an
  open connection is the emitter's or one call's (`OneOwner`); a frame on a wire
  belongs to a call that answers nil (`OneAnswer`); `failed` counts the answers
  (`OneCount`).
- **`ProxyInv`**: a call in hand has no answer, and an entry is under the id of
  its call, whose params decode and which is not reported yet (`OneEntry`); while
  no id is crossed each call in hand whose params decode has its own entry
  (`OwnEntry`); an approval in the channel was told by the endpoint
  (`OneVerdict`); a call at the forwarding step may be forwarded, or is the one
  that panicked (`OnlyAllowed`).
- **`RotationInv`** says for each step of a rotation what the key files hold
  (`InStep`) and what archive and anchor have (`InArchive`, `Anchored`), with
  the keys handed over in order (`InOrder`), and what a daemon beside it has
  read (`Alone`).  Each of the three properties is false of some step of a
  rotation that failed; the invariant says which.
- **`VerifyInv`** says what was written (`WellWritten`: contiguous, linked, keys
  handed on by their own events, nothing after the end), that a checkpoint is
  the head of some prefix (`Logged`), and that every receipt whose signature
  verifies under a key of the daemon is one it wrote, on this chain or the other
  (`Genuine`), however it was moved.
- **`RecordingInv`** says that each report has one fate (`OneFate`: on the wire,
  stored, rejected or cut off, and never twice), that a row is what one frame
  becomes under the settings in force when it was handled (`Written`), but for
  an envelope that was altered since, that its sequence counts the rows of its
  chain up to it, that the turns of a transcript are those of the calls that
  wrote them (`OwnTurns`), and that the follower has what its filter finds up to
  its mark (`UpToMark`).  A row remembers its settings in `under`; without that
  the properties on keys and caps could not be stated across restarts.

### Arguments

*A step lemma for each action* (`...Step`), and in it one step for each conjunct
the action can disturb; lemmas named after what is left alone (`Untouched...`,
`...Kept`, `Quiet`) dispose of the rest.

*Refinement.*  `ImplementsLog` maps a chain to the function from its sequences
to its receipts.  That a chain is a sequence, without a gap, follows from
`Linked` by its least missing place, and then each insert is one `Append` of
`ReceiptLog` and every other step a stutter; the terminators are inserts too.
`DeliveredOnce` maps the journal's receipts to `pending`: signing and appending
is `Outbox`'s accepting, an insert its storing, the removal of a file its
forgetting, and the invariant gives the two facts the abstract steps ask for.
`Outbox` and `ReceiptLog` state no fairness, so this is all of both.

*Sums.*  `DropsConserved` adds up what the callers carry.  The fold of the
community modules is a recursive function over the sets of callers; that it
exists, that one caller's change shifts it by as much, and that it is zero when
nobody carries any, is shown by a smallest set for which it would not
(`SmallestBad`), since the library's induction theorems cannot be used.

*The key in force.*  `VerifyChain` moves the key on at each valid rotation, so
`ActiveKey` is a recursive function over positions.  `ActiveKeyIs` shows that it
exists and satisfies its equation, by the least length for which it would not,
and `ActiveKeyOfPrefix`, `DefectsOfPrefix` and `ChainBreak`'s lemmas show that a
verdict on a prefix is the verdict on the chain up to there: this is
`FirstDefect`.  For `OnlyHistory`, the first receipt verifies under the genesis
key, so a daemon wrote it; each later one verifies under the key in force, so a
daemon wrote it, and it names its predecessor by hash and its place by number,
so it can only be the one that was written there; and only a rotation that was
written moves the key.  `LinkedBack` is the same argument from a receipt
backwards, which is all `verify-event` has when another receipt of the chain is
bad; `AnchoredIsWhole` adds the checkpoint that fixes the end.

*Who accepts a rotated chain.*  `HandoverVerdict` needs the shape of every chain,
which `ChainsInv` adds to `RotationInv`: each receipt is sealed at its place, the
receipt of a rotation in progress fits the chain as it was when it was prepared,
and, while no rotation was torn or ran beside a daemon, the keys of a chain never
go back, a handover is to a key above all before it, and it leaves no installed
key out (`Ascending`).  It is kept because every receipt is signed with the
newest installed key (`AscendingGrows`).  Then a chain that holds every handover
since its first receipt is signed by the keys in force (`KeysFollow`): the least
place where it is not would be signed with a key handed over elsewhere.  And a
chain that verifies and is pinned to the published key holds them all
(`NoneIsMissing`): the first handover beyond a missing key would be signed with a
key that no receipt before it installed.  `AcceptedIs`, `DoctorIs` and
`FirstEventIs` draw the conclusion for the three verifiers.

*From a call to its receipt.*  `Written` gives a row a frame, the frame gives it
an event of the call's (`IsFrame`), and `readClaudeCode`, the proxy or the port
says what that event can hold; the properties of `Recording` are then facts
about operators.  The hook's reading of a command is compared with the shell's
by taking both to the same list of words: the items at the places that are
neither a redirect nor its operand.  The hook cuts the command at the redirect
and joins the rest (`GapIs`), the shell picks the places (`At`), and
`operandsOnly` keeps the same ones of either (`OperandsAre`); this holds for
commands of any length.  `ActionType` may then say the risk of what was claimed
(`DeletionSealed`).  What a reader opens goes through the query, the envelope
and the key, one lemma each (`PlaceIsOne`, `EnvelopeIs`, `ReadingIs`).

*What is left of a secret.*  `NothingInPlain` compares how many runes of secrets
a stored text has with how many lie alone in what was reported, where no pattern
finds them (`Lone`).  A text is rendered leaf by leaf with commas between
(`RenderedIs`); redaction by keys replaces whole leaves, so the count is taken
part by part (`Joins`), and nothing is matched across a seam, since a comma is
no rune of a secret.  Redaction by patterns goes rune by rune: `RedactedOneMore`
says what one more does to what was redacted so far, and a text whose secrets
all lie alone is left as it is (`PatternsOnce`), so a second pass finds nothing.
A cut takes a prefix, which only removes runes, and its mark is no secret.
`ErrorIsKept` and `PreviewIsKept` put this together for the two texts, and
`ReportTexts` gives the one fact of the clients that is needed: what they report
are texts, and the values of sensitive keys are marked as such.

*A fold without induction.*  Sequences are put together (`FlattenSeq`) by a
recursive function; `FlatIs` and its like take it apart at a least index for
which it would differ, as `SmallestBad` does for sums.

*The verdict of the rules.*  `Evaluate` keeps the most restrictive of the
matching rules in a fold; `EvaluateIsMostRestrictive` says so for every list of
rules, and `Mediated` holds for all of them.

### Left to TLC

- Liveness: `ProcessReturns`, `StopCompletes`, `ShutdownEnds`, `DrainDelivers`,
  `Decided`.  Fairness and ENABLED are out of the prover's reach.
- What a violation run refutes.

## What the checks say of the code

Three runs end in a counterexample to something the repository says.

1. `daemon_reopen`.  Only the root chain is checked for a terminal tail when
   the daemon starts.  An agent's chain is resumed as it is, so after a stop
   that terminated the agent's chain but not the root chain, the agent's next
   frame follows the terminator.  The shortest way there: only frames with an
   `agent_id`, so the root chain is empty; stop; start; a frame of that agent.
2. `checkpoint_race`.  `Observe` marks a head under the mutex and enqueues it
   after the mutex: two connections can enqueue in the opposite order, and the
   reader of the anchor reports the log as tampered with.
3. `rotation_terminal`.  The documented order (stop, rotate, start) appends the
   rotation receipt after the terminal receipt of the stop.  The chain no longer
   verifies, and the next start resumes it.

Others were met while modelling; the property that holds says where it stops
short of what the repository promises, in its own condition.  `PROJECT.json`
("findings") quotes both sides of each.

- *Checkpoints*: the marks are not read back from the anchor, so two stops
  without a terminator and with no receipt between them anchor one head twice
  (`StrictlyIncreasing` fails with one handler and two starts as well);
  `AnchoredOnce` speaks of one run of the daemon.
- *Rotation*: the handover is recorded in one chain while all chains change
  their key, and a chain that began before it and does not hold it is reported
  broken; doctor and `verify-event` know the published key only
  (`HandoverVerdict` states who accepts what).  A failed swap can lose the old
  private key, because the error of putting it back is ignored and the backups
  are removed (`torn`).
- *Verification*: old checkpoints of a rotated chain fail under the new key, so
  `verify` with the anchor rejects what it accepts without; an empty chain
  passes every expectation but the length (`WitnessedWhole`); one bad receipt
  switches off the structural check for all others of the chain
  (`ConfirmedIsHistory`).
- *Proxy*: a `tools/call` whose params do not decode (arguments or `_meta` that
  are no object) is forwarded: no rule is asked, nothing is recorded, and no
  event tells of its response.  The comments on the parser say that no call can
  pass the policy by in this way; `Mediated` and `Accounted` except it
  (`Decodes`), and without the exception `Mediated` fails after two steps.
- *Proxy*: when an id is used again before its answer, the refusal of a paused
  call reads an entry that is gone and panics; the panic is recovered, the
  refused call is forwarded, and the lock is never released.  `Mediated` names
  this call (`locked`) and says that there is no other and that it takes such an
  id (`crossed`); without the exception it fails after seven states.  Of
  `Accounted`, what it says of refusals holds whatever the ids; what it says of
  responses does not, for with crossed ids a response takes the entry of another
  call.
- *Delivery*: a cancelled context does interrupt the delivery under way, against
  the comment of `Flush` (`Cancel`).
- *Recording*: the daemon refuses two things the emitter does not
  (`Unmirrored`); what the hook adds to a call from the transcript (a model over
  its cap, a usage with a number that is none, or simply more than the frame has
  room for) costs the call its receipt, where the comment says that enrichment
  never fails the hook (`BadTurn`), and so does a frame that the hook cannot read
  whole (`StdinCut`); behind a prefix like `sudo` a redirect hides the verb
  (`Prefixed`); the operand of `-t` and of `--target-directory`, an escaped space
  and a comment are misread (`Misread`); and a text the hook had to cut is not redacted at the cut.

Everything else that was stated holds on the instances above.

## Not modelled

- Canonical JSON, hashing, signatures and encryption as computations; they are
  modelled by what they promise.  The patterns of the redactor and a file of
  custom ones.  Advisories of `VerifyChain` (repeated idempotency keys, round
  trips, session ends), which change no verdict.
- SQLite beyond one table and two unique keys: `SetMaxOpenConns(1)` makes the
  accesses of one process atomic, and they are atomic here.  Two daemons on one
  store (the new process loads the head before it takes the socket, while the
  old one may still drain), the statistics, the filters by time and the parity
  checks of `InsertRaw`.
- An events_dropped receipt that cannot be built or inserted: the frame goes on
  without it and the count is lost (`build.go:433`).  That is how `DropFails`
  behaves; there is nothing it could be held against, since the number is in the
  log only.  Terminators of agents a run has not seen (`build.go:1145`): their
  chains stay open, as `StopTerminates` grants.
- The ends of the 64-bit counters: 2^63 sequences of a chain, and
  `saturatingIncr` of the drop counter.
- `BufferingEmitter`, `CompositeEmitter`, the in-memory emitter, `MemoryWal` and
  the fire-and-forget mode of the HTTP emitter: they promise nothing about
  order or a crash that a property could state.
- Peer credentials, file permissions, generation of key files, configuration,
  the command line tools and doctor's other checks, the stale-socket probe, the
  proxy's start-up and messages that are no tool calls.
- The generator of test vectors, the ports in Python and TypeScript (one of
  their emitters is the client `port` of `Recording`), the plug-ins, and the
  repository's own Alloy model.

## Plan

Order: what the product promises first (the chain), then what surrounds it.

1. *Done.*  `ReceiptLog`, `Pipeline`; `Daemon`; `Checkpoint`; `DaemonEmitter`.
2. *Done.*  `VerifyChain` and `Verify`; `Rotation`; `Outbox` and `Delivery`;
   `Policy` and `Proxy`; `Command`, `Clients`, `Redaction`, `Queries`,
   `Disclosure` and `Recording`.
3. *Done.*  Proofs of the commit path, the daemon, checkpoints, delivery, the
   daemon emitter, the proxy, rotation, verification and recording, with both
   refinements.
4. Every invariant of the passing runs is proved.  What would come next is more
   model: `BufferingEmitter` and the composite emitter, and two daemons on one
   store.
