# A TLA+ development of MixT

MixT is a C++-embedded language for mixed-consistency transactions.  A
transaction is compiled, at C++ compile time, into a sequence of *phases*, one
per consistency label; at run time the client executes the phases one after the
other, each in one SQL transaction of the store that holds the label's data.
A phase of a remote label runs at a *relay* beside its store, on the values the
client sends along.  A tracker lets a reader of strong data find out which
causal writes belong to it.

This directory models that program: how a transaction's text is read and what
the compiler makes of it, what clients, relays, stores and the tracker do with
it, and the two concurrent libraries around it (the queue and the load
generator).  Paths below are relative to `src/transactions/`.

## 1. Inventory

| component | state it keeps | operations | correct when |
|---|---|---|---|
| phase execution (`mtl/interp.hpp`, `remote_interp.hpp`, `run_phase.hpp`, `TransactionContext.hpp`) | the phase the client is at, its variable store, the clone of the running attempt, the back-off | begin, dispatch, attempt, statement, commit, fail, retry, answer | phases take effect in order and once; nothing of a failed attempt is kept; the call ends |
| relay (`server/`, `pgsql/relay.cpp`) | one session per connection | receive a request, run the phase, answer; end of a session | a session leaves no transaction open; one answer per request |
| SQL transactions and stores (`pgsql/SQLTransaction.*`, `SQLStore.*`, `SQLLevels.hpp`) | the current transaction, its isolation level | begin, exec/prepared, store_commit, destructor | no lost update; an aborted transaction changes no row |
| SQL objects (`pgsql/GSQLObject.cpp`, `SQLCommands.hpp`, the triggers in `postgres_stuff/`) | a cached buffer with its version; rows with versions | load, save, resize, increment, create, send and receive | a read sees the row, not a stale buffer; versions identify data |
| variable stores (`mtl/environments*.hpp`, `runnable_transaction.hpp`) | per variable a log and a position; per handle a log shared by its aliases | bind, push, increment, begin_phase, clone, take, send, receive | a weaker phase reads what the stronger one bound at the same point of the control flow |
| parser (`mtl/new-parsing/`) | none (compile time) | parse, convert_to_old_parsed | the tree is what was written |
| flattening, tracking insertion, phase splitting, recollapse (`mtl/flatten_expressions.hpp`, `insert_tracking.hpp`, `split_phase.hpp`, `AST_split.hpp`, `name_while.hpp`, `remove_*.hpp`, `recollapse.hpp`) | none | passes over the tree | the phases together do what the transaction says; every strong assignment is tracked |
| typechecking and labels (`mtl/typecheck_and_label_impl.hpp`, `label_inference.hpp`, `collect_proper_label.hpp`) | none | temporary labels, constraints, their solution, the flow check | labels are as strong as the constraints allow; no phase depends on weaker data |
| tombstones (`tracker/Tracker.cpp`, `ClientTracker.hpp`) | tombstones and metadata in the stores, encountered tombstones of a phase, obligations of a client | on write, on read, set_phase_after, find_tombstones | who sees a transaction's strong write sees its causal ones |
| vector clocks (`tracker/ClockManager.cpp`, `postgres_stuff/sync.cpp`) | one clock per relay, a minimum per session and per client | select, send, receive, updateClock, update_clocks | minima only grow and are current; the clock catches up |
| queues (`ponyq/`) | a linked list with an atomic tail and a sentinel; flags of returned nodes | push, peek, pop, peek_or_build, blocking_pop, return_me, release_node | FIFO; nothing freed early, leaked or used twice |
| benchmark clients (`threaded_trial.hpp`) | a pool of clients and a count | launch, run, give back, drop, log, stop | the count is the pool's size; the test ends |

Components interact by calls (client to its own phases), by request and answer
over one connection per client and relay, by rows and locks of a store (clients
to each other), by tombstones (writers to readers), by a clock that one thread
writes and others read (sync process to sessions), and, inside the compiler, by
the tree each pass hands to the next together with the `requires`/`provides`
sets.

What is hard: statements of different clients interleave at a store; a phase is
tried again after a conflict; a failure comes after stronger phases have
committed; an answer is lost after the commit it reports; two clients wait for
each other's rows; objects outlive the transactions that filled their buffers;
clocks are read while they are written; a push is visible before it is linked;
and, without any concurrency, several phases walk the same control flow and
must stay in step with each other's logs.  `PROJECT.json` lists these hazards
at their lines, with the properties that would catch them.

## 2. Modules

| module | models | proofs |
|---|---|---|
| `AtomicPhases` | abstract specification: what a transaction promises its caller | |
| `MixedTransaction` | clients, relay sessions and stores executing compiled transactions | `MixedTransactionProofs`, `MixedAtomicityProofs` |
| `Parser` | the text of a transaction to the compiler's syntax | |
| `WrittenText` | a programmer who writes transactions, and how C++ would spell them | |
| `MtlSyntax` | labels and syntax trees | |
| `Flatten` | loops that test a variable, temporaries for nested expressions | |
| `LabelInference` | temporary labels, constraints, inference, the flow check | |
| `InsertTracking` | tombstones and accompanied writes | |
| `SplitPhase` | loop naming, splitting, clean-up passes, compile-time rejection | |
| `Recollapse` | temporaries put back; the compiler as a whole | |
| `DirectSemantics` | reference: what a written transaction means, unsplit | |
| `PhaseReplay` | one client's variable store and the interpreter of phases | |
| `SqlObject` | rows, SQL commands, triggers, and each session's buffer | `SqlObjectProofs`, `SqlReadProofs` |
| `Tracking` | tombstones in a strong and in a replicated causal store | `TrackingProofs` |
| `ClockSync` | the causal store's clock on its way to a client | `ClockSyncProofs` |
| `FifoQueue` | abstract specification of a queue | |
| `PonyQ` | the lock-free queue with its two memory managers | `PonyQProofs` |
| `ClientPool` | launchers, clients, logger and main thread | `ClientPoolProofs` |

`Flatten` extends `MtlSyntax`, and so on up to `Recollapse`, each pass extending
the one before it; `PhaseReplay` extends `Recollapse` and `DirectSemantics` and
composes compiler and interpreter.  `PonyQ` instantiates `FifoQueue` and
`MixedTransaction` instantiates `AtomicPhases`.  For every run there is an `MC*`
module with what the configuration needs.

### MixedTransaction

The state of a client is `pc`, `run`, `phase`, `outcome` and `env` (the variable
store; for each phase, the log of what it bound, every value stamped with the
attempt that bound it).  The call in flight is `rpc` with `attempt`, `ip`,
`relayStore` (`common_interp`'s store) and `clone` (the attempt's).  A store has
for every row a `version` and the client that holds its `lock`; an open SQL
transaction has a `snapshot`.  `commits` is a history variable.

| action | code |
|---|---|
| `BeginInterp`, `Dispatch` | `begin_interp2`, `dispatch_to_runner` |
| `ReceiveRequest` | the relay's `run_phase` reads the values |
| `OpenTransaction` | `store_context` on first use |
| `RunStatement`, `StatementConflict`, `StatementDeadlock` | `SQLTransaction::exec`/`prepared` with `default_sqltransaction_catch` |
| `CommitPhase`, `CommitError` | `commit_phase`, `store_commit` |
| `Retry` | `common_interp`'s loop after the back-off |
| `ReceiveSuccess`, `ReceiveFailure` | `remote_interp` on the answer |
| `LoseConnection`, `LoseSession` | the network exception at either end |

The same actions serve a phase that runs in the client itself: `Dispatch` then
begins the attempt without a request.  What a phase computes is abstracted to
reads and writes of rows; `PhaseReplay` models the computation.  PostgreSQL is
external: it is modelled by the snapshot, first-updater-wins, lock waits,
deadlock detection and the spurious failures of SERIALIZABLE that
`SQLTransaction.cpp` distinguishes or fails to distinguish.

### The parser

A text is a sequence of words, spaces and punctuation; a name is a sequence of
words, because the parser finds its keywords inside names too.  `Parser` has one
operator per function of `parse.hpp`, in the order in which the code tries the
alternatives, and the conversion of `to-old-ast-parse.hpp`; the string helpers
are those of the mutils submodule, modelled from their use.  `WrittenText` grows
a statement around an expression step by step and spells it; a comparison on
the right of an assignment is always spelled in parentheses.  The sizes of the parser's buffers (20 arguments, 400
nodes) are left out.

### The compiler and the replay

A program is a syntax tree of `MtlSyntax`, as written.  The compiler flattens
it, gives it temporary labels, infers labels, inserts tracking, names loops,
splits it, cleans up and recollapses; `accepted` says whether the C++ compiler
would take it.  `PhaseReplay` then runs the phases.  A variable's holder
is a log with a position; position 0 is `curr_pos = -1`; a `value_holder`
(arguments, loop counts, names no later phase requires) is a log of at most one
value.  `objLog` is the remote map.  `StoreFor` and `StoreAfter` are the transfer
to and from a relay: the named variables, and the remote maps *of the phase's own
label only*.  An attempt runs one statement per step; an abort drops the clone;
other clients write between attempts.  A statement that would fail an assertion
or overrun a vector is not enabled, and `ReadsAreDefined` says that this never
happens.  `marks` records tombstones, assignments and accompanied objects.

Abstractions of this part:

- constraints are a set, as if the sort of `label_inference.hpp:15` always
  brought a label's constraints forward (its order is not transitive);
- isValid, endorse, ensure and operations as expressions are not part of
  `MtlSyntax`;
- an attempt is atomic towards its store (`MixedTransaction` has the inside);
- values are integers, a condition is "not 0", and the one operation is `add`;
- an unbound `value_holder` is sent as the zeroed memory it is, and counts as
  bound at the receiver (`serialize_holder`);
- an `AbortAttempt` of the strong phase ends the run (the exception leaves the
  transaction), one of the causal phase is tried again.

### SqlObject

One object of a strong or causal store, as a blob or an integer.  `rows` are its
committed rows (row 0 and, in a causal store, one per master), `txn` the view
of each session's SQL transaction, `obj` each session's `GSQLObject::Internals`
(size, capacity, buffer, version) and `clock` its store's clock.  `repl_group` is
the group each session's relay was built with: sessions of one relay share it.
`Begin`, `Get`, `Put`, `Increment`, `NewObject`, `Commit`, `Abort` and `Receive` (the
handle arrives again in a request) are the calls; `FailGet` and `FailPut` are the
SQL error in the middle of a load or a save.

`Begin` fixes the transaction's `current_timestamp`, in the 10us that the numbering
trigger rounds it to, so that several transactions may have one; `Snapshot` is the
first statement, at which PostgreSQL decides what the transaction sees.  Between
the two others may commit: a transaction can overwrite a row that is stamped
later than itself.  `resize_buffer` keeps in `fault` what went wrong first with a
buffer: its assertion, data written behind the buffer (in a build without
assertions), or the zeros that a debug build writes behind an integer.

`left` and `seen` are history variables (`seen`: what was committed to row 0, and
whether by a *late* transaction, one with a stamp that its group had committed or
passed).  Removal of objects and replication between masters are left out.

### Tracking

Writers make a nonce, assign a strong object with its metadata in a strong
phase, and write tombstone and data in a causal one; readers read both.  A phase
of the strong store is one step; the causal store has two replicas, and
transactions are shipped between them whole and in order.  `Encountered`, what
the reply carries of the nonces that a read met, is empty: only `commitContext`
would fill it, and nothing calls that.  The client's and the relay's code behind
it (`SetPhaseAfter`, `FindTombstones`) is modelled all the same, and is what the
mutant of `ReadersReturn`, which hands the nonces on, runs into.  `must_track` and
the removal of old metadata are left out.

### ClockSync

`Select`, `Connect`, `Send` and `Skip` are the loop of `sync.cpp`; `Accept`,
`Receive`, `WriteElement` and `End` the handlers in `ClockManager.cpp`, which
write one element per step; `BeginUpdate`, `ReadElement` and `EndUpdate` are
`updateClock` in a session, and `update_clocks` is the client's merge.  Whether
the accept loop waits for a handler before it accepts again is decided in a
submodule: `Accept` allows both, and `overlap` records whether it happened.
`reader[s].began` is a history of the clock as it was when `updateClock` began.

### PonyQ

One atomic operation per step: the exchange of the tail, the link, the
consumer's pop, the stores, loads and compare-and-swaps of `return_me` and
`release_node`.  `manager` is the memory manager of `normalq.hpp`; `buffers` says
whether the two flag stores may wait in an x86 store buffer.  Nothing in the
repository uses the queue: `peek_or_build`, `pop` and the destructor are
modelled with the deleting manager, `blocking_pop` with the returning one.  The
`released` flags of debug builds are left out (the destructor's assertion on
them, `ponyq.hpp:135`, fails for a queue whose seed is still the sentinel, since
`init` does not clear the flag).

### ClientPool

Clients are counted, not named.  A launcher's `Launch` is the check of the time
and of the counter, `Enqueue` and `Count` are the two halves of `push_client`,
`Dequeue` the wait; a client's task ends by `Acts`, `ProtocolError` or
`FatalError`; `AwaitLauncher`, `Join`, `Unwind`, `ProcessFailure` and `LogWritten`
are the main thread's.  The counter is a `size_t` of a small width.

## 3. Runs

| run | states | asks |
|---|---|---|
| `mixed_ordered` | 5 092 | two clients, two transactions each, strong phase then causal phase, rows updated in one order; with fairness: every call returns, writes complete, the caller's view is that of `AtomicPhases` |
| `mixed_losses` | 37 036 | a local, a strong and a causal phase, crossing updates, lost connections and sessions: the safety properties of section 4 |
| `mixed_crossing` | violation | the causal phases update two rows in opposite orders |
| `phase_replay` | 646 928 | 88 transactions of two pieces and three ill-labelled ones, each compiled and run with an abort and a foreign write |
| `unshipped_map` | violation | a causal phase reads a strong remote variable |
| `parser` | 90 685 | transactions of up to three nested constructs, written with parentheses, are parsed as written |
| `sql_object` | 3 184 323 | two sessions of one group, of two groups with one row and of two with two rows, on one object; three transactions with late snapshots, loads and saves that fail, values of 60 and 3000 bytes |
| `clock_sync` | 533 986 | two connections with up to two buffered clocks each, two clock elements, a session that reads while handlers write; with fairness |
| `tracking` | 276 308 | three writers (one by an operation), three nonces, a reader that may lose a phase; with fairness of the reader |
| `half_read` | violation | two writers and one reader |
| `queue` | 244 720 | four nodes, two pushers on the deleting queue or one user of the returning one |
| `client_pool` | 191 124 | two launchers, a fatal error and a failed spawn |

**Bounds.**  Two clients and two rows are the least with which conflicts, lock
waits, a deadlock and a serialization failure of either isolation level occur;
all of them do in `mixed_losses` and, except for deadlock, in `mixed_ordered`.
`MaxRuns = 2` makes a client's second transaction meet what its first one left
(a stale lock, an old log).  Three phases make "before" and "after" the current
phase different from "first" and "last".  The theorems of section 5 do without
these bounds.

In `phase_replay` every pair of seven pieces is tried, once with distinct
objects and once with both handles of a label on one object: copying between
stores, writes through an alias, operations that refresh an alias, conditionals
and loops on strong and on causal data.  A second piece replays logs that the
first one has already moved in.  Initial values 1 and 2 make conditionals take
both branches and loops run once and twice (more after a foreign write of 3).
One abort suffices for a retry at each phase in turn, one foreign write makes
the retry see other data.  Five of the 49 pairs are left out, because flattening
gives two of their temporaries one name (a conditional followed by a
conditional or a loop, `flatten_expressions.hpp:405`); three are compiled and
rejected, for temporary labels that two bindings share.

In `sql_object` one value is below the 100 bytes of the version check and one
above it and above every buffer's first 2048 bytes; three transactions are enough
for one to fail, another session's to commit and the first session's to meet
both, and for two to begin before a third's commit and end after it.  In
`clock_sync` two connections are enough for an old handler to overtake a new one,
two clocks in each buffer for it to have an old one and a new one to write, and two
times of the store for a read to be torn; the theorems do without these bounds.
In `tracking` two writers may draw one nonce while a third draws another.  In `queue` four nodes are the sentinel, the
element behind it and two pushes that have not linked, or a node that has gone
round the queue.  In `client_pool` a counter modulo 8 is wide enough for every
number of clients and wraps below zero as a `size_t` does.

**Deadlock** is not checked where a run may stop: when every client has begun its
`MaxRuns` transactions, when the one transaction is done, failed or rejected,
when a text has reached its size, when the queue is destroyed, when the test
has ended or hangs (see below), or when writers and readers are done.

**Fairness.**  `MixedTransaction` asks for weak fairness of each client's own
steps and of each session's steps: the client is a thread, a session is a thread
at the relay, `std::this_thread::sleep_for` ends, and PostgreSQL answers a
statement that has neither to wait nor to fail.  Losses are not fair, and are
switched off in `mixed_ordered` (a lost connection strands the client).
`CallReturns` rests on `MaxRuns` too: the causal phase retries until it commits,
and only finitely many other transactions can come in its way.  Without that
bound a client could be overtaken for ever; the code has nothing against this
but a growing, random back-off.  `ClockSync`: the store's time passes, the sync
process and the handlers are loops that run on, and a connection that can be
made again and again is made in the end (strong fairness of `Connect`, since
`sync.cpp` may also skip a round).  `Tracking`: a relay serves the request it has
and a client runs its transaction to the end; writers may stop, and replication
may stand still.  `PonyQ`: threads leave the queue's code, store
buffers drain, the consumer spins in `blocking_pop`, users return what they hold,
and the program goes on pushing.  `ClientPool`: every thread runs, actions of
clients end, and `stop_time` comes; that one more client is intended is not fair.

### What the violations show

- `mixed_crossing`: "deadlock detected" is not "could not serialize access", so
  `SQLTransaction::is_serialize_error` does not make a SerializationFailure of
  it.  The causal phase, which is meant to be retried until it commits, gives
  up; the strong phase has committed by then.
- `unshipped_map`: `send_remote_maps` sends the maps of the phase's own label.
  `remote y = strong, remote x = causal, x = y` compiles, and at the causal relay
  the log of `y` is empty.
- `half_read`: the nonces that a read meets reach the reply only through
  `commitContext`, which nothing calls.  A reader sees a strong write and not the
  causal one of the same transaction.

### What changed constants and hypotheses show

Some properties hold under a hypothesis, or on instances, that exclude a known
failure of the code.  TLC finds the property violated when it is let in:

| property | change | what happens |
|---|---|---|
| `ReadsAreDefined` | `Programs <- NestedWhile` in `UnshippedMap.cfg` | a loop's count is one value, overwritten by each run of the loop; weaker phases repeat an inner loop as often as its last run did |
| `ReadsAreDefined` | `Programs <- SharedLoopName` | a loop in a branch and one behind it have one name and one count |
| `SplitMeansUnsplit` | `Programs <- OperationBeforeRead` | weaker phases have no step for a stronger operation, though it appends to the object's log |
| `BufferIsRow` | without `left[s] /\ obj[s].size >= 100` | a put that failed, or was rolled back, stays in the buffer under a version that another transaction commits; a load that failed between version and data gives back no buffer |
| `BufferIsRow` | without `GivenLate` | a session keeps the buffer of a version that a late transaction has given to other data |
| `BufferIsRow` | without the group's own row | a put of what the writer's own row holds does not reach row 0, which is read |
| `VersionIdentifiesData` | without `late` | a transaction that began before another of its group, or in the same 10us, overwrites what that one committed: row 0 keeps the later stamp |
| `BufferFits` | without the exception for integers | a debug build clears 2048 bytes of a buffer of 4 |
| `BufferFits` | with "assertion" as a fault | `resize_buffer` never replaces a buffer: a put of 3000 bytes to an object whose buffer was made for 60 fails the assertion at `GSQLObject.cpp:232` |
| `ClocksAreCommitted` | for the session's own group too | a load of what a transaction wrote before it was rolled back; `save` never hands this entry on |
| `GlobalMinGrows` | without `~ overlap` | the old connection's handler writes a buffered clock over a newer one |
| `ReadersReturn` | `Encountered` as `EncounteredIfCommitted` | with the missing call, a reader polls in a snapshot without the tombstone, for ever |
| `ExclusiveUse` | two `Users` | a `return_me` that is late with its compare-and-swap pushes a node that is in use again |
| `NobodyForgets` | without `~buffers` | `return_me` and `release_node` each miss the other's store |
| `ReturnedGoesBack` | `Nodes = {n1}` | the only node stays the sentinel |
| `TestEnds` | without `processed > 0` | the second decrement for a failed client wraps the counter; no client is made and the launcher waits for ever |
| `TestEnds` | without `spawns < SpawnErrors` | the main thread unwinds into the futures of launchers that wait for a client |
| `ParsedAsWritten` | `Parenthesised = FALSE` | `==` binds weaker than `&&` for the parser |
| `ParsedAsWritten` | `Ops = {">="}` | an operator is its first character |
| `ParsedAsWritten` | `Members <- NotifyMember` | the `if` in a method's name makes its call an if statement |

## 4. Properties

Of `MixedTransaction`: `CommitsArePrefix` (each phase commits at most once, after
all stronger ones), `EnvFromCommittedAttempt` (the client's variables come from
the committed attempt only), `ReturnMeansCommitted`, `NoLeftoverLocks`,
`NoLostUpdate`, `OnlyCommitsChangeRows`, `WriteAtomicity` (an aborted transaction
has changed nothing), and under fairness `CallReturns`,
`CommittedWritesComplete` and the refinement `ImplementsAtomicPhases`.  The
refinement mapping counts the committed phases of the current transaction.

Of the compiler and the replay: `SplitMeansUnsplit` (run on what each phase found
in its store, the written text returns the same value and leaves the same
objects), `CommittedEffectsStand` (what stronger phases did is right whatever
weaker stores turn out to hold), `ReadsAreDefined`, `BoundByOnePhase`,
`TrackedWrites` (every strong assignment of a transaction that touches both
stores is accompanied, and its tombstone is written to both), and
`LabelsAreLeast` (inference against reachability in the constraint graph).  Of
the parser: `ParsedAsWritten`.

Of `SqlObject`: `BufferIsRow` (a get returns the row as its transaction sees it),
`VersionIdentifiesData` (a version is given twice by late transactions only),
`BufferFits` (what passes the assertion has room), `ClocksAreCommitted`
(no row and no clock has a time that was not committed).  Of `Tracking`:
`MetadataNamesWriter`, `TombstoneCarriesWrites`, `NoCollisionLeft`, `ReadersReturn`,
and `ReaderSeesWhole`, which is violated.  Of `ClockSync`: `GlobalMinGrows`,
`ClientMinIsCurrent` (a client's new minimum lies between the clock its session
began to read and the clock), `ClockCatchesUp`.  Of `PonyQ`: `FirstInFirstOut` (the refinement of `FifoQueue`,
with links that are still to be made counted), `NoDanglingNode`, `NothingLeaks`,
`HiddenElementsAppear`, `ExclusiveUse`, `NobodyForgets`, `ReturnedGoesBack`.  Of
`ClientPool`: `DriftIsFailures`, `FewTooMany`, `TestEnds`.

## 5. Proofs

`MixedTransactionProofs` proves, for every set of clients and rows, every number
of phases, every program and every choice of labels, that `Spec` implies:

| theorem | statement |
|---|---|
| `TypeCorrect` | `[]TypeOK` |
| `CommitsInOrder` | `[]CommitsArePrefix` |
| `EnvIsCommitted` | `[]EnvFromCommittedAttempt` |
| `ReturnIsCommitted` | `[]ReturnMeansCommitted` |
| `LocksAreScoped` | `[]NoLeftoverLocks` |
| `UpdatesAreNotLost` | `[]NoLostUpdate` |
| `RowsMoveByCommits` | `OnlyCommitsChangeRows` |

The assumptions are those of `MixedTransaction`: at least one phase; `CanAbort`,
`RunRemotely` and `Serializable` are sets of phases; a program gives each client
and phase a sequence of statements; `NoClient` and `NoSnapshot` are neither a
client nor a snapshot.

None of the properties but the two on locks is inductive.  `IndInv` adds

- `CommitState`: while a client is in a transaction, exactly the phases before
  its current one are committed, plus the current one when its answer is "ok" or
  was lost; without it a phase could commit twice in a state where the client is
  about to dispatch what has been committed already;
- `EnvState`: `relayStore` is the client's store until the attempt commits, and
  the clone holds one value per executed statement, all of the running attempt;
  without it `CommitPhase` could take a clone of another attempt.

Each part has a step lemma (`TypeStep`, `StoreStep`, `CommitStep`, `StoresStep`)
with one case per action.  `RowsMoveByCommits` follows from `IndInv` and the
effect of `StoreCommit`, the only operator that changes `version`.

`ClockSyncProofs` proves, for every number of elements, sessions, connections
and buffered clocks:

| theorem | statement |
|---|---|
| `TypeCorrect` | `[]TypeOK` |
| `SessionMinGrows` | `GlobalMinGrows` |
| `ClientsAreCurrent` | `ClientMinIsCurrent` |

`GlobalMinGrows` needs that nothing older than the clock is still to be written
to it.  The inductive invariant `IInv` says that, until two handlers overlap,
`Serial` holds: clocks on the way are in order within and between connections
(`ChannelsOrdered`), one handler runs at a time and what it writes is older than
what is on the way (`HandlersOrdered`), the clock is older than both
(`ClockIsOldest`), and what a session has read lies between its minimum and the
clock, element by element (`ReadersBetween`), which is why a torn read does no
harm.  For `ClientMinIsCurrent`, `ReadsCurrent` adds that no element read so far is
older than the clock that the read began with (the clock only grows,
`ClockGrows`), and that the client is nowhere ahead of the clock.

### Write atomicity and the refinement of AtomicPhases

`MixedAtomicityProofs` goes on from `IndInv`:

| theorem | statement | hypotheses |
|---|---|---|
| `AbortedWroteNothing` | `[]WriteAtomicity` | `NeverStuck`, `AbortsBeforeWrites` |
| `ImplementsSafely` | `Abstract!SafeSpec`, the safety of `AtomicPhases` | `NeverStuck` |

`NeverStuck` says when a phase whose label cannot abort never gives up: its
store is not SERIALIZABLE (`pgsql/SQLStore.cpp:36`: causal stores run at REPEATABLE
READ), and all such phases update the rows of their store in one order, that is,
rows have ranks which the updates of every phase follow.  `mixed_crossing` is what
happens without this.  `AbortsBeforeWrites` says that nothing stronger than an
aborting label writes: with strong and causal labels, that strong comes first.
`MixedOrdered.cfg` satisfies both.  The heart is `NoDeadlock`: among clients that
wait for each other, one waits for the row of least rank, and the client that
waits for one of *its* rows contradicts that.  `StrongInv` adds to `IndInv` that a
locked row was written by an earlier statement of the attempt (`LocksWritten`),
that a negative answer comes only from labels that can abort
(`FailsWhereAllowed`), and what the caller's outcome says about the phases
(`CallerState`).  In the refinement a commit is `TakeEffect`; that `Done`, the
number of committed phases, is `phase - 1` or `phase` (`DoneCounts`) follows from
`CommitState`.  The fairness of `AtomicPhases` is only checked.

### Tombstones

`TrackingProofs`, for any number of writers, readers and nonces:

| theorem | statement |
|---|---|
| `MetadataIsWriters` | `[]MetadataNamesWriter` |
| `TombstonesCarryWrites` | `[]TombstoneCarriesWrites` |
| `CausalNameIsFree` | `[]NoCollisionLeft` |

`StoreInv`: a committed strong phase owns its nonce, for its tombstone is in the
strong store and no other committed transaction has the same (`NoncesOwned`, from
the primary key of the strong tombstones); the object is as one committed phase
left it; and a tombstone at a replica came with the transaction that wrote it.

### Objects

`SqlObjectProofs` and `SqlReadProofs`, for any sessions, values of any size, groups,
levels and tables:

| theorem | statement |
|---|---|
| `BuffersSuffice` | `[]BufferFits` |
| `ClockEntriesAreCommitted` | `[]ClocksAreCommitted` |
| `VersionsAreNotReused` | `[]VersionIdentifiesData` |
| `ReadsAreTheRow` | `[]BufferIsRow` |

None has a hypothesis; what the code gets wrong is named in the properties (section
3 shows that each exception is needed).  `RoomInv`: while the assertion of
`resize_buffer` has not failed, a blob's buffer has room for its size and for the
least allocation, and an integer's for 4 bytes.

`WriterInv` is first-updater-wins: at most one open transaction has written, it
began from the committed rows, and what it would commit as row 0 bears at least
its stamp (in a strong store, a greater version) or changes nothing.  `StampInv`
says where entries of versions come from: those of rows and clocks are of committed
rows 0, but for what a session's transaction has stamped in its own view.
`HistoryInv` keeps every committed pair of version and value; a new pair whose
version is not new is one of a late transaction, because the stamp of any other is
above all that its group has committed.  Together they are `VersionInv`.  `ReadInv`
adds that the versions objects have are committed or their own transaction's
(`KnownInv`), and that a buffer whose version `load` would accept holds that
version's value or its group's row, or the version was given late (`TrustInv`),
unless the session left a save or load half done.

### The queue

`PonyQProofs`, for any nodes, pushers and users:

| theorem | statement | hypotheses |
|---|---|---|
| `OldTailIsLive` | `[]NoDanglingNode` | |
| `DestructorFreesAll` | `[]NothingLeaks` | |
| `ReturnedIsNobodysToForget` | `[]NobodyForgets` | |
| `PushedOrderIsTaken` | `FirstInFirstOut` | the deleting queue |
| `OneUsersOrderIsTaken` | `FirstInFirstOut` | at most one user |
| `GivenToOneAlone` | `[]ExclusiveUse` | at most one user |

The only assumption beyond names is that memory is finite.  For the deleting
queue `ChainInv` says that there is a chain `c[lo] .. c[hi]` of distinct nodes from
the sentinel to the tail, each linked to the next or, while its link is null,
about to be linked by exactly one thread; every thread that has a link to make
has one of these; and what is allocated is the chain, the nodes of pushes that
have not exchanged the tail, and an extra head.  An exchange makes the chain
longer, a pop that finds a link shorter, and nothing else changes it; so the old
tail of a push is still in the chain, and the destructor, which runs when nobody
pushes, finds every link made.  For the returning queue `KeptInv` is enough, as
nothing is freed.  `HandledInv` says that a node which is returned and outside is
with a thread that has yet to look at the second flag.

`OneUser` says that at most one thread shares the returning queue with its
consumer: it pushes new nodes, is given nodes and returns them.  The code needs it:
with two such threads `ExclusiveUse` is false (the table in section 3).  The nodes'
number and the store buffers stay arbitrary, and the deleting queue, which has no
user, keeps any number of pushers.  The invariant is `UseInv`: the returning queue
has a chain like the deleting one, and for the set of its nodes

- `BufferInv`: a buffered store is the user's `ready` or the consumer's `outside`,
  and memory does not show it yet.  `Returned` and `Outside` count both, so that a
  store that leaves its buffer changes nothing the invariant speaks of.
- `NodeInv`: the nodes of the chain are inside, and all but a sentinel that was
  popped are unreturned and unheld; a held node has one holder and is not returned.
- `TakeInv`: who won the compare-and-swap, or made the node, is the only thread that
  pushes it, and by the exchange the node is clean again.
- `ConsumerInv`: `release_node` works on a node that the chain has let go, and what
  it is about to give out nobody else has.
- `UserInv`: the node of a `return_me` that has yet to look or to swap is still
  returned, or the consumer took it since and is pushing it, or it is `Stale`.

`Stale` is the hard case: `release_node` saw `ready` and pushed the node back while
its user is still before the look at `location`, or the compare-and-swap, in
`return_me`.  If the node left the queue again before that, the user would take and
push a node that is in use.  It may be popped again, but it is the tail, and a
sentinel is only released once another node is linked behind it.  Nobody pushes
one: the user is busy, and `release_node` pushes returned nodes only, of which the
chain has none.  A second user breaks exactly this disjunct.

`Elements`, which the refinement of `FifoQueue` maps to the queue, walks the links.
`WalkExists` proves that the walk is defined, `WalkChain` that it follows the chain
to the tail (by induction over sets of numbers, `Induct`, from the library's
well-foundedness of `<`), and `ChainFits` that the chain is no longer than the
memory, where the walk ends.  Then the exchange is `Put`, a pop with a head is
`Take`, one without only shows the oldest element, and `peek_or_build` is `Build`.
The walk's lemmas ask for the chain alone, whatever the manager.  In the returning
queue `UseInv` adds that the node of an exchange is not in the chain yet; the steps
of `return_me` and `release_node` before it leave the elements as they are.

### The benchmark's clients

`ClientPoolProofs`, for any number of launchers, clients and failures:

| theorem | statement |
|---|---|
| `CounterDrift` | `[]DriftIsFailures` |
| `OvershootBounded` | `[]FewTooMany` |

The counter's width is assumed to hold the clients that can be intended plus one
per launcher, as 64 bits do.  `PoolInv`: clients and counter differ by what is
being counted, by the failures processed, and by a multiple of the width
(`Drift`); and the clients together with those that a thread has already decided
to make are at most the intended ones, one per launcher and one per processed
failure (`Decided`).  `FewTooMany` needs both: a thread decides by the counter, and
the counter is wrong by the drift.

All inductive invariants were first checked by TLC on the configurations of the
runs.

### Only model-checked

- Liveness: `CallReturns`, `CommittedWritesComplete`, the fairness in
  `ImplementsAtomicPhases`, `ClockCatchesUp`, `ReadersReturn`, `HiddenElementsAppear`,
  `ReturnedGoesBack`, `TestEnds`.  The prover has no rules for fairness.
- The parser, the compiler and the replay (`ParsedAsWritten`,
  `SplitMeansUnsplit`, `CommittedEffectsStand`, `ReadsAreDefined`,
  `BoundByOnePhase`, `TrackedWrites`, `LabelsAreLeast`): their operators are
  recursive over syntax trees, which the prover cannot handle.
- `FirstInFirstOut` for the returning queue with several users, of which nothing is
  claimed: the run has one, and the proof's invariant is false for two.

## 6. Plan

1. Compiler: isValid, endorsement and operations as expressions; the constraint
   sort.
2. The back-off's arithmetic, with its width (`run_phase.hpp:477`: the multiplier
   doubles without bound).

## 7. Not modelled

The template parser that `new-parsing` replaced and the generated conversions of
`new-parsing/ast.hpp`, isValid, endorse and ensure and the relabelling passes for
them, the built-in operations on lists, the lengths of sleeps, message framing
and receiver threads of the network library (a submodule that is not in the
repository), connection pools, object removal, the testing store, the raw SQL
store, the example applications, the analyzers in `euc/` and the drafts.
`PROJECT.json` gives the reason for each.
