-------------------------- MODULE MixedTransaction --------------------------
(***************************************************************************)
(* The execution of a compiled MixT transaction.  A transaction is a       *)
(* sequence of phases, one per consistency label, strongest label first.   *)
(* The client (mtl/interp.hpp, mtl/remote_interp.hpp) runs the phases one  *)
(* after the other; a phase of a remote label runs in the client's own     *)
(* session at the relay of that label's store                              *)
(* (server/transaction_listener.hpp), a phase of a local label runs in the *)
(* client itself.  Either way mtl/run_phase.hpp's common_interp runs it:   *)
(* on a clone of the variable store, inside one SQL transaction that the   *)
(* first statement opens, again and again after a SerializationFailure     *)
(* when the label cannot abort.                                            *)
(*                                                                         *)
(* A client has one call in flight at a time, so its session is indexed by *)
(* the client.  PostgreSQL is modelled from how the code uses it:          *)
(* snapshots taken by the first statement, row locks, first updater wins,  *)
(* deadlock detection, and the extra failures of SERIALIZABLE.             *)
(***************************************************************************)
EXTENDS Naturals, Sequences, FiniteSets

CONSTANTS
    Clients,        \* clients, each with a connection to every relay
    Objects,        \* rows of a store; every phase's store has its own rows
    NPhases,        \* number of phases of the transaction
    CanAbort,       \* phases whose label has can_abort = true_type
    RunRemotely,    \* phases whose label has run_remotely = true_type
    Serializable,   \* phases whose store runs at SERIALIZABLE
    Program,        \* Program[c][p]: the store statements of c's phase p
    MaxRuns,        \* bound: transactions a client begins
    MayLose,        \* whether connections and relay sessions may be lost
    NoClient,       \* the holder of a row nobody has locked
    NoSnapshot      \* the snapshot of a client with no open SQL transaction

Phases == 1..NPhases

Statements == [op : {"read", "write"}, obj : Objects]

ASSUME NPhasesAssumption == NPhases \in Nat \ {0}
ASSUME LabelAssumption ==
    CanAbort \subseteq Phases /\ RunRemotely \subseteq Phases
        /\ Serializable \subseteq Phases
ASSUME ProgramAssumption ==
    Program \in [Clients -> [Phases -> Seq(Statements)]]
ASSUME MaxRunsAssumption == MaxRuns \in Nat
ASSUME MayLoseAssumption == MayLose \in BOOLEAN
ASSUME NoClientAssumption == NoClient \notin Clients
ASSUME NoSnapshotAssumption == NoSnapshot \notin [Objects -> Nat]

VARIABLES
    pc,         \* what the client thread is doing
    run,        \* transactions the client has begun
    phase,      \* the phase the client has dispatched, or is about to
    outcome,    \* how the client's transaction ended
    env,        \* env[c][p]: the log of values bound by phase p in the client's
                \* variable store, each stamped with the attempt that bound it
    rpc,        \* the call of the phase: in flight, running, backing off, answered
    attempt,    \* which attempt of common_interp_loop is running
    ip,         \* the next statement of the attempt
    relayStore, \* common_interp's variable store s
    clone,      \* the clone the attempt runs on
    snapshot,   \* row versions the open SQL transaction sees
    version,    \* version[p][o]: committed updates of row o in phase p's store
    lock,       \* lock[p][o]: the client whose open transaction updated the row
    commits     \* history: commits[c][p], the attempts that committed phase p in
                \* the client's current transaction

clientVars == <<pc, run, phase, outcome, env>>
sessionVars == <<rpc, attempt, ip, relayStore, clone>>
storeVars == <<snapshot, version, lock>>
vars == <<clientVars, sessionVars, storeVars, commits>>

EmptyLogs == [p \in Phases |-> <<>>]

Init ==
    /\ pc = [c \in Clients |-> "idle"]
    /\ run = [c \in Clients |-> 0]
    /\ phase = [c \in Clients |-> 1]
    /\ outcome = [c \in Clients |-> "none"]
    /\ env = [c \in Clients |-> EmptyLogs]
    /\ rpc = [c \in Clients |-> "none"]
    /\ attempt = [c \in Clients |-> 0]
    /\ ip = [c \in Clients |-> 1]
    /\ relayStore = [c \in Clients |-> EmptyLogs]
    /\ clone = [c \in Clients |-> EmptyLogs]
    /\ snapshot = [c \in Clients |-> NoSnapshot]
    /\ version = [p \in Phases |-> [o \in Objects |-> 0]]
    /\ lock = [p \in Phases |-> [o \in Objects |-> NoClient]]
    /\ commits = [c \in Clients |-> EmptyLogs]

-----------------------------------------------------------------------------
(* The SQL transaction of client c, in the store of the phase it is in.    *)

Code(c) == Program[c][phase[c]]
InTransaction(c) == snapshot[c] # NoSnapshot

\* A statement is being executed: its transaction is open.
AtStatement(c) ==
    rpc[c] = "running" /\ ip[c] \in DOMAIN Code(c) /\ InTransaction(c)

HeldBy(c, p) == {o \in Objects : lock[p][o] = c}

\* Mutant: the rows stay locked.
RollbackKeepsLocks(c) ==
    snapshot' = [snapshot EXCEPT ![c] = NoSnapshot] /\ UNCHANGED <<version, lock>>

\* Mutant: the destructor finds commit_on_delete still set.
RollbackCommits(c) ==
    /\ snapshot' = [snapshot EXCEPT ![c] = NoSnapshot]
    /\ version' = [version EXCEPT ![phase[c]] =
                    [o \in Objects |-> IF lock[phase[c]][o] = c THEN @[o] + 1 ELSE @[o]]]
    /\ lock' = [lock EXCEPT ![phase[c]] =
                    [o \in Objects |-> IF @[o] = c THEN NoClient ELSE @[o]]]

\* Leaving the scope of a PhaseContext that did not commit: ~SQLTransaction
\* rolls back, which frees the rows.
Rollback(c) ==
    /\ snapshot' = [snapshot EXCEPT ![c] = NoSnapshot]
    /\ lock' = [lock EXCEPT ![phase[c]] =
                    [o \in Objects |-> IF @[o] = c THEN NoClient ELSE @[o]]]
    /\ UNCHANGED version

\* store_commit: the updates become the rows' next versions.  A phase that
\* never touched its store has no transaction, and nothing to commit.
StoreCommit(c) ==
    /\ snapshot' = [snapshot EXCEPT ![c] = NoSnapshot]
    /\ version' = [version EXCEPT ![phase[c]] =
                    [o \in Objects |-> IF o \in HeldBy(c, phase[c]) THEN @[o] + 1 ELSE @[o]]]
    /\ lock' = [lock EXCEPT ![phase[c]] =
                    [o \in Objects |-> IF @[o] = c THEN NoClient ELSE @[o]]]

\* An update waits for the transaction that has updated the row.
WaitsFor(c, d) ==
    /\ AtStatement(c)
    /\ Code(c)[ip[c]].op = "write"
    /\ d # c /\ lock[phase[c]][Code(c)[ip[c]].obj] = d

\* c is on a cycle of waits, which PostgreSQL's detector breaks.
Deadlocked(c) ==
    \E S \in SUBSET Clients :
        /\ c \in S
        /\ \A x \in S : (\E y \in S : WaitsFor(x, y)) /\ (\E y \in S : WaitsFor(y, x))

\* SERIALIZABLE may also fail a transaction that overlaps another one.
MayFailToSerialize(c) ==
    /\ phase[c] \in Serializable /\ InTransaction(c)
    /\ \E d \in Clients \ {c} : phase[d] = phase[c] /\ InTransaction(d)

-----------------------------------------------------------------------------
(* The client: begin_interp2, dispatch_to_runner, remote_interp.           *)

\* begin_interp2 builds a fresh variable store and starts with the first phase.
BeginInterp(c) ==
    /\ pc[c] = "idle" /\ run[c] < MaxRuns
    /\ pc' = [pc EXCEPT ![c] = "dispatch"]
    /\ run' = [run EXCEPT ![c] = @ + 1]
    /\ phase' = [phase EXCEPT ![c] = 1]
    /\ outcome' = [outcome EXCEPT ![c] = "none"]
    /\ env' = [env EXCEPT ![c] = EmptyLogs]
    /\ commits' = [commits EXCEPT ![c] = EmptyLogs]
    /\ UNCHANGED <<sessionVars, storeVars>>

\* Mutant: a retry goes on with the clone of the failed attempt.
BeginAttemptKeepsClone(c, s, n) ==
    /\ rpc' = [rpc EXCEPT ![c] = "running"]
    /\ relayStore' = [relayStore EXCEPT ![c] = s]
    /\ clone' = [clone EXCEPT ![c] = IF n = 1 THEN s ELSE @]
    /\ attempt' = [attempt EXCEPT ![c] = n]
    /\ ip' = [ip EXCEPT ![c] = 1]

\* common_interp_loop: a fresh clone of the store, a context with no SQL
\* transaction yet.
BeginAttempt(c, s, n) ==
    /\ rpc' = [rpc EXCEPT ![c] = "running"]
    /\ relayStore' = [relayStore EXCEPT ![c] = s]
    /\ clone' = [clone EXCEPT ![c] = s]
    /\ attempt' = [attempt EXCEPT ![c] = n]
    /\ ip' = [ip EXCEPT ![c] = 1]

\* dispatch_to_runner sends a remote phase to the relay of its label and runs
\* a local one here.
Dispatch(c) ==
    /\ pc[c] = "dispatch"
    /\ pc' = [pc EXCEPT ![c] = "waiting"]
    /\ IF phase[c] \in RunRemotely
       THEN /\ rpc' = [rpc EXCEPT ![c] = "request"]
            /\ UNCHANGED <<attempt, ip, relayStore, clone>>
       ELSE BeginAttempt(c, env[c], 1)
    /\ UNCHANGED <<run, phase, outcome, env, storeVars, commits>>

\* Mutant: the last phase is not recognised as the last.
ReceiveSuccessNoLast(c) ==
    /\ pc[c] = "waiting" /\ rpc[c] = "ok"
    /\ env' = [env EXCEPT ![c][phase[c]] = relayStore[c][phase[c]]]
    /\ phase' = [phase EXCEPT ![c] = @ + 1]
    /\ pc' = [pc EXCEPT ![c] = "dispatch"]
    /\ rpc' = [rpc EXCEPT ![c] = "none"]
    /\ UNCHANGED <<run, outcome, attempt, ip, relayStore, clone, storeVars, commits>>

\* Mutant: the transaction returns one phase early.
ReceiveSuccessSkipsLast(c) ==
    /\ pc[c] = "waiting" /\ rpc[c] = "ok"
    /\ env' = [env EXCEPT ![c][phase[c]] = relayStore[c][phase[c]]]
    /\ IF phase[c] + 1 < NPhases
       THEN /\ phase' = [phase EXCEPT ![c] = @ + 1]
            /\ pc' = [pc EXCEPT ![c] = "dispatch"]
            /\ UNCHANGED outcome
       ELSE /\ outcome' = [outcome EXCEPT ![c] = "committed"]
            /\ pc' = [pc EXCEPT ![c] = "idle"]
            /\ UNCHANGED phase
    /\ rpc' = [rpc EXCEPT ![c] = "none"]
    /\ UNCHANGED <<run, attempt, ip, relayStore, clone, storeVars, commits>>

\* remote_interp on a positive answer (or common_interp returning): take the
\* values the phase provides, then run the next phase or return.
ReceiveSuccess(c) ==
    /\ pc[c] = "waiting" /\ rpc[c] = "ok"
    /\ env' = [env EXCEPT ![c][phase[c]] = relayStore[c][phase[c]]]
    /\ IF phase[c] < NPhases
       THEN /\ phase' = [phase EXCEPT ![c] = @ + 1]
            /\ pc' = [pc EXCEPT ![c] = "dispatch"]
            /\ UNCHANGED outcome
       ELSE /\ outcome' = [outcome EXCEPT ![c] = "committed"]
            /\ pc' = [pc EXCEPT ![c] = "idle"]
            /\ UNCHANGED phase
    /\ rpc' = [rpc EXCEPT ![c] = "none"]
    /\ UNCHANGED <<run, attempt, ip, relayStore, clone, storeVars, commits>>

\* Mutant: the client goes on with the next phase after a negative answer.
ReceiveFailureGoesOn(c) ==
    /\ pc[c] = "waiting" /\ rpc[c] = "fail" /\ phase[c] < NPhases
    /\ phase' = [phase EXCEPT ![c] = @ + 1]
    /\ pc' = [pc EXCEPT ![c] = "dispatch"]
    /\ rpc' = [rpc EXCEPT ![c] = "none"]
    /\ UNCHANGED <<run, outcome, env, attempt, ip, relayStore, clone, storeVars, commits>>

\* remote_interp on a negative answer throws SerializationFailure out of the
\* transaction: the remaining phases are never dispatched.
ReceiveFailure(c) ==
    /\ pc[c] = "waiting" /\ rpc[c] = "fail"
    /\ outcome' = [outcome EXCEPT ![c] = "aborted"]
    /\ pc' = [pc EXCEPT ![c] = "idle"]
    /\ rpc' = [rpc EXCEPT ![c] = "none"]
    /\ UNCHANGED <<run, phase, env, attempt, ip, relayStore, clone, storeVars, commits>>

-----------------------------------------------------------------------------
(* The session: the relay's run_phase around common_interp.                *)

\* The relay reads the request: the values the phase requires become its store.
ReceiveRequest(c) ==
    /\ rpc[c] = "request"
    /\ BeginAttempt(c, env[c], 1)
    /\ UNCHANGED <<clientVars, storeVars, commits>>

\* store_context begins the SQL transaction when the phase first needs its
\* store; the snapshot is the first statement's, taken before it waits for a row.
OpenTransaction(c) ==
    /\ rpc[c] = "running" /\ ip[c] \in DOMAIN Code(c) /\ ~InTransaction(c)
    /\ snapshot' = [snapshot EXCEPT ![c] = version[phase[c]]]
    /\ UNCHANGED <<clientVars, sessionVars, version, lock, commits>>

\* Mutant: an update does not look at the row's version.
RunStatementIgnoresVersion(c) ==
    /\ AtStatement(c)
    /\ LET st == Code(c)[ip[c]] IN
       /\ st.op = "write" => lock[phase[c]][st.obj] \in {c, NoClient}
       /\ lock' = IF st.op = "write"
                  THEN [lock EXCEPT ![phase[c]][st.obj] = c] ELSE lock
    /\ clone' = [clone EXCEPT ![c][phase[c]] = Append(@, attempt[c])]
    /\ ip' = [ip EXCEPT ![c] = @ + 1]
    /\ UNCHANGED <<clientVars, rpc, attempt, relayStore, snapshot, version, commits>>

\* A statement that succeeds binds its result in the clone.  An update needs
\* the row's lock and the row unchanged since the snapshot.
RunStatement(c) ==
    /\ AtStatement(c)
    /\ LET st == Code(c)[ip[c]] IN
       /\ st.op = "write" =>
            /\ lock[phase[c]][st.obj] \in {c, NoClient}
            /\ version[phase[c]][st.obj] = snapshot[c][st.obj]
       /\ lock' = IF st.op = "write"
                  THEN [lock EXCEPT ![phase[c]][st.obj] = c] ELSE lock
    /\ clone' = [clone EXCEPT ![c][phase[c]] = Append(@, attempt[c])]
    /\ ip' = [ip EXCEPT ![c] = @ + 1]
    /\ UNCHANGED <<clientVars, rpc, attempt, relayStore, snapshot, version, commits>>

\* Mutant: every label gives up.
SerializationFailureGivesUp(c) ==
    /\ Rollback(c)
    /\ rpc' = [rpc EXCEPT ![c] = "fail"]
    /\ UNCHANGED <<clientVars, attempt, ip, relayStore, clone, commits>>

\* The SerializationFailure that prepared/exec make of "could not serialize
\* access" reaches common_interp, which gives up only if the label can abort.
SerializationFailure(c) ==
    /\ Rollback(c)
    /\ rpc' = [rpc EXCEPT ![c] = IF phase[c] \in CanAbort THEN "fail" ELSE "backoff"]
    /\ UNCHANGED <<clientVars, attempt, ip, relayStore, clone, commits>>

\* A statement PostgreSQL cannot serialize: the row was updated since the
\* snapshot, or SERIALIZABLE found a dangerous overlap.
StatementConflict(c) ==
    /\ AtStatement(c)
    /\ LET st == Code(c)[ip[c]] IN
       \/ /\ st.op = "write" /\ lock[phase[c]][st.obj] \in {c, NoClient}
          /\ version[phase[c]][st.obj] # snapshot[c][st.obj]
       \/ MayFailToSerialize(c)
    /\ SerializationFailure(c)

\* Any other exception passes common_interp by and run_phase's catch turns it
\* into a negative answer, whatever the label.
OtherException(c) ==
    /\ Rollback(c)
    /\ rpc' = [rpc EXCEPT ![c] = "fail"]
    /\ UNCHANGED <<clientVars, attempt, ip, relayStore, clone, commits>>

\* "deadlock detected" is not "could not serialize access".
StatementDeadlock(c) ==
    /\ Deadlocked(c)
    /\ OtherException(c)

\* store_commit is not wrapped by default_sqltransaction_catch: what COMMIT
\* throws is never a SerializationFailure.
CommitError(c) ==
    /\ rpc[c] = "running" /\ ip[c] \notin DOMAIN Code(c)
    /\ MayFailToSerialize(c)
    /\ OtherException(c)

\* commit_phase: commit the store, then old.take(s).
CommitPhase(c) ==
    /\ rpc[c] = "running" /\ ip[c] \notin DOMAIN Code(c)
    /\ StoreCommit(c)
    /\ relayStore' = [relayStore EXCEPT ![c] = clone[c]]
    /\ commits' = [commits EXCEPT ![c][phase[c]] = Append(@, attempt[c])]
    /\ rpc' = [rpc EXCEPT ![c] = "ok"]
    /\ UNCHANGED <<clientVars, attempt, ip, clone>>

\* The back-off is over: another attempt on another clone.
Retry(c) ==
    /\ rpc[c] = "backoff"
    /\ BeginAttempt(c, relayStore[c], attempt[c] + 1)
    /\ UNCHANGED <<clientVars, storeVars, commits>>

-----------------------------------------------------------------------------
(* Lost connections (only a remote phase has one).  The exception that the *)
(* network library raises is not a SerializationFailure; the client that   *)
(* meets it is not used again.                                             *)

\* The client loses the connection; the session may be alive and run on.
LoseConnection(c) ==
    /\ MayLose /\ pc[c] = "waiting" /\ phase[c] \in RunRemotely
    /\ pc' = [pc EXCEPT ![c] = "lost"]
    /\ UNCHANGED <<run, phase, outcome, env, sessionVars, storeVars, commits>>

\* The relay's session ends before it has answered: its transaction rolls back.
LoseSession(c) ==
    /\ MayLose /\ pc[c] \in {"waiting", "lost"} /\ phase[c] \in RunRemotely
    /\ rpc[c] # "none"
    /\ Rollback(c)
    /\ rpc' = [rpc EXCEPT ![c] = "none"]
    /\ pc' = [pc EXCEPT ![c] = "lost"]
    /\ UNCHANGED <<run, phase, outcome, env, attempt, ip, relayStore, clone, commits>>

-----------------------------------------------------------------------------

ClientStep(c) ==
    \/ BeginInterp(c) \/ Dispatch(c) \/ ReceiveSuccess(c) \/ ReceiveFailure(c)

SessionStep(c) ==
    \/ ReceiveRequest(c) \/ OpenTransaction(c) \/ RunStatement(c)
    \/ StatementConflict(c) \/ StatementDeadlock(c) \/ CommitError(c) \/ CommitPhase(c) \/ Retry(c)

Loss(c) == LoseConnection(c) \/ LoseSession(c)

Next == \E c \in Clients : ClientStep(c) \/ SessionStep(c) \/ Loss(c)

Spec == Init /\ [][Next]_vars

\* Threads are scheduled, sleeps end, and PostgreSQL answers.
Fairness == \A c \in Clients : WF_vars(ClientStep(c)) /\ WF_vars(SessionStep(c))

FairSpec == Spec /\ Fairness

-----------------------------------------------------------------------------
(* Properties.                                                             *)

Logs == [Phases -> Seq(Nat)]

\* Every variable of the client, its session and the stores has its type.
TypeOK ==
    /\ pc \in [Clients -> {"idle", "dispatch", "waiting", "lost"}]
    /\ run \in [Clients -> Nat]
    /\ phase \in [Clients -> Phases]
    /\ outcome \in [Clients -> {"none", "committed", "aborted"}]
    /\ env \in [Clients -> Logs]
    /\ rpc \in [Clients -> {"none", "request", "running", "backoff", "ok", "fail"}]
    /\ attempt \in [Clients -> Nat]
    /\ ip \in [Clients -> Nat \ {0}]
    /\ relayStore \in [Clients -> Logs]
    /\ clone \in [Clients -> Logs]
    /\ snapshot \in [Clients -> [Objects -> Nat] \cup {NoSnapshot}]
    /\ version \in [Phases -> [Objects -> Nat]]
    /\ lock \in [Phases -> [Objects -> Clients \cup {NoClient}]]
    /\ commits \in [Clients -> Logs]

\* However often common_interp retries and whatever is lost, the phases of one
\* transaction commit at most once each and in order: no causal phase commits
\* before, or without, the strong phase it follows.
CommitsArePrefix ==
    \A c \in Clients, p \in Phases :
        /\ Len(commits[c][p]) <= 1
        /\ commits[c][p] # <<>> => \A q \in Phases : q < p => commits[c][q] # <<>>

\* The client's variables never hold what a rolled-back attempt bound: a
\* phase's log is empty or is, statement for statement, what the attempt that
\* committed bound (common_interp_loop runs on a clone, commit_phase takes it).
EnvFromCommittedAttempt ==
    \A c \in Clients, p \in Phases :
        env[c][p] # <<>> =>
            /\ commits[c][p] # <<>>
            /\ Len(env[c][p]) = Len(Program[c][p])
            /\ \A i \in DOMAIN env[c][p] : env[c][p][i] = commits[c][p][1]

\* A transaction that returns to its caller has committed every phase, and the
\* caller's store holds every value the phases bound.
ReturnMeansCommitted ==
    \A c \in Clients : outcome[c] = "committed" =>
        \A p \in Phases :
            /\ commits[c][p] # <<>>
            /\ Len(env[c][p]) = Len(Program[c][p])

\* Whatever way an attempt ends, no SQL transaction and no row lock of it
\* survives (the PhaseContext goes out of scope): rows are locked only by the
\* running attempt of the client's current phase.
NoLeftoverLocks ==
    \A c \in Clients :
        /\ InTransaction(c) => rpc[c] = "running"
        /\ \A p \in Phases, o \in Objects :
               lock[p][o] = c => InTransaction(c) /\ p = phase[c]

\* No lost update: the row an open transaction has updated is still the row its
\* snapshot shows, so what it commits was computed from the last version.
NoLostUpdate ==
    \A c \in Clients, p \in Phases, o \in Objects :
        lock[p][o] = c => snapshot[c][o] = version[p][o]

Writes(c, p) == \E i \in DOMAIN Program[c][p] : Program[c][p][i].op = "write"

\* Write atomicity over independent stores: a transaction whose caller sees
\* SerializationFailure has changed no store.
WriteAtomicity ==
    \A c \in Clients : outcome[c] = "aborted" =>
        \A p \in Phases : commits[c][p] # <<>> => ~Writes(c, p)

\* Rows only move forward, and only by the commit of a running attempt that
\* holds them: neither a retry nor a lost session touches a row's version.
OnlyCommitsChangeRows ==
    [][\A p \in Phases, o \in Objects :
           version'[p][o] # version[p][o] =>
               \E c \in Clients :
                   /\ lock[p][o] = c /\ lock'[p][o] = NoClient
                   /\ version'[p][o] = version[p][o] + 1
                   /\ Len(commits'[c][p]) = Len(commits[c][p]) + 1]_vars

\* Every dispatched phase is answered: neither the back-off loop of a label that
\* cannot abort nor waiting for a row keeps a client forever.
CallReturns == \A c \in Clients : pc[c] = "waiting" ~> pc[c] # "waiting"

\* Once a phase that writes has committed, the whole transaction commits.
CommittedWritesComplete ==
    \A c \in Clients :
        (\E p \in Phases : commits[c][p] # <<>> /\ Writes(c, p))
            ~> outcome[c] = "committed"

-----------------------------------------------------------------------------
(* What the execution implements.                                          *)

Abstract == INSTANCE AtomicPhases WITH
    begun <- run,
    done <- [c \in Clients |-> Cardinality({p \in Phases : commits[c][p] # <<>>})],
    result <- outcome

\* Phases, sessions, SQL transactions and retries together behave as one
\* transaction that takes effect phase by phase, gives up only where a label
\* may abort, and ends.
ImplementsAtomicPhases == Abstract!Spec
=============================================================================
