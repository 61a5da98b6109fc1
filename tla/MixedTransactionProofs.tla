----------------------- MODULE MixedTransactionProofs -----------------------
(***************************************************************************)
(* The safety of MixedTransaction for every number of clients, rows,       *)
(* phases and statements, with losses, conflicts and deadlocks.            *)
(***************************************************************************)
EXTENDS MixedTransaction, TLAPS

Calling(c) == rpc[c] \in {"request", "running", "backoff", "fail"}

\* How far the client is, against what the stores have committed for it.
CommitStateOf(c) ==
    /\ pc[c] \in {"idle", "dispatch"} => rpc[c] = "none"
    /\ pc[c] # "idle" =>
        /\ outcome[c] = "none"
        /\ \A p \in Phases : p < phase[c] => commits[c][p] # <<>>
        /\ \A p \in Phases : p > phase[c] => commits[c][p] = <<>>
        /\ pc[c] = "dispatch" \/ Calling(c) => commits[c][phase[c]] = <<>>
    /\ rpc[c] = "ok" => commits[c][phase[c]] = <<attempt[c]>>
    /\ \A p \in Phases : Len(commits[c][p]) <= 1

CommitState == \A c \in Clients : CommitStateOf(c)

\* What the client's store, common_interp's store and the attempt's clone hold.
Stamped(log, n, a) == Len(log) = n /\ \A i \in 1..n : log[i] = a

EnvStateOf(c) ==
    /\ pc[c] # "idle" =>
        \A p \in Phases :
            IF p < phase[c] THEN Len(env[c][p]) = Len(Program[c][p])
                            ELSE env[c][p] = <<>>
    /\ rpc[c] \in {"running", "backoff"} => relayStore[c] = env[c]
    /\ rpc[c] = "running" =>
        /\ ip[c] <= Len(Code(c)) + 1
        /\ Stamped(clone[c][phase[c]], ip[c] - 1, attempt[c])
    /\ rpc[c] = "ok" => Stamped(relayStore[c][phase[c]], Len(Code(c)), attempt[c])

EnvState == \A c \in Clients : EnvStateOf(c)

StoreState == NoLeftoverLocks /\ NoLostUpdate

IndInv ==
    /\ TypeOK /\ CommitState /\ EnvState /\ StoreState
    /\ CommitsArePrefix /\ EnvFromCommittedAttempt /\ ReturnMeansCommitted

-----------------------------------------------------------------------------
(* Types.                                                                  *)

\* A fresh variable store is well typed, and there is a first phase.
LEMMA EmptyLogsType == EmptyLogs \in Logs /\ 1 \in Phases
  BY NPhasesAssumption DEF EmptyLogs, Logs, Phases

\* One more value in the log of phase p.
LEMMA ExtendLogsType ==
    ASSUME NEW l \in Logs, NEW p \in Phases, NEW n \in Nat
    PROVE  Append(l[p], n) \in Seq(Nat)
  BY DEF Logs

\* The code of a client's phase is a sequence of store statements.
LEMMA CodeType ==
    ASSUME TypeOK, NEW c \in Clients
    PROVE  /\ Code(c) \in Seq(Statements)
           /\ DOMAIN Code(c) = 1..Len(Code(c))
           /\ Len(Code(c)) \in Nat
  BY ProgramAssumption DEF TypeOK, Code

\* common_interp_loop's fresh attempt keeps the session variables well typed.
LEMMA BeginAttemptType ==
    ASSUME TypeOK, NEW c \in Clients, NEW s \in Logs, NEW n \in Nat,
           BeginAttempt(c, s, n)
    PROVE  /\ rpc' \in [Clients -> {"none", "request", "running", "backoff", "ok", "fail"}]
           /\ attempt' \in [Clients -> Nat]
           /\ ip' \in [Clients -> Nat \ {0}]
           /\ relayStore' \in [Clients -> Logs]
           /\ clone' \in [Clients -> Logs]
  BY DEF TypeOK, BeginAttempt

\* ~SQLTransaction's rollback keeps the store variables well typed.
LEMMA RollbackType ==
    ASSUME TypeOK, NEW c \in Clients, Rollback(c)
    PROVE  /\ snapshot' \in [Clients -> [Objects -> Nat] \cup {NoSnapshot}]
           /\ version' \in [Phases -> [Objects -> Nat]]
           /\ lock' \in [Phases -> [Objects -> Clients \cup {NoClient}]]
  BY DEF TypeOK, Rollback

\* The type invariant is inductive: one step per action.
LEMMA TypeStep ==
    ASSUME TypeOK, [Next]_vars
    PROVE  TypeOK'
  <1> USE DEF clientVars, sessionVars, storeVars
  <1>1. CASE UNCHANGED vars
    BY <1>1 DEF TypeOK, vars
  <1>2. ASSUME NEW c \in Clients, BeginInterp(c) PROVE TypeOK'
    BY <1>2, EmptyLogsType DEF TypeOK, BeginInterp
  <1>3. ASSUME NEW c \in Clients, Dispatch(c) PROVE TypeOK'
    <2>1. CASE phase[c] \in RunRemotely
      BY <1>3, <2>1 DEF TypeOK, Dispatch
    <2>2. CASE phase[c] \notin RunRemotely
      <3>1. env[c] \in Logs /\ BeginAttempt(c, env[c], 1)
        BY <1>3, <2>2 DEF TypeOK, Dispatch
      <3>2. QED
        BY <1>3, <2>2, <3>1, BeginAttemptType DEF TypeOK, Dispatch
    <2>3. QED BY <2>1, <2>2
  <1>4. ASSUME NEW c \in Clients, ReceiveSuccess(c) PROVE TypeOK'
    <2>1. env' \in [Clients -> Logs]
      BY <1>4 DEF TypeOK, ReceiveSuccess, Logs
    <2>2. phase' \in [Clients -> Phases]
      <3>1. phase[c] < NPhases => phase[c] + 1 \in Phases
        BY NPhasesAssumption DEF TypeOK, Phases
      <3>2. QED BY <1>4, <3>1 DEF TypeOK, ReceiveSuccess
    <2>3. QED
      BY <1>4, <2>1, <2>2 DEF TypeOK, ReceiveSuccess
  <1>5. ASSUME NEW c \in Clients, ReceiveFailure(c) PROVE TypeOK'
    BY <1>5 DEF TypeOK, ReceiveFailure
  <1>6. ASSUME NEW c \in Clients, ReceiveRequest(c) PROVE TypeOK'
    <2>1. env[c] \in Logs /\ BeginAttempt(c, env[c], 1)
      BY <1>6 DEF TypeOK, ReceiveRequest
    <2>2. QED
      BY <1>6, <2>1, BeginAttemptType DEF TypeOK, ReceiveRequest
  <1>7. ASSUME NEW c \in Clients, OpenTransaction(c) PROVE TypeOK'
    BY <1>7 DEF TypeOK, OpenTransaction
  <1>8. ASSUME NEW c \in Clients, RunStatement(c) PROVE TypeOK'
    <2>1. Code(c)[ip[c]] \in Statements
      BY <1>8, CodeType DEF RunStatement, AtStatement
    <2>2. lock' \in [Phases -> [Objects -> Clients \cup {NoClient}]]
      BY <1>8, <2>1 DEF TypeOK, RunStatement, Statements
    <2>3. clone' \in [Clients -> Logs]
      <3>1. Append(clone[c][phase[c]], attempt[c]) \in Seq(Nat)
        BY ExtendLogsType DEF TypeOK
      <3>2. QED BY <1>8, <3>1 DEF TypeOK, RunStatement, Logs
    <2>4. QED
      BY <1>8, <2>2, <2>3 DEF TypeOK, RunStatement
  <1>9. ASSUME NEW c \in Clients, StatementConflict(c) PROVE TypeOK'
    BY <1>9, RollbackType DEF TypeOK, StatementConflict, SerializationFailure
  <1>10. ASSUME NEW c \in Clients, StatementDeadlock(c) \/ CommitError(c) PROVE TypeOK'
    BY <1>10, RollbackType DEF TypeOK, StatementDeadlock, CommitError, OtherException
  <1>11. ASSUME NEW c \in Clients, CommitPhase(c) PROVE TypeOK'
    <2>1. /\ version' \in [Phases -> [Objects -> Nat]]
          /\ lock' \in [Phases -> [Objects -> Clients \cup {NoClient}]]
      BY <1>11 DEF TypeOK, CommitPhase, StoreCommit
    <2>2. commits' \in [Clients -> Logs]
      <3>1. Append(commits[c][phase[c]], attempt[c]) \in Seq(Nat)
        BY ExtendLogsType DEF TypeOK
      <3>2. QED BY <1>11, <3>1 DEF TypeOK, CommitPhase, Logs
    <2>3. QED
      BY <1>11, <2>1, <2>2 DEF TypeOK, CommitPhase, StoreCommit
  <1>12. ASSUME NEW c \in Clients, Retry(c) PROVE TypeOK'
    <2>1. relayStore[c] \in Logs /\ attempt[c] + 1 \in Nat
          /\ BeginAttempt(c, relayStore[c], attempt[c] + 1)
      BY <1>12 DEF TypeOK, Retry
    <2>2. QED
      BY <1>12, <2>1, BeginAttemptType DEF TypeOK, Retry
  <1>13. ASSUME NEW c \in Clients, LoseConnection(c) PROVE TypeOK'
    BY <1>13 DEF TypeOK, LoseConnection
  <1>14. ASSUME NEW c \in Clients, LoseSession(c) PROVE TypeOK'
    BY <1>14, RollbackType DEF TypeOK, LoseSession
  <1>15. QED
    BY <1>1, <1>2, <1>3, <1>4, <1>5, <1>6, <1>7, <1>8, <1>9, <1>10, <1>11,
       <1>12, <1>13, <1>14
    DEF Next, ClientStep, SessionStep, Loss

\* The initial state is well typed.
LEMMA TypeInit == Init => TypeOK
  BY EmptyLogsType DEF Init, TypeOK

\* Every reachable state of the client, session and store variables is well
\* typed, for every program, number of clients and number of phases.
THEOREM TypeCorrect == Spec => []TypeOK
  BY TypeInit, TypeStep, PTL DEF Spec

-----------------------------------------------------------------------------
(* SQL transactions and row locks.                                         *)

\* A rollback leaves the client no lock and no transaction, and gives no other
\* client a lock it did not have.
LEMMA RollbackFrees ==
    ASSUME TypeOK, StoreState, NEW c \in Clients, Rollback(c)
    PROVE  /\ version' = version
           /\ \A d \in Clients \ {c} : snapshot'[d] = snapshot[d]
           /\ snapshot'[c] = NoSnapshot
           /\ \A p \in Phases, o \in Objects : lock'[p][o] # c
           /\ \A p \in Phases, o \in Objects, d \in Clients :
                  lock'[p][o] = d => lock[p][o] = d
  BY NoClientAssumption
  DEF TypeOK, StoreState, NoLeftoverLocks, Rollback

\* store_commit leaves the client no lock and no transaction.
LEMMA StoreCommitFrees ==
    ASSUME TypeOK, StoreState, NEW c \in Clients, StoreCommit(c)
    PROVE  /\ \A d \in Clients \ {c} : snapshot'[d] = snapshot[d]
           /\ snapshot'[c] = NoSnapshot
           /\ \A p \in Phases, o \in Objects : lock'[p][o] # c
           /\ \A p \in Phases, o \in Objects, d \in Clients :
                  lock'[p][o] = d => lock[p][o] = d /\ version'[p][o] = version[p][o]
  BY NoClientAssumption
  DEF TypeOK, StoreState, NoLeftoverLocks, StoreCommit, HeldBy

\* No transaction or lock outlives its attempt, and no update is lost: kept by
\* every action.
LEMMA StoreStep ==
    ASSUME TypeOK, CommitState, StoreState, [Next]_vars
    PROVE  StoreState'
  <1> USE DEF clientVars, sessionVars, storeVars
  <1>a. TypeOK'
    BY TypeStep
  <1>1. CASE UNCHANGED vars
    BY <1>1 DEF vars, StoreState, NoLeftoverLocks, NoLostUpdate, InTransaction
  <1>2. ASSUME NEW c \in Clients, BeginInterp(c) PROVE StoreState'
    <2>1. ~InTransaction(c)
      BY <1>2 DEF BeginInterp, CommitState, CommitStateOf, StoreState, NoLeftoverLocks
    <2>2. QED
      BY <1>2, <2>1
      DEF TypeOK, BeginInterp, StoreState, NoLeftoverLocks, NoLostUpdate, InTransaction
  <1>3. ASSUME NEW c \in Clients, Dispatch(c) PROVE StoreState'
    <2>1. ~InTransaction(c)
      BY <1>3 DEF Dispatch, CommitState, CommitStateOf, StoreState, NoLeftoverLocks
    <2>2. \A d \in Clients : InTransaction(d) => rpc'[d] = "running"
      BY <1>3, <2>1
      DEF TypeOK, Dispatch, BeginAttempt, StoreState, NoLeftoverLocks
    <2>3. QED
      BY <1>3, <2>2
      DEF TypeOK, Dispatch, StoreState, NoLeftoverLocks, NoLostUpdate, InTransaction
  <1>4. ASSUME NEW c \in Clients, ReceiveSuccess(c) \/ ReceiveFailure(c) PROVE StoreState'
    <2>1. ~InTransaction(c)
      BY <1>4 DEF ReceiveSuccess, ReceiveFailure, StoreState, NoLeftoverLocks
    <2>2. QED
      BY <1>4, <2>1
      DEF TypeOK, ReceiveSuccess, ReceiveFailure, StoreState, NoLeftoverLocks,
          NoLostUpdate, InTransaction
  <1>5. ASSUME NEW c \in Clients, ReceiveRequest(c) \/ Retry(c) PROVE StoreState'
    BY <1>5
    DEF TypeOK, ReceiveRequest, Retry, BeginAttempt, StoreState, NoLeftoverLocks,
        NoLostUpdate, InTransaction
  <1>6. ASSUME NEW c \in Clients, OpenTransaction(c) PROVE StoreState'
    <2>1. \A d \in Clients : d # c => snapshot'[d] = snapshot[d]
      BY <1>6 DEF TypeOK, OpenTransaction
    <2>2. \A p \in Phases, o \in Objects : lock[p][o] # c
      BY <1>6 DEF OpenTransaction, StoreState, NoLeftoverLocks
    <2>3. QED
      BY <1>6, <2>1, <2>2
      DEF OpenTransaction, StoreState, NoLeftoverLocks, NoLostUpdate, InTransaction
  <1>7. ASSUME NEW c \in Clients, RunStatement(c) PROVE StoreState'
    <2> DEFINE st == Code(c)[ip[c]]
    <2>1. st \in Statements
      BY <1>7, CodeType DEF RunStatement, AtStatement
    <2>2. \A p \in Phases, o \in Objects :
              \/ lock'[p][o] = lock[p][o]
              \/ /\ p = phase[c] /\ o = st.obj /\ lock'[p][o] = c
                 /\ version[p][o] = snapshot[c][o]
      BY <1>7, <2>1 DEF TypeOK, RunStatement, Statements
    <2>3. rpc' = rpc /\ snapshot' = snapshot /\ version' = version /\ phase' = phase
          /\ InTransaction(c) /\ rpc[c] = "running"
      BY <1>7 DEF RunStatement, AtStatement
    <2>4. QED
      BY <2>2, <2>3 DEF StoreState, NoLeftoverLocks, NoLostUpdate, InTransaction
  <1>8. ASSUME NEW c \in Clients,
               StatementConflict(c) \/ StatementDeadlock(c) \/ CommitError(c) \/ LoseSession(c)
        PROVE  StoreState'
    <2>1. Rollback(c) /\ phase' = phase /\ \A d \in Clients \ {c} : rpc'[d] = rpc[d]
      BY <1>8
      DEF TypeOK, StatementConflict, StatementDeadlock, CommitError, LoseSession,
          SerializationFailure, OtherException
    <2>2. QED
      BY <2>1, RollbackFrees
      DEF StoreState, NoLeftoverLocks, NoLostUpdate, InTransaction
  <1>9. ASSUME NEW c \in Clients, CommitPhase(c) PROVE StoreState'
    <2>1. StoreCommit(c) /\ phase' = phase /\ \A d \in Clients \ {c} : rpc'[d] = rpc[d]
      BY <1>9 DEF TypeOK, CommitPhase
    <2>2. QED
      BY <2>1, StoreCommitFrees
      DEF StoreState, NoLeftoverLocks, NoLostUpdate, InTransaction
  <1>10. ASSUME NEW c \in Clients, LoseConnection(c) PROVE StoreState'
    BY <1>10 DEF LoseConnection, StoreState, NoLeftoverLocks, NoLostUpdate, InTransaction
  <1>11. QED
    BY <1>1, <1>2, <1>3, <1>4, <1>5, <1>6, <1>7, <1>8, <1>9, <1>10
    DEF Next, ClientStep, SessionStep, Loss

-----------------------------------------------------------------------------
(* Commits: in order, at most once.                                        *)

\* The answer to a call of c, or the loss of its session, commits nothing.
LEMMA CommitsKept ==
    ASSUME TypeOK, CommitState, CommitsArePrefix, NEW c \in Clients,
           \/ ReceiveFailure(c) \/ LoseConnection(c) \/ LoseSession(c)
           \/ StatementConflict(c) \/ StatementDeadlock(c) \/ CommitError(c)
           \/ ReceiveRequest(c) \/ OpenTransaction(c) \/ RunStatement(c) \/ Retry(c)
    PROVE  CommitState' /\ CommitsArePrefix'
  <1> USE DEF clientVars, sessionVars, storeVars
  <1>1. commits' = commits /\ phase' = phase
        /\ \A d \in Clients \ {c} : /\ pc'[d] = pc[d] /\ rpc'[d] = rpc[d]
                                    /\ outcome'[d] = outcome[d] /\ attempt'[d] = attempt[d]
    BY DEF TypeOK, ReceiveFailure, LoseConnection, LoseSession, StatementConflict,
           StatementDeadlock, CommitError, ReceiveRequest, OpenTransaction, RunStatement,
           Retry, SerializationFailure, OtherException, BeginAttempt
  <1>2. CommitsArePrefix'
    BY <1>1 DEF CommitsArePrefix
  <1>3. /\ pc'[c] \in {"idle", "dispatch"} => rpc'[c] = "none"
        /\ pc'[c] # "idle" => pc[c] # "idle" /\ outcome'[c] = outcome[c]
        /\ pc'[c] = "dispatch" => pc[c] = "dispatch"
        /\ rpc'[c] \in {"request", "running", "backoff", "fail"} => Calling(c)
        /\ rpc'[c] = "ok" => rpc[c] = "ok" /\ attempt'[c] = attempt[c]
    <2>1. CommitStateOf(c)
      BY DEF CommitState
    <2>2. CASE ReceiveFailure(c) \/ LoseConnection(c)
      BY <2>1, <2>2 DEF TypeOK, CommitStateOf, Calling, ReceiveFailure, LoseConnection
    <2>3. CASE LoseSession(c)
      BY <2>1, <2>3 DEF TypeOK, CommitStateOf, Calling, LoseSession
    <2>4. CASE StatementConflict(c) \/ StatementDeadlock(c) \/ CommitError(c)
      <3>1. rpc[c] = "running"
        BY <2>4 DEF StatementConflict, StatementDeadlock, CommitError, AtStatement,
                    WaitsFor, Deadlocked
      <3>2. SerializationFailure(c) \/ OtherException(c)
        BY <2>4 DEF StatementConflict, StatementDeadlock, CommitError
      <3>3. /\ pc' = pc /\ outcome' = outcome /\ rpc'[c] \in {"fail", "backoff"}
        BY <3>2 DEF TypeOK, SerializationFailure, OtherException
      <3>4. QED
        BY <2>1, <3>1, <3>3 DEF CommitStateOf, Calling
    <2>5. CASE ReceiveRequest(c) \/ Retry(c)
      BY <2>1, <2>5 DEF TypeOK, CommitStateOf, Calling, ReceiveRequest, Retry, BeginAttempt
    <2>6. CASE OpenTransaction(c) \/ RunStatement(c)
      BY <2>1, <2>6 DEF TypeOK, CommitStateOf, Calling, OpenTransaction, RunStatement, AtStatement
    <2>7. QED BY <2>2, <2>3, <2>4, <2>5, <2>6
  <1>4. CommitState'
    <2> SUFFICES ASSUME NEW d \in Clients PROVE CommitStateOf(d)'
      BY DEF CommitState
    <2>1. CommitStateOf(d)
      BY DEF CommitState
    <2>2. CASE d = c
      BY <1>1, <1>3, <2>1, <2>2 DEF CommitStateOf, Calling
    <2>3. CASE d # c
      BY <1>1, <2>1, <2>3 DEF CommitStateOf, Calling
    <2>4. QED BY <2>2, <2>3
  <1>5. QED BY <1>2, <1>4

\* Commits stay in order: every action keeps the relation of a client's commits
\* to the phase it is at and to the answer of its call.
LEMMA CommitStep ==
    ASSUME TypeOK, CommitState, CommitsArePrefix, [Next]_vars
    PROVE  CommitState' /\ CommitsArePrefix'
  <1> USE DEF clientVars, sessionVars, storeVars
  <1>1. CASE UNCHANGED vars
    BY <1>1 DEF vars, CommitState, CommitStateOf, CommitsArePrefix, Calling
  <1>2. ASSUME NEW c \in Clients, BeginInterp(c)
        PROVE  CommitState' /\ CommitsArePrefix'
    <2>1. \A p \in Phases : commits'[c][p] = <<>> /\ ~(p < phase'[c])
      BY <1>2 DEF TypeOK, BeginInterp, EmptyLogs, Phases
    <2>2. QED
      BY <1>2, <2>1, EmptyLogsType
      DEF TypeOK, BeginInterp, CommitState, CommitStateOf, CommitsArePrefix, Calling
  <1>3. ASSUME NEW c \in Clients, Dispatch(c)
        PROVE  CommitState' /\ CommitsArePrefix'
    <2>1. /\ rpc'[c] \in {"request", "running"} /\ rpc[c] = "none"
          /\ \A d \in Clients \ {c} : rpc'[d] = rpc[d] /\ attempt'[d] = attempt[d]
      BY <1>3 DEF TypeOK, Dispatch, BeginAttempt, CommitState, CommitStateOf
    <2>2. /\ phase' = phase /\ commits' = commits /\ outcome' = outcome
          /\ pc[c] = "dispatch" /\ pc'[c] = "waiting" /\ \A d \in Clients \ {c} : pc'[d] = pc[d]
      BY <1>3 DEF TypeOK, Dispatch
    <2>3. CommitStateOf(c)'
      BY <2>1, <2>2 DEF CommitState, CommitStateOf, Calling
    <2>4. ASSUME NEW d \in Clients \ {c} PROVE CommitStateOf(d)'
      BY <2>1, <2>2, <2>4 DEF CommitState, CommitStateOf, Calling
    <2>5. CommitsArePrefix'
      BY <2>2 DEF CommitsArePrefix
    <2>6. QED
      BY <2>3, <2>4, <2>5 DEF CommitState
  <1>4. ASSUME NEW c \in Clients, ReceiveSuccess(c)
        PROVE  CommitState' /\ CommitsArePrefix'
    <2>1. commits[c][phase[c]] # <<>> /\ CommitStateOf(c)
      <3>1. CommitStateOf(c) /\ rpc[c] = "ok"
        BY <1>4 DEF ReceiveSuccess, CommitState
      <3>2. commits[c][phase[c]] = <<attempt[c]>>
        BY <3>1 DEF CommitStateOf
      <3>3. QED
        BY <3>1, <3>2
    <2>2. CASE phase[c] < NPhases
      <3>1. phase'[c] = phase[c] + 1 /\ phase'[c] \in Phases
        BY <1>4, <2>2, NPhasesAssumption DEF TypeOK, ReceiveSuccess, Phases
      <3>2. ASSUME NEW p \in Phases
            PROVE  /\ p < phase'[c] => commits[c][p] # <<>>
                   /\ p >= phase'[c] => commits[c][p] = <<>>
        <4>1. p \in Nat /\ phase[c] \in Nat
          BY NPhasesAssumption DEF TypeOK, Phases
        <4>2. p < phase[c] + 1 <=> p < phase[c] \/ p = phase[c]
          BY <4>1
        <4>3. p >= phase[c] + 1 <=> p > phase[c]
          BY <4>1
        <4>4. pc[c] # "idle"
          BY <1>4 DEF ReceiveSuccess
        <4>5. QED
          BY <2>1, <3>1, <4>2, <4>3, <4>4 DEF CommitStateOf
      <3>3. /\ commits' = commits /\ outcome' = outcome /\ pc[c] = "waiting"
            /\ pc'[c] = "dispatch" /\ rpc'[c] = "none"
        BY <1>4, <2>2 DEF TypeOK, ReceiveSuccess
      <3>4. \A d \in Clients \ {c} : /\ phase'[d] = phase[d] /\ pc'[d] = pc[d]
                                    /\ rpc'[d] = rpc[d] /\ attempt'[d] = attempt[d]
        BY <1>4, <2>2 DEF TypeOK, ReceiveSuccess
      <3>5. CommitStateOf(c)'
        <4>1. \A p \in Phases : p > phase'[c] => commits[c][p] = <<>>
          BY <3>1, <3>2, NPhasesAssumption DEF Phases
        <4>2. commits[c][phase'[c]] = <<>>
          BY <3>1, <3>2, NPhasesAssumption DEF Phases
        <4>3. QED
          BY <2>1, <3>2, <3>3, <4>1, <4>2 DEF CommitStateOf
      <3>6. ASSUME NEW d \in Clients \ {c} PROVE CommitStateOf(d)'
        BY <3>3, <3>4, <3>6 DEF CommitState, CommitStateOf, Calling
      <3>7. CommitsArePrefix'
        BY <3>3 DEF CommitsArePrefix
      <3>8. QED
        BY <3>5, <3>6, <3>7 DEF CommitState
    <2>3. CASE ~(phase[c] < NPhases)
      <3>1. /\ commits' = commits /\ phase' = phase /\ attempt' = attempt
            /\ pc'[c] = "idle" /\ rpc'[c] = "none"
            /\ \A d \in Clients \ {c} : /\ outcome'[d] = outcome[d]
                                      /\ pc'[d] = pc[d] /\ rpc'[d] = rpc[d]
        BY <1>4, <2>3 DEF TypeOK, ReceiveSuccess
      <3>2. CommitStateOf(c)'
        BY <2>1, <3>1 DEF CommitStateOf, Calling
      <3>3. ASSUME NEW d \in Clients \ {c} PROVE CommitStateOf(d)'
        BY <3>1, <3>3 DEF CommitState, CommitStateOf, Calling
      <3>4. CommitsArePrefix'
        BY <3>1 DEF CommitsArePrefix
      <3>5. QED
        BY <3>2, <3>3, <3>4 DEF CommitState
    <2>4. QED BY <2>2, <2>3
  <1>5. ASSUME NEW c \in Clients, CommitPhase(c)
        PROVE  CommitState' /\ CommitsArePrefix'
    <2>1. pc[c] # "idle" /\ commits[c][phase[c]] = <<>>
      BY <1>5 DEF CommitPhase, CommitState, CommitStateOf, Calling
    <2>2. commits'[c][phase[c]] = <<attempt[c]>>
      BY <1>5, <2>1 DEF TypeOK, CommitPhase, Logs
    <2>3. \A d \in Clients, p \in Phases :
              d # c \/ p # phase[c] => commits'[d][p] = commits[d][p]
      BY <1>5 DEF TypeOK, CommitPhase, Logs
    <2>4. CommitState'
      BY <1>5, <2>1, <2>2, <2>3 DEF TypeOK, CommitPhase, CommitState, CommitStateOf, Calling, Phases
    <2>5. \A q \in Phases : q < phase[c] => commits[c][q] # <<>>
      BY <2>1 DEF CommitState, CommitStateOf
    <2>6. CommitsArePrefix'
      <3> SUFFICES ASSUME NEW d \in Clients, NEW p \in Phases
                   PROVE  /\ Len(commits'[d][p]) <= 1
                          /\ commits'[d][p] # <<>> =>
                                 \A q \in Phases : q < p => commits'[d][q] # <<>>
        BY DEF CommitsArePrefix
      <3>1. \A q \in Phases : commits[d][q] # <<>> => commits'[d][q] # <<>>
        BY <2>2, <2>3
      <3>2. CASE d = c /\ p = phase[c]
        <4>1. commits'[d][p] = <<attempt[c]>>
          BY <2>2, <3>2
        <4>2. Len(commits'[d][p]) = 1
          BY <4>1 DEF TypeOK
        <4>3. QED
          BY <2>5, <3>1, <3>2, <4>2
      <3>3. CASE d # c \/ p # phase[c]
        BY <2>3, <3>1, <3>3 DEF CommitsArePrefix
      <3>4. QED BY <3>2, <3>3
    <2>7. QED BY <2>4, <2>6
  <1>6. QED
    BY <1>1, <1>2, <1>3, <1>4, <1>5, CommitsKept
    DEF Next, ClientStep, SessionStep, Loss

-----------------------------------------------------------------------------
(* Variable stores: only what the committed attempt bound.                 *)

\* An empty log is stamped by any attempt.
LEMMA StampedEmpty == ASSUME NEW a PROVE Stamped(<<>>, 0, a)
  BY DEF Stamped

\* A log stays stamped by an attempt that appends its own stamp.
LEMMA StampedAppend ==
    ASSUME NEW log \in Seq(Nat), NEW n \in Nat, NEW a \in Nat, Stamped(log, n, a)
    PROVE  Stamped(Append(log, a), n + 1, a)
  BY DEF Stamped

\* The parts of the invariant that speak of the variable stores.
StoresOf(c) ==
    /\ EnvStateOf(c)
    /\ \A p \in Phases : env[c][p] # <<>> =>
           /\ commits[c][p] # <<>>
           /\ Stamped(env[c][p], Len(Program[c][p]), commits[c][p][1])
    /\ outcome[c] = "committed" =>
           \A p \in Phases : commits[c][p] # <<>> /\ Len(env[c][p]) = Len(Program[c][p])

\* The invariant on variable stores, client by client.
LEMMA StoresDefinition ==
    ASSUME TypeOK
    PROVE  (\A c \in Clients : StoresOf(c)) <=>
               EnvState /\ EnvFromCommittedAttempt /\ ReturnMeansCommitted
  <1>1. \A c \in Clients, p \in Phases :
            env[c][p] \in Seq(Nat) /\ DOMAIN env[c][p] = 1..Len(env[c][p])
    BY DEF TypeOK, Logs
  <1>2. ASSUME NEW c \in Clients, NEW p \in Phases
        PROVE  Stamped(env[c][p], Len(Program[c][p]), commits[c][p][1]) <=>
                   /\ Len(env[c][p]) = Len(Program[c][p])
                   /\ \A i \in DOMAIN env[c][p] : env[c][p][i] = commits[c][p][1]
    BY <1>1 DEF Stamped
  <1>3. (\A c \in Clients, p \in Phases : env[c][p] # <<>> =>
            /\ commits[c][p] # <<>>
            /\ Stamped(env[c][p], Len(Program[c][p]), commits[c][p][1]))
        <=> EnvFromCommittedAttempt
    BY <1>2, Zenon DEF EnvFromCommittedAttempt
  <1>4. QED
    BY <1>3, Zenon DEF StoresOf, EnvState, ReturnMeansCommitted

\* An action of another client leaves c's stores alone.
LEMMA StoresOfOther ==
    ASSUME NEW c \in Clients, StoresOf(c),
           /\ pc'[c] = pc[c] /\ phase'[c] = phase[c] /\ outcome'[c] = outcome[c]
           /\ env'[c] = env[c] /\ rpc'[c] = rpc[c] /\ attempt'[c] = attempt[c]
           /\ ip'[c] = ip[c] /\ relayStore'[c] = relayStore[c] /\ clone'[c] = clone[c]
           /\ commits'[c] = commits[c]
    PROVE  StoresOf(c)'
  BY DEF StoresOf, EnvStateOf, Code

\* A step of one client leaves the variables of another one alone.
LEMMA OthersUntouched ==
    ASSUME TypeOK, NEW c \in Clients, NEW d \in Clients, c # d,
           ClientStep(d) \/ SessionStep(d) \/ Loss(d)
    PROVE  /\ pc'[c] = pc[c] /\ phase'[c] = phase[c] /\ outcome'[c] = outcome[c]
           /\ env'[c] = env[c] /\ rpc'[c] = rpc[c] /\ attempt'[c] = attempt[c]
           /\ ip'[c] = ip[c] /\ relayStore'[c] = relayStore[c] /\ clone'[c] = clone[c]
           /\ commits'[c] = commits[c]
  <1> USE DEF clientVars, sessionVars, storeVars, TypeOK
  <1>1. CASE BeginInterp(d) BY <1>1 DEF BeginInterp
  <1>2. CASE Dispatch(d) BY <1>2 DEF Dispatch, BeginAttempt
  <1>3. CASE ReceiveSuccess(d) BY <1>3 DEF ReceiveSuccess
  <1>4. CASE ReceiveFailure(d) BY <1>4 DEF ReceiveFailure
  <1>5. CASE ReceiveRequest(d) \/ Retry(d) BY <1>5 DEF ReceiveRequest, Retry, BeginAttempt
  <1>6. CASE OpenTransaction(d) BY <1>6 DEF OpenTransaction
  <1>7. CASE RunStatement(d) BY <1>7 DEF RunStatement
  <1>8. CASE StatementConflict(d) \/ StatementDeadlock(d) \/ CommitError(d)
    BY <1>8 DEF StatementConflict, StatementDeadlock, CommitError, SerializationFailure,
                OtherException
  <1>9. CASE CommitPhase(d) BY <1>9 DEF CommitPhase
  <1>10. CASE Loss(d) BY <1>10 DEF Loss, LoseConnection, LoseSession
  <1>11. QED
    BY <1>1, <1>2, <1>3, <1>4, <1>5, <1>6, <1>7, <1>8, <1>9, <1>10
    DEF ClientStep, SessionStep

\* A client's own step keeps the invariant on its variable stores: one step per
\* action of the client and of its session.
LEMMA OwnStoresStep ==
    ASSUME TypeOK, CommitState, NEW c \in Clients, StoresOf(c),
           ClientStep(c) \/ SessionStep(c) \/ Loss(c)
    PROVE  StoresOf(c)'
  <1> USE DEF clientVars, sessionVars, storeVars
  <1>0. CommitStateOf(c) /\ env[c] \in Logs /\ phase[c] \in Phases
    BY DEF CommitState, TypeOK
  <1>1. CASE BeginInterp(c)
    <2>1. \A p \in Phases : env'[c][p] = <<>> /\ ~(p < phase'[c])
      BY <1>1 DEF TypeOK, BeginInterp, EmptyLogs, Phases
    <2>2. rpc'[c] = "none" /\ outcome'[c] = "none"
      BY <1>0, <1>1 DEF TypeOK, BeginInterp, CommitStateOf
    <2>3. QED BY <2>1, <2>2 DEF StoresOf, EnvStateOf
  <1>2. ASSUME NEW n \in Nat, BeginAttempt(c, env[c], n), pc[c] # "idle", pc'[c] # "idle",
               phase' = phase, env' = env, commits' = commits, outcome'[c] = outcome[c]
        PROVE  StoresOf(c)'
    <2>1. env[c][phase[c]] = <<>>
      BY <1>0, <1>2 DEF StoresOf, EnvStateOf, Phases
    <2>2. /\ rpc'[c] = "running" /\ ip'[c] = 1 /\ attempt'[c] = n
          /\ clone'[c] = env[c] /\ relayStore'[c] = env[c]
      BY <1>2 DEF TypeOK, BeginAttempt
    <2>3. Stamped(clone'[c][phase[c]], ip'[c] - 1, attempt'[c])
      BY <2>1, <2>2, StampedEmpty
    <2>4. 1 <= Len(Code(c)) + 1
      BY CodeType
    <2>5. QED
      BY <1>2, <2>2, <2>3, <2>4 DEF StoresOf, EnvStateOf, Code
  <1>3. CASE Dispatch(c)
    <2>1. CASE phase[c] \in RunRemotely
      BY <1>0, <1>3, <2>1 DEF TypeOK, Dispatch, StoresOf, EnvStateOf, Code
    <2>2. CASE phase[c] \notin RunRemotely
      BY <1>2, <1>3, <2>2 DEF TypeOK, Dispatch
    <2>3. QED BY <2>1, <2>2
  <1>4. CASE ReceiveRequest(c)
    BY <1>0, <1>2, <1>4 DEF TypeOK, ReceiveRequest, CommitStateOf
  <1>5. CASE Retry(c)
    <2>1. relayStore[c] = env[c] /\ attempt[c] + 1 \in Nat
      BY <1>5 DEF TypeOK, Retry, StoresOf, EnvStateOf
    <2>2. QED
      BY <1>0, <1>2, <1>5, <2>1 DEF Retry, CommitStateOf
  <1>6. CASE ReceiveSuccess(c)
    <2>1. /\ Stamped(relayStore[c][phase[c]], Len(Code(c)), attempt[c])
          /\ commits[c][phase[c]] = <<attempt[c]>> /\ commits' = commits
          /\ pc[c] # "idle" /\ rpc'[c] = "none"
      BY <1>0, <1>6 DEF TypeOK, ReceiveSuccess, StoresOf, EnvStateOf, CommitStateOf
    <2>2. /\ env'[c][phase[c]] = relayStore[c][phase[c]]
          /\ \A p \in Phases : p # phase[c] => env'[c][p] = env[c][p]
      BY <1>6 DEF TypeOK, ReceiveSuccess, Logs
    <2>3. ASSUME NEW p \in Phases, env'[c][p] # <<>>
          PROVE  /\ commits'[c][p] # <<>>
                 /\ Stamped(env'[c][p], Len(Program[c][p]), commits'[c][p][1])
      <3>1. CASE p = phase[c]
        <4>1. commits'[c][p] = <<attempt[c]>>
          BY <2>1, <3>1
        <4>2. commits'[c][p] # <<>> /\ commits'[c][p][1] = attempt[c]
          BY <4>1
        <4>3. QED
          BY <2>1, <2>2, <3>1, <4>2 DEF Code
      <3>2. CASE p # phase[c]
        BY <2>1, <2>2, <2>3, <3>2 DEF StoresOf
      <3>3. QED BY <3>1, <3>2
    <2>4. ASSUME NEW p \in Phases, p < phase[c] \/ p = phase[c]
          PROVE  commits'[c][p] # <<>> /\ Len(env'[c][p]) = Len(Program[c][p])
      <3>1. CASE p = phase[c]
        <4>1. commits'[c][p] = <<attempt[c]>>
          BY <2>1, <3>1
        <4>2. commits'[c][p] # <<>>
          BY <4>1
        <4>3. QED
          BY <2>1, <2>2, <3>1, <4>2 DEF Code, Stamped
      <3>2. CASE p # phase[c] /\ p < phase[c]
        BY <1>0, <2>1, <2>2, <3>2 DEF StoresOf, EnvStateOf, CommitStateOf
      <3>3. QED BY <2>4, <3>1, <3>2
    <2>5. CASE phase[c] < NPhases
      <3>1. phase'[c] = phase[c] + 1 /\ outcome'[c] = "none"
        BY <1>0, <1>6, <2>1, <2>5 DEF TypeOK, ReceiveSuccess, CommitStateOf
      <3>2. ASSUME NEW p \in Phases
            PROVE  IF p < phase'[c] THEN Len(env'[c][p]) = Len(Program[c][p])
                                    ELSE env'[c][p] = <<>>
        <4>1. p \in Nat /\ phase[c] \in Nat
          BY <1>0, NPhasesAssumption DEF Phases
        <4>2. CASE p < phase[c] + 1
          <5>1. p < phase[c] \/ p = phase[c]
            BY <4>1, <4>2
          <5>2. QED BY <2>4, <3>1, <4>2, <5>1
        <4>3. CASE ~(p < phase[c] + 1)
          <5>1. ~(p < phase[c]) /\ p # phase[c]
            BY <4>1, <4>3
          <5>2. QED BY <2>1, <2>2, <3>1, <4>3, <5>1 DEF StoresOf, EnvStateOf
        <4>4. QED BY <4>2, <4>3
      <3>3. QED
        BY <2>1, <2>3, <3>1, <3>2 DEF StoresOf, EnvStateOf
    <2>6. CASE ~(phase[c] < NPhases)
      <3>1. pc'[c] = "idle"
        BY <1>6, <2>6 DEF TypeOK, ReceiveSuccess
      <3>2. \A p \in Phases : p < phase[c] \/ p = phase[c]
        BY <1>0, <2>6, NPhasesAssumption DEF Phases
      <3>3. \A p \in Phases : commits'[c][p] # <<>> /\ Len(env'[c][p]) = Len(Program[c][p])
        BY <2>4, <3>2
      <3>4. QED
        BY <2>1, <2>3, <3>1, <3>3 DEF StoresOf, EnvStateOf
    <2>7. QED BY <2>5, <2>6
  <1>7. CASE RunStatement(c)
    <2>1. /\ rpc[c] = "running" /\ ip[c] \in 1..Len(Code(c)) /\ ip'[c] = ip[c] + 1
          /\ clone'[c][phase[c]] = Append(clone[c][phase[c]], attempt[c])
          /\ pc' = pc /\ phase' = phase /\ outcome' = outcome /\ env' = env /\ rpc' = rpc
          /\ attempt' = attempt /\ relayStore' = relayStore /\ commits' = commits
      BY <1>7, CodeType DEF TypeOK, RunStatement, AtStatement, Logs
    <2>2. /\ clone[c][phase[c]] \in Seq(Nat) /\ attempt[c] \in Nat
          /\ Len(Code(c)) \in Nat /\ ip[c] \in Nat \ {0}
      BY CodeType DEF TypeOK, Logs
    <2>3. Stamped(clone[c][phase[c]], ip[c] - 1, attempt[c])
      BY <2>1 DEF StoresOf, EnvStateOf
    <2>4. ip[c] - 1 \in Nat /\ (ip[c] - 1) + 1 = ip[c] /\ ip'[c] - 1 = ip[c]
          /\ ip'[c] <= Len(Code(c)) + 1
      <3>1. ip[c] \in 1..Len(Code(c)) /\ ip'[c] = ip[c] + 1
        BY <2>1
      <3>2. QED BY <2>2, <3>1
    <2>5. Stamped(clone'[c][phase[c]], ip'[c] - 1, attempt[c])
      <3>1. Stamped(Append(clone[c][phase[c]], attempt[c]), (ip[c] - 1) + 1, attempt[c])
        BY <2>2, <2>3, <2>4, StampedAppend
      <3>2. QED BY <2>1, <2>4, <3>1
    <2>6. QED
      BY <2>1, <2>4, <2>5 DEF StoresOf, EnvStateOf, Code
  <1>8. CASE CommitPhase(c)
    <2>1. /\ rpc[c] = "running" /\ rpc'[c] = "ok" /\ relayStore'[c] = clone[c]
          /\ pc' = pc /\ phase' = phase /\ outcome' = outcome /\ env' = env
          /\ attempt' = attempt /\ pc[c] # "idle" /\ ip[c] \notin 1..Len(Code(c))
      BY <1>0, <1>8, CodeType DEF TypeOK, CommitPhase, CommitStateOf
    <2>2. ip[c] - 1 = Len(Code(c))
      BY <2>1, CodeType DEF TypeOK, StoresOf, EnvStateOf
    <2>3. Stamped(relayStore'[c][phase[c]], Len(Code(c)), attempt[c])
      BY <2>1, <2>2 DEF StoresOf, EnvStateOf
    <2>4. env[c][phase[c]] = <<>>
      BY <1>0, <2>1 DEF StoresOf, EnvStateOf, Phases
    <2>5. \A p \in Phases : p # phase[c] => commits'[c][p] = commits[c][p]
      BY <1>8 DEF TypeOK, CommitPhase, Logs
    <2>6. outcome[c] # "committed"
      BY <1>0, <2>1 DEF CommitStateOf
    <2>7. QED
      BY <2>1, <2>3, <2>4, <2>5, <2>6 DEF StoresOf, EnvStateOf, Code
  <1>9. CASE \/ StatementConflict(c) \/ StatementDeadlock(c) \/ CommitError(c)
             \/ ReceiveFailure(c) \/ OpenTransaction(c) \/ LoseConnection(c) \/ LoseSession(c)
    <2>1. /\ phase' = phase /\ env' = env /\ attempt' = attempt /\ ip' = ip
          /\ relayStore' = relayStore /\ clone' = clone /\ commits' = commits
      BY <1>9
      DEF StatementConflict, StatementDeadlock, CommitError, ReceiveFailure,
          OpenTransaction, LoseConnection, LoseSession, SerializationFailure, OtherException
    <2>2. /\ pc'[c] # "idle" => pc[c] # "idle"
          /\ rpc'[c] = "running" => rpc[c] = "running"
          /\ rpc'[c] = "ok" => rpc[c] = "ok"
          /\ outcome'[c] = "committed" => outcome[c] = "committed"
          /\ rpc'[c] = "backoff" => rpc[c] \in {"running", "backoff"}
      BY <1>9
      DEF TypeOK, StatementConflict, StatementDeadlock, CommitError, ReceiveFailure,
          OpenTransaction, LoseConnection, LoseSession, SerializationFailure,
          OtherException, AtStatement
    <2>3. QED
      BY <2>1, <2>2 DEF StoresOf, EnvStateOf, Code
  <1>10. QED
    BY <1>1, <1>3, <1>4, <1>5, <1>6, <1>7, <1>8, <1>9 DEF ClientStep, SessionStep, Loss

\* Every step keeps the invariant on variable stores, for every client.
LEMMA StoresStep ==
    ASSUME TypeOK, CommitState, \A c \in Clients : StoresOf(c), [Next]_vars
    PROVE  \A c \in Clients : StoresOf(c)'
  <1>1. CASE UNCHANGED vars
    BY <1>1 DEF vars, clientVars, sessionVars, storeVars, StoresOf, EnvStateOf, Code
  <1>2. ASSUME NEW d \in Clients, ClientStep(d) \/ SessionStep(d) \/ Loss(d),
               NEW c \in Clients
        PROVE  StoresOf(c)'
    <2>1. CASE c = d
      BY <1>2, <2>1, OwnStoresStep
    <2>2. CASE c # d
      BY <1>2, <2>2, OthersUntouched, StoresOfOther
    <2>3. QED BY <2>1, <2>2
  <1>3. QED BY <1>1, <1>2 DEF Next

-----------------------------------------------------------------------------
(* The invariant, and what follows from it.                                *)

\* The inductive invariant holds initially.
LEMMA InvInit == Init => IndInv
  <1> SUFFICES ASSUME Init PROVE IndInv
    OBVIOUS
  <1>1. TypeOK
    BY TypeInit
  <1>2. \A c \in Clients, p \in Phases : env[c][p] = <<>> /\ commits[c][p] = <<>>
    BY DEF Init, EmptyLogs
  <1>3. CommitState /\ EnvState /\ CommitsArePrefix
        /\ EnvFromCommittedAttempt /\ ReturnMeansCommitted
    BY <1>2 DEF Init, CommitState, CommitStateOf, Calling, EnvState, EnvStateOf,
                CommitsArePrefix, EnvFromCommittedAttempt, ReturnMeansCommitted
  <1>4. StoreState
    BY NoClientAssumption
    DEF Init, StoreState, NoLeftoverLocks, NoLostUpdate, InTransaction
  <1>5. QED BY <1>1, <1>3, <1>4 DEF IndInv

\* Every step keeps the inductive invariant.
LEMMA InvStep == IndInv /\ [Next]_vars => IndInv'
  <1> SUFFICES ASSUME IndInv, [Next]_vars PROVE IndInv'
    OBVIOUS
  <1>1. TypeOK /\ TypeOK'
    BY TypeStep DEF IndInv
  <1>2. CommitState' /\ CommitsArePrefix'
    BY CommitStep DEF IndInv
  <1>3. StoreState'
    BY StoreStep DEF IndInv
  <1>4. \A c \in Clients : StoresOf(c)'
    BY StoresStep, StoresDefinition DEF IndInv
  <1>5. (TypeOK => ((\A c \in Clients : StoresOf(c)) <=>
               EnvState /\ EnvFromCommittedAttempt /\ ReturnMeansCommitted))'
    BY StoresDefinition, PTL
  <1>6. (EnvState /\ EnvFromCommittedAttempt /\ ReturnMeansCommitted)'
    BY <1>1, <1>4, <1>5
  <1>7. QED
    BY <1>1, <1>2, <1>3, <1>6 DEF IndInv

\* The inductive invariant (types, locks, commit order, variable stores) holds in
\* every reachable state of clients, sessions and stores.
THEOREM Invariance == Spec => []IndInv
  BY InvInit, InvStep, PTL DEF Spec

\* Phases commit at most once each and in order, whatever conflicts, deadlocks,
\* retries and losses happen (common_interp, dispatch_to_runner).
THEOREM CommitsInOrder == Spec => []CommitsArePrefix
  <1>1. IndInv => CommitsArePrefix BY DEF IndInv
  <1>2. QED BY <1>1, Invariance, PTL

\* The client's variables come from committed attempts only (the clone that
\* common_interp_loop runs on, commit_phase's take).
THEOREM EnvIsCommitted == Spec => []EnvFromCommittedAttempt
  <1>1. IndInv => EnvFromCommittedAttempt BY DEF IndInv
  <1>2. QED BY <1>1, Invariance, PTL

\* Returning to the caller means that every phase is committed.
THEOREM ReturnIsCommitted == Spec => []ReturnMeansCommitted
  <1>1. IndInv => ReturnMeansCommitted BY DEF IndInv
  <1>2. QED BY <1>1, Invariance, PTL

\* No SQL transaction or row lock outlives the attempt that opened it
\* (SQLTransaction's destructor, store_commit).
THEOREM LocksAreScoped == Spec => []NoLeftoverLocks
  <1>1. IndInv => NoLeftoverLocks BY DEF IndInv, StoreState
  <1>2. QED BY <1>1, Invariance, PTL

\* No update is based on a stale row: who holds a row has seen its last version.
THEOREM UpdatesAreNotLost == Spec => []NoLostUpdate
  <1>1. IndInv => NoLostUpdate BY DEF IndInv, StoreState
  <1>2. QED BY <1>1, Invariance, PTL

\* The step of OnlyCommitsChangeRows.
RowStep ==
    \A p \in Phases, o \in Objects :
        version'[p][o] # version[p][o] =>
            \E c \in Clients :
                /\ lock[p][o] = c /\ lock'[p][o] = NoClient
                /\ version'[p][o] = version[p][o] + 1
                /\ Len(commits'[c][p]) = Len(commits[c][p]) + 1

\* A step moves a row's version only as the commit of the row's holder.
LEMMA RowStepHolds ==
    ASSUME TypeOK, [Next]_vars
    PROVE  RowStep
  <1> USE DEF clientVars, sessionVars, storeVars
  <1>1. CASE UNCHANGED version
    BY <1>1 DEF RowStep
  <1>2. ASSUME NEW c \in Clients, CommitPhase(c) PROVE RowStep
    <2> SUFFICES ASSUME NEW p \in Phases, NEW o \in Objects,
                        version'[p][o] # version[p][o]
                 PROVE  /\ lock[p][o] = c /\ lock'[p][o] = NoClient
                        /\ version'[p][o] = version[p][o] + 1
                        /\ Len(commits'[c][p]) = Len(commits[c][p]) + 1
      BY DEF RowStep
    <2>1. p = phase[c] /\ lock[p][o] = c /\ version'[p][o] = version[p][o] + 1
      BY <1>2 DEF TypeOK, CommitPhase, StoreCommit, HeldBy
    <2>2. lock'[p][o] = NoClient
      BY <1>2, <2>1 DEF TypeOK, CommitPhase, StoreCommit
    <2>3. commits[c][p] \in Seq(Nat) /\ commits'[c][p] = Append(commits[c][p], attempt[c])
      BY <1>2, <2>1 DEF TypeOK, CommitPhase, Logs
    <2>4. Len(commits'[c][p]) = Len(commits[c][p]) + 1
      BY <2>3 DEF TypeOK
    <2>5. QED BY <2>1, <2>2, <2>4
  <1>3. ASSUME NEW c \in Clients, ~CommitPhase(c),
               ClientStep(c) \/ SessionStep(c) \/ Loss(c)
        PROVE  UNCHANGED version
    BY <1>3
    DEF ClientStep, SessionStep, Loss, BeginInterp, Dispatch, ReceiveSuccess,
        ReceiveFailure, ReceiveRequest, OpenTransaction, RunStatement, StatementConflict,
        SerializationFailure, StatementDeadlock, CommitError, OtherException, Retry,
        LoseConnection, LoseSession, Rollback
  <1>4. QED
    BY <1>1, <1>2, <1>3 DEF Next, SessionStep, vars

\* A row's version moves only by one, and only in the commit of the client that
\* holds the row (store_commit under commit_phase).
THEOREM RowsMoveByCommits == Spec => OnlyCommitsChangeRows
  <1>1. TypeOK /\ [Next]_vars => [RowStep]_vars
    BY RowStepHolds
  <1>2. QED
    BY <1>1, TypeCorrect, PTL DEF Spec, OnlyCommitsChangeRows, RowStep
=============================================================================
