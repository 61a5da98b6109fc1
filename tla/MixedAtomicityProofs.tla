------------------------ MODULE MixedAtomicityProofs ------------------------
(***************************************************************************)
(* When the phases of a transaction take effect as AtomicPhases says, and   *)
(* when a transaction that aborts has changed nothing.  Both rest on one    *)
(* condition: a phase whose label cannot abort never gives up.  The program *)
(* gives up, whatever the label, after a deadlock and after a COMMIT that   *)
(* fails; so the condition is on the programs and the labels.               *)
(***************************************************************************)
EXTENDS MixedTransactionProofs, FiniteSetTheorems

IsWrite(c, p, i) == Program[c][p][i].op = "write"

\* The phases that cannot abort update the rows of their store in one order.
OrderedUpdates ==
    \E rank \in [Objects -> Nat] :
        \A c \in Clients, p \in Phases \ CanAbort :
            \A i, j \in DOMAIN Program[c][p] :
                /\ i < j /\ IsWrite(c, p, i) /\ IsWrite(c, p, j)
                /\ Program[c][p][i].obj # Program[c][p][j].obj
                => rank[Program[c][p][i].obj] < rank[Program[c][p][j].obj]

\* Only stores of labels that can abort are SERIALIZABLE (strong stores are,
\* causal stores are not), and updates are ordered.
NeverStuck == Serializable \subseteq CanAbort /\ OrderedUpdates

\* A label that can abort is the strongest that writes.
AbortsBeforeWrites ==
    \A c \in Clients, p \in CanAbort, q \in Phases : q < p => ~Writes(c, q)

-----------------------------------------------------------------------------
(* What is added to the inductive invariant of MixedTransactionProofs.     *)

\* A row that the client has locked is one that the attempt has written.
LocksWritten ==
    \A c \in Clients, o \in Objects :
        lock[phase[c]][o] = c =>
            \E i \in DOMAIN Code(c) : /\ i < ip[c] /\ Code(c)[i].op = "write"
                                      /\ Code(c)[i].obj = o

\* A negative answer comes from a label that can abort only.
FailsWhereAllowed == \A c \in Clients : rpc[c] = "fail" => phase[c] \in CanAbort

\* What the caller has been told, against where the client is.
CallerState ==
    \A c \in Clients :
        /\ pc[c] = "idle" /\ run[c] > 0 => outcome[c] # "none"
        /\ pc[c] # "idle" => run[c] > 0
        /\ pc[c] = "idle" /\ run[c] = 0 => outcome[c] = "none" /\ \A p \in Phases : commits[c][p] = <<>>
        /\ outcome[c] = "aborted" =>
             phase[c] \in CanAbort /\ \A p \in Phases : p >= phase[c] => commits[c][p] = <<>>
        /\ pc[c] # "idle" => outcome[c] = "none"

StrongInv == IndInv /\ LocksWritten /\ FailsWhereAllowed /\ CallerState

-----------------------------------------------------------------------------
(* Deadlock.                                                               *)

\* Every non-empty set of natural numbers has a least element.
LEMMA LeastNat ==
    ASSUME NEW T \in SUBSET Nat, T # {}
    PROVE  \E m \in T : \A n \in T : m <= n
  <1> DEFINE Less == OpToRel(<, Nat)
  <1>1. IsWellFoundedOn(Less, Nat)
    BY NatLessThanWellFounded, Zenon
  <1>2. PICK m \in T : \A n \in T : ~(<<n, m>> \in Less)
    <2> HIDE DEF Less
    <2> QED BY <1>1, WFMin, Zenon
  <1>3. \A n \in T : ~(n < m)
    BY <1>2 DEF OpToRel
  <1> QED BY <1>3

\* Ordered updates do not deadlock: of the clients on a cycle of waits, the one
\* that waits for the least row holds a lesser one that another waits for.
LEMMA NoDeadlock ==
    ASSUME TypeOK, StoreState, LocksWritten, OrderedUpdates,
           NEW c \in Clients, phase[c] \notin CanAbort
    PROVE  ~Deadlocked(c)
  <1> SUFFICES ASSUME Deadlocked(c) PROVE FALSE
    OBVIOUS
  <1>1. PICK rank \in [Objects -> Nat] :
          \A d \in Clients, p \in Phases \ CanAbort :
            \A i, j \in DOMAIN Program[d][p] :
                /\ i < j /\ IsWrite(d, p, i) /\ IsWrite(d, p, j)
                /\ Program[d][p][i].obj # Program[d][p][j].obj
                => rank[Program[d][p][i].obj] < rank[Program[d][p][j].obj]
    BY DEF OrderedUpdates
  <1>2. PICK S \in SUBSET Clients :
          /\ c \in S
          /\ \A x \in S : (\E y \in S : WaitsFor(x, y)) /\ (\E y \in S : WaitsFor(y, x))
    BY DEF Deadlocked
  <1> DEFINE Row(x) == Code(x)[ip[x]].obj
             Same == {x \in S : phase[x] = phase[c]}
             Ranks == {rank[Row(x)] : x \in Same}
  <1>3. ASSUME NEW x \in S
        PROVE  /\ Row(x) \in Objects /\ rank[Row(x)] \in Nat
               /\ ip[x] \in DOMAIN Code(x) /\ Code(x)[ip[x]].op = "write"
               /\ lock[phase[x]][Row(x)] # x
    <2>1. PICK y \in S : WaitsFor(x, y)
      BY <1>2
    <2>2. ip[x] \in DOMAIN Code(x) /\ Code(x)[ip[x]].op = "write" /\ lock[phase[x]][Row(x)] # x
      BY <2>1 DEF WaitsFor, AtStatement
    <2>3. Code(x)[ip[x]] \in Statements
      BY <2>2, CodeType
    <2> QED BY <2>2, <2>3 DEF Statements
  <1>4. ASSUME NEW x \in S, NEW y \in Same, WaitsFor(x, y)
        PROVE  x \in Same /\ rank[Row(x)] < rank[Row(y)]
    <2>1. lock[phase[x]][Row(x)] = y /\ phase[x] \in Phases /\ phase[y] \in Phases
      BY <1>4 DEF WaitsFor, TypeOK
    <2>2. phase[x] = phase[y]
      BY <1>3, <2>1 DEF StoreState, NoLeftoverLocks
    <2>3. PICK i \in DOMAIN Code(y) : i < ip[y] /\ Code(y)[i].op = "write" /\ Code(y)[i].obj = Row(x)
      BY <1>3, <2>1, <2>2 DEF LocksWritten
    <2>4. Row(x) # Row(y)
      BY <1>3, <2>1, <2>2
    <2>5. phase[y] \in Phases \ CanAbort
      BY <2>1
    <2> QED BY <1>1, <1>3, <2>2, <2>3, <2>4, <2>5 DEF Code, IsWrite
  <1>5. Ranks \in SUBSET Nat /\ Ranks # {}
    BY <1>2, <1>3
  <1>6. PICK m \in Ranks : \A n \in Ranks : m <= n
    <2> HIDE DEF Ranks
    <2> QED BY <1>5, LeastNat
  <1>7. PICK y \in Same : m = rank[Row(y)]
    BY <1>6
  <1>8. PICK x \in S : WaitsFor(x, y)
    BY <1>2, <1>7
  <1>9. x \in Same /\ rank[Row(x)] < rank[Row(y)]
    BY <1>4, <1>8
  <1>10. m <= rank[Row(x)]
    BY <1>6, <1>9
  <1>11. m \in Nat /\ rank[Row(x)] \in Nat
    BY <1>3, <1>5, <1>6
  <1> QED BY <1>7, <1>9, <1>10, <1>11

-----------------------------------------------------------------------------
(* The added invariants, step by step.                                     *)

\* A step gives no other client a lock.
LEMMA OthersLocks ==
    ASSUME TypeOK, StoreState, NEW c \in Clients, NEW d \in Clients, c # d,
           ClientStep(c) \/ SessionStep(c) \/ Loss(c),
           NEW p \in Phases, NEW o \in Objects, lock'[p][o] = d
    PROVE  lock[p][o] = d
  <1> USE DEF clientVars, sessionVars, storeVars
  <1>1. CASE Rollback(c)
    BY <1>1, RollbackFrees
  <1>2. CASE CommitPhase(c)
    BY <1>2, StoreCommitFrees DEF CommitPhase
  <1>3. CASE RunStatement(c)
    BY <1>3, CodeType DEF RunStatement, AtStatement, TypeOK, Statements
  <1>4. CASE lock' = lock
    BY <1>4
  <1> QED
    BY <1>1, <1>2, <1>3, <1>4
    DEF ClientStep, SessionStep, Loss, BeginInterp, Dispatch, ReceiveSuccess,
        ReceiveFailure, ReceiveRequest, OpenTransaction, StatementConflict,
        SerializationFailure, StatementDeadlock, CommitError, OtherException, Retry,
        LoseConnection, LoseSession

\* Locks go with the statements that took them.
LEMMA LocksStep ==
    ASSUME IndInv, LocksWritten, [Next]_vars
    PROVE  LocksWritten'
  <1> USE DEF clientVars, sessionVars, storeVars
  <1>0. IndInv' /\ TypeOK /\ TypeOK' /\ StoreState /\ StoreState'
    BY InvStep DEF IndInv
  <1>1. CASE UNCHANGED vars
    BY <1>1 DEF vars, LocksWritten, Code
  <1>2. ASSUME NEW c \in Clients, ClientStep(c) \/ SessionStep(c) \/ Loss(c),
               NEW d \in Clients, NEW o \in Objects, lock'[phase'[d]][o] = d
        PROVE  \E i \in DOMAIN Program[d][phase'[d]] :
                 /\ i < ip'[d] /\ Program[d][phase'[d]][i].op = "write"
                 /\ Program[d][phase'[d]][i].obj = o
    <2>1. CASE d # c
      <3>1. phase'[d] = phase[d] /\ ip'[d] = ip[d] /\ phase[d] \in Phases
        BY <1>0, <1>2, <2>1, OthersUntouched DEF TypeOK
      <3>2. lock[phase[d]][o] = d
        BY <1>0, <1>2, <2>1, <3>1, OthersLocks
      <3> QED BY <3>1, <3>2 DEF LocksWritten, Code
    <2>2. CASE d = c /\ RunStatement(c)
      <3>1. /\ phase' = phase /\ ip'[c] = ip[c] + 1 /\ ip[c] \in DOMAIN Code(c) /\ ip[c] \in Nat
            /\ phase[c] \in Phases
        BY <1>0, <2>2 DEF RunStatement, AtStatement, TypeOK
      <3>2. CASE lock[phase[c]][o] = c
        <4>1. PICK i \in DOMAIN Code(c) : i < ip[c] /\ Code(c)[i].op = "write" /\ Code(c)[i].obj = o
          BY <3>2 DEF LocksWritten
        <4>2. i < ip[c] + 1
          BY <1>0, <3>1, <4>1, CodeType
        <4> QED BY <2>2, <3>1, <4>1, <4>2 DEF Code
      <3>3. CASE lock[phase[c]][o] # c
        <4>1. Code(c)[ip[c]].op = "write" /\ Code(c)[ip[c]].obj = o
          BY <1>0, <1>2, <2>2, <3>1, <3>3 DEF RunStatement, TypeOK
        <4>2. ip[c] < ip[c] + 1
          BY <3>1
        <4> QED BY <2>2, <3>1, <4>1, <4>2 DEF Code
      <3> QED BY <3>2, <3>3
    <2>3. CASE d = c /\ (OpenTransaction(c) \/ LoseConnection(c))
      BY <1>2, <2>3 DEF OpenTransaction, LoseConnection, LocksWritten, Code
    <2>4. CASE d = c /\ ~RunStatement(c) /\ ~OpenTransaction(c) /\ ~LoseConnection(c)
      <3>1. snapshot'[c] = NoSnapshot
        <4>1. rpc[c] # "running" => snapshot[c] = NoSnapshot
          BY <1>0 DEF StoreState, NoLeftoverLocks, InTransaction
        <4>2. CASE Rollback(c) \/ StoreCommit(c)
          BY <1>0, <4>2 DEF Rollback, StoreCommit, TypeOK
        <4>3. CASE snapshot' = snapshot /\ rpc[c] # "running"
          BY <4>1, <4>3
        <4>4. pc[c] \in {"idle", "dispatch"} => rpc[c] = "none"
          BY DEF IndInv, CommitState, CommitStateOf
        <4> QED
          BY <1>2, <2>4, <4>2, <4>3, <4>4
          DEF ClientStep, SessionStep, Loss, BeginInterp, Dispatch, ReceiveSuccess,
              ReceiveFailure, ReceiveRequest, StatementConflict, CommitPhase,
              SerializationFailure, StatementDeadlock, CommitError, OtherException, Retry,
              LoseSession
      <3>2. phase'[c] \in Phases
        BY <1>0 DEF TypeOK
      <3> QED BY <1>0, <1>2, <2>4, <3>1, <3>2 DEF StoreState, NoLeftoverLocks, InTransaction
    <2> QED BY <2>1, <2>2, <2>3, <2>4
  <1> QED BY <1>1, <1>2 DEF Next, LocksWritten, Code

\* Only labels that can abort answer with a failure: deadlocks do not happen to
\* the others, and neither do the failures of SERIALIZABLE.
LEMMA FailsStep ==
    ASSUME NeverStuck, IndInv, LocksWritten, FailsWhereAllowed, [Next]_vars
    PROVE  FailsWhereAllowed'
  <1> USE DEF clientVars, sessionVars, storeVars
  <1>0. TypeOK /\ StoreState
    BY DEF IndInv
  <1>1. CASE UNCHANGED vars
    BY <1>1 DEF vars, FailsWhereAllowed
  <1>2. ASSUME NEW c \in Clients, ClientStep(c) \/ SessionStep(c) \/ Loss(c),
               NEW d \in Clients, rpc'[d] = "fail"
        PROVE  phase'[d] \in CanAbort
    <2>1. CASE d # c
      BY <1>0, <1>2, <2>1, OthersUntouched DEF FailsWhereAllowed
    <2>2. CASE d = c /\ StatementConflict(c)
      BY <1>0, <1>2, <2>2 DEF StatementConflict, SerializationFailure, TypeOK
    <2>3. CASE d = c /\ StatementDeadlock(c)
      BY <1>0, <2>3, NoDeadlock DEF NeverStuck, StatementDeadlock, OtherException
    <2>4. CASE d = c /\ CommitError(c)
      BY <2>4 DEF NeverStuck, CommitError, MayFailToSerialize, OtherException
    <2>5. CASE d = c /\ (OpenTransaction(c) \/ RunStatement(c) \/ LoseConnection(c))
      BY <1>2, <2>5 DEF OpenTransaction, RunStatement, LoseConnection, FailsWhereAllowed
    <2>6. CASE BeginInterp(c)
      BY <1>0, <1>2, <2>1, <2>6 DEF BeginInterp, IndInv, CommitState, CommitStateOf
    <2>7. CASE Dispatch(c) \/ ReceiveRequest(c) \/ Retry(c)
      BY <1>0, <1>2, <2>1, <2>7 DEF Dispatch, ReceiveRequest, Retry, BeginAttempt, TypeOK
    <2>8. CASE ReceiveSuccess(c) \/ ReceiveFailure(c) \/ CommitPhase(c) \/ LoseSession(c)
      BY <1>0, <1>2, <2>1, <2>8 DEF ReceiveSuccess, ReceiveFailure, CommitPhase, LoseSession, TypeOK
    <2> QED
      BY <1>2, <2>1, <2>2, <2>3, <2>4, <2>5, <2>6, <2>7, <2>8 DEF ClientStep, SessionStep, Loss
  <1> QED BY <1>1, <1>2 DEF Next, FailsWhereAllowed

\* What the caller was told stays true until it begins again.
LEMMA CallerStep ==
    ASSUME IndInv, FailsWhereAllowed, CallerState, [Next]_vars
    PROVE  CallerState'
  <1> USE DEF clientVars, sessionVars, storeVars
  <1>0. TypeOK /\ CommitState
    BY DEF IndInv
  <1>1. CASE UNCHANGED vars
    BY <1>1 DEF vars, CallerState
  <1> DEFINE Told(c) ==
        /\ pc[c] = "idle" /\ run[c] > 0 => outcome[c] # "none"
        /\ pc[c] # "idle" => run[c] > 0
        /\ pc[c] = "idle" /\ run[c] = 0 => outcome[c] = "none" /\ \A p \in Phases : commits[c][p] = <<>>
        /\ outcome[c] = "aborted" =>
             phase[c] \in CanAbort /\ \A p \in Phases : p >= phase[c] => commits[c][p] = <<>>
        /\ pc[c] # "idle" => outcome[c] = "none"
  <1>2. ASSUME NEW c \in Clients, ClientStep(c) \/ SessionStep(c) \/ Loss(c), NEW d \in Clients
        PROVE  Told(d)'
    <2>a. Told(d)
      BY DEF CallerState
    <2>1. CASE d # c
      <3>1. run'[d] = run[d]
        BY <1>0, <1>2, <2>1
        DEF TypeOK, ClientStep, SessionStep, Loss, BeginInterp, Dispatch, ReceiveSuccess, BeginAttempt,
            ReceiveFailure, ReceiveRequest, OpenTransaction, RunStatement, StatementConflict,
            SerializationFailure, StatementDeadlock, CommitError, OtherException, CommitPhase, Retry,
            LoseConnection, LoseSession
      <3> QED BY <1>0, <1>2, <2>1, <2>a, <3>1, OthersUntouched
    <2>2. CASE d = c /\ BeginInterp(c)
      <3>1. pc'[c] = "dispatch" /\ run'[c] = run[c] + 1 /\ outcome'[c] = "none" /\ run[c] \in Nat
        BY <1>0, <2>2 DEF BeginInterp, TypeOK
      <3> QED BY <2>2, <3>1
    <2>3. CASE d = c /\ ReceiveSuccess(c)
      <3>1. /\ pc[c] = "waiting" /\ run'[c] = run[c]
            /\ \/ pc'[c] = "dispatch" /\ outcome' = outcome
               \/ pc'[c] = "idle" /\ outcome'[c] = "committed"
        BY <1>0, <2>3 DEF ReceiveSuccess, TypeOK
      <3>2. run[c] \in Nat
        BY <1>0 DEF TypeOK
      <3> QED BY <2>3, <2>a, <3>1, <3>2
    <2>4. CASE d = c /\ ReceiveFailure(c)
      <3>1. /\ pc[c] = "waiting" /\ rpc[c] = "fail" /\ pc'[c] = "idle" /\ outcome'[c] = "aborted"
            /\ run' = run /\ phase' = phase /\ commits' = commits /\ phase[c] \in Phases /\ run[c] \in Nat
        BY <1>0, <2>4 DEF ReceiveFailure, TypeOK
      <3>2. \A p \in Phases : p >= phase[c] => commits[c][p] = <<>>
        BY <1>0, <3>1 DEF CommitState, CommitStateOf, Calling, Phases
      <3> QED BY <2>4, <2>a, <3>1, <3>2 DEF FailsWhereAllowed
    <2>5. CASE d = c /\ CommitPhase(c)
      <3>1. rpc[c] = "running" /\ pc' = pc /\ run' = run /\ outcome' = outcome
        BY <2>5 DEF CommitPhase
      <3>2. pc[c] # "idle"
        BY <1>0, <3>1 DEF CommitState, CommitStateOf
      <3> QED BY <2>5, <2>a, <3>1, <3>2
    <2>6. CASE /\ d = c /\ run' = run /\ outcome' = outcome /\ phase' = phase /\ commits' = commits
               /\ pc'[c] = pc[c] \/ (pc[c] # "idle" /\ pc'[c] # "idle")
      BY <2>6, <2>a
    <2> QED
      BY <1>0, <1>2, <2>1, <2>2, <2>3, <2>4, <2>5, <2>6
      DEF ClientStep, SessionStep, Loss, Dispatch, BeginAttempt,
          ReceiveRequest, OpenTransaction, RunStatement, StatementConflict,
          SerializationFailure, StatementDeadlock, CommitError, OtherException, Retry,
          LoseConnection, LoseSession, TypeOK
  <1> QED BY <1>1, <1>2 DEF Next, CallerState

\* The strengthened invariant holds before the first transaction.
LEMMA StrongInit == Init => StrongInv
  <1> SUFFICES ASSUME Init PROVE StrongInv
    OBVIOUS
  <1>1. IndInv BY InvInit
  <1>2. LocksWritten BY EmptyLogsType, NoClientAssumption DEF Init, LocksWritten
  <1>3. FailsWhereAllowed BY DEF Init, FailsWhereAllowed
  <1>4. CallerState BY DEF Init, CallerState, EmptyLogs
  <1> QED BY <1>1, <1>2, <1>3, <1>4 DEF StrongInv

\* It holds in every reachable state, where phases that cannot abort do not get stuck.
LEMMA StrongAlways == ASSUME NeverStuck PROVE Spec => []StrongInv
  <1>1. StrongInv /\ [Next]_vars => StrongInv'
    BY InvStep, LocksStep, FailsStep, CallerStep DEF StrongInv
  <1> QED BY <1>1, StrongInit, PTL DEF Spec

-----------------------------------------------------------------------------
(* Theorems.                                                               *)

\* Where updates are ordered and only labels that can abort are SERIALIZABLE, a
\* SerializationFailure that reaches the caller has left no write in any store,
\* if nothing stronger than an aborting label writes.
THEOREM AbortedWroteNothing ==
    ASSUME NeverStuck, AbortsBeforeWrites
    PROVE  Spec => []WriteAtomicity
  <1>1. StrongInv => WriteAtomicity
    <2> SUFFICES ASSUME StrongInv, NEW c \in Clients, outcome[c] = "aborted",
                        NEW p \in Phases, commits[c][p] # <<>>
                 PROVE  ~Writes(c, p)
      BY DEF WriteAtomicity
    <2>1. phase[c] \in CanAbort /\ ~(p >= phase[c])
      BY DEF StrongInv, CallerState
    <2>2. phase[c] \in Nat /\ p \in Nat
      BY DEF StrongInv, IndInv, TypeOK, Phases
    <2>3. p < phase[c]
      BY <2>1, <2>2
    <2> QED BY <2>1, <2>3 DEF AbortsBeforeWrites
  <1> QED BY <1>1, StrongAlways, PTL

Done(c) == Cardinality({p \in Phases : commits[c][p] # <<>>})

\* While a transaction runs, what has taken effect is every phase before the
\* client's, and the client's own when it has committed.
LEMMA DoneCounts ==
    ASSUME StrongInv, NEW c \in Clients, pc[c] # "idle"
    PROVE  /\ phase[c] \in 1..NPhases
           /\ Done(c) = IF commits[c][phase[c]] = <<>> THEN phase[c] - 1 ELSE phase[c]
  <1>0. phase[c] \in 1..NPhases /\ NPhases \in Nat
    BY NPhasesAssumption DEF StrongInv, IndInv, TypeOK, Phases
  <1>1. /\ \A p \in Phases : p < phase[c] => commits[c][p] # <<>>
        /\ \A p \in Phases : p > phase[c] => commits[c][p] = <<>>
    BY DEF StrongInv, IndInv, CommitState, CommitStateOf
  <1> DEFINE D == {p \in Phases : commits[c][p] # <<>>}
             k == IF commits[c][phase[c]] = <<>> THEN phase[c] - 1 ELSE phase[c]
  <1>2. D = 1..k
    <2>1. \A p \in Phases : p \in D <=> p \in 1..k
      <3> TAKE p \in Phases
      <3>1. p \in 1..NPhases BY DEF Phases
      <3> QED BY <1>0, <1>1, <3>1
    <2>2. 1..k \subseteq Phases
      BY <1>0 DEF Phases
    <2> QED BY <2>1, <2>2
  <1>3. k \in Int /\ (1 > k => k = 0)
    BY <1>0
  <1>4. Cardinality(1..k) = IF 1 > k THEN 0 ELSE k - 1 + 1
    <2> HIDE DEF k
    <2> QED BY <1>3, FS_Interval
  <1>5. Cardinality(1..k) = k
    <2> HIDE DEF k
    <2> QED BY <1>3, <1>4
  <1> QED BY <1>0, <1>2, <1>5 DEF Done

\* The mapping's variables after a step of c that changes what has taken effect
\* for c alone.
LEMMA DoneOfOthers ==
    ASSUME IndInv, NEW c \in Clients, ClientStep(c) \/ SessionStep(c) \/ Loss(c)
    PROVE  [d \in Clients |-> Done(d)]' = [[d \in Clients |-> Done(d)] EXCEPT ![c] = Done(c)']
  <1>1. \A d \in Clients : d # c => commits'[d] = commits[d]
    BY OthersUntouched DEF IndInv
  <1>2. \A d \in Clients : d # c => Done(d)' = Done(d)
    BY <1>1 DEF Done
  <1> QED BY <1>2

\* Every step is a step of AtomicPhases or changes nothing of it.
LEMMA Simulation ==
    ASSUME StrongInv, StrongInv', [Next]_vars
    PROVE  [Abstract!Next]_(Abstract!vars)
  <1> USE DEF clientVars, sessionVars, storeVars
  <1>0. TypeOK /\ TypeOK' /\ IndInv /\ CommitState
    BY DEF StrongInv, IndInv
  <1> DEFINE done == [c \in Clients |-> Done(c)]
  <1>a. Abstract!vars = <<run, done, outcome>>
    BY DEF Abstract!vars, Done
  <1>1. CASE run' = run /\ outcome' = outcome /\ commits' = commits
    BY <1>1 DEF Abstract!vars
  <1>2. ASSUME NEW c \in Clients, BeginInterp(c) PROVE Abstract!Begin(c)
    <2>1. pc[c] = "idle" /\ run[c] < MaxRuns /\ run[c] \in Nat
      BY <1>0, <1>2 DEF BeginInterp, TypeOK
    <2>2. ~(run[c] > 0 /\ outcome[c] = "none")
      BY <2>1 DEF StrongInv, CallerState
    <2>3. Done(c)' = 0
      <3>1. {p \in Phases : commits'[c][p] # <<>>} = {}
        BY <1>0, <1>2 DEF BeginInterp, EmptyLogs, TypeOK
      <3> QED BY <3>1, FS_EmptySet DEF Done
    <2>4. done' = [done EXCEPT ![c] = 0]
      BY <1>0, <1>2, <2>3, DoneOfOthers DEF ClientStep
    <2> QED BY <1>2, <2>1, <2>2, <2>4 DEF Abstract!Begin, Abstract!Running, BeginInterp, Done
  <1>3. ASSUME NEW c \in Clients, ReceiveSuccess(c) PROVE [Abstract!Next]_(Abstract!vars)
    <2>1. /\ pc[c] = "waiting" /\ rpc[c] = "ok" /\ run' = run /\ commits' = commits
          /\ phase[c] \in Phases /\ run[c] \in Nat
      BY <1>0, <1>3 DEF ReceiveSuccess, TypeOK
    <2>2. CASE phase[c] < NPhases
      BY <1>1, <1>3, <2>1, <2>2 DEF ReceiveSuccess
    <2>3. CASE ~(phase[c] < NPhases)
      <3>0. commits[c][phase[c]] = <<attempt[c]>>
        BY <1>0, <2>1 DEF CommitState, CommitStateOf
      <3>1. commits[c][phase[c]] # <<>>
        <4>1. Len(<<attempt[c]>>) = 1
          OBVIOUS
        <4> QED BY <3>0, <4>1
      <3>2. Done(c) = NPhases
        <4>1. phase[c] \in 1..NPhases /\ Done(c) = phase[c]
          BY <2>1, <3>1, DoneCounts
        <4> QED BY <2>3, <4>1, NPhasesAssumption
      <3>3. run[c] > 0 /\ outcome[c] = "none"
        BY <2>1 DEF StrongInv, CallerState
      <3>4. done' = done
        BY <2>1 DEF Done
      <3>5. Abstract!Return(c)
        BY <1>3, <2>1, <2>3, <3>2, <3>3, <3>4 DEF Abstract!Return, Abstract!Running, ReceiveSuccess, Done
      <3> QED BY <3>5 DEF Abstract!Next, Abstract!Progress
    <2> QED BY <2>2, <2>3
  <1>4. ASSUME NEW c \in Clients, ReceiveFailure(c) PROVE Abstract!GiveUp(c)
    <2>1. /\ pc[c] = "waiting" /\ rpc[c] = "fail" /\ run' = run /\ commits' = commits
          /\ outcome' = [outcome EXCEPT ![c] = "aborted"] /\ phase[c] \in Phases
      BY <1>0, <1>4 DEF ReceiveFailure, TypeOK
    <2>2. commits[c][phase[c]] = <<>> /\ phase[c] \in CanAbort
      BY <1>0, <2>1 DEF CommitState, CommitStateOf, Calling, StrongInv, FailsWhereAllowed
    <2>3. Done(c) + 1 = phase[c]
      <3>1. phase[c] \in 1..NPhases /\ Done(c) = phase[c] - 1
        BY <2>1, <2>2, DoneCounts
      <3> QED BY <3>1, NPhasesAssumption
    <2>4. run[c] > 0 /\ outcome[c] = "none"
      BY <2>1 DEF StrongInv, CallerState
    <2>5. done' = done
      BY <2>1 DEF Done
    <2> QED BY <2>1, <2>2, <2>3, <2>4, <2>5 DEF Abstract!GiveUp, Abstract!Running, Done
  <1>5. ASSUME NEW c \in Clients, CommitPhase(c) PROVE Abstract!TakeEffect(c)
    <2>1. /\ rpc[c] = "running" /\ run' = run /\ outcome' = outcome /\ phase' = phase /\ pc' = pc
          /\ phase[c] \in Phases /\ commits[c][phase[c]] \in Seq(Nat) /\ attempt[c] \in Nat
          /\ commits'[c][phase[c]] = Append(commits[c][phase[c]], attempt[c])
      BY <1>0, <1>5 DEF CommitPhase, TypeOK, Logs
    <2>2. pc[c] # "idle" /\ commits[c][phase[c]] = <<>>
      BY <1>0, <2>1 DEF CommitState, CommitStateOf, Calling
    <2>3. commits'[c][phase[c]] # <<>>
      BY <2>1
    <2>4. phase[c] \in 1..NPhases /\ Done(c) = phase[c] - 1
      BY <2>2, DoneCounts
    <2>5. Done(c)' = phase[c]
      <3>1. StrongInv' /\ (pc[c] # "idle")' => (Done(c) = IF commits[c][phase[c]] = <<>> THEN phase[c] - 1 ELSE phase[c])'
        BY DoneCounts, PTL
      <3> QED BY <2>1, <2>2, <2>3, <3>1
    <2>6. Done(c)' = Done(c) + 1 /\ Done(c) < NPhases
      BY <2>4, <2>5, NPhasesAssumption
    <2>7. done' = [done EXCEPT ![c] = Done(c) + 1]
      BY <1>0, <1>5, <2>6, DoneOfOthers DEF SessionStep
    <2>8. run[c] > 0 /\ outcome[c] = "none"
      BY <2>2 DEF StrongInv, CallerState
    <2> QED BY <2>1, <2>6, <2>7, <2>8 DEF Abstract!TakeEffect, Abstract!Running, Done
  <1>6. ASSUME NEW c \in Clients, ClientStep(c) \/ SessionStep(c) \/ Loss(c),
               ~BeginInterp(c), ~ReceiveSuccess(c), ~ReceiveFailure(c), ~CommitPhase(c)
        PROVE  run' = run /\ outcome' = outcome /\ commits' = commits
    BY <1>6
    DEF ClientStep, SessionStep, Loss, Dispatch, BeginAttempt,
        ReceiveRequest, OpenTransaction, RunStatement, StatementConflict,
        SerializationFailure, StatementDeadlock, CommitError, OtherException, Retry,
        LoseConnection, LoseSession
  <1>7. CASE UNCHANGED vars
    BY <1>1, <1>7 DEF vars
  <1>8. ASSUME NEW c \in Clients, Abstract!Begin(c) \/ Abstract!GiveUp(c) \/ Abstract!TakeEffect(c)
        PROVE  [Abstract!Next]_(Abstract!vars)
    BY <1>8 DEF Abstract!Next, Abstract!Progress
  <1> QED BY <1>1, <1>2, <1>3, <1>4, <1>5, <1>6, <1>7, <1>8 DEF Next

\* The safety of ImplementsAtomicPhases: clients, relays, retries and stores
\* together do nothing that a transaction taking effect phase by phase would
\* not do, for any number of clients and phases, where phases that cannot abort
\* do not get stuck.
THEOREM ImplementsSafely ==
    ASSUME NeverStuck
    PROVE  Spec => Abstract!SafeSpec
  <1>1. Init => Abstract!Init
    <2> SUFFICES ASSUME Init, NEW c \in Clients PROVE Done(c) = 0
      BY DEF Init, Abstract!Init, Done
    <2>1. {p \in Phases : commits[c][p] # <<>>} = {}
      BY DEF Init, EmptyLogs
    <2> QED BY <2>1, FS_EmptySet DEF Done
  <1>2. StrongInv /\ StrongInv' /\ [Next]_vars => [Abstract!Next]_(Abstract!vars)
    BY Simulation
  <1> QED BY <1>1, <1>2, StrongAlways, PTL DEF Spec, Abstract!SafeSpec
=============================================================================
