-------------------------- MODULE ClientPoolProofs --------------------------
(***************************************************************************)
(* Proofs about ClientPool, for any number of launchers, of clients and of  *)
(* failures: how far number_enqueued_clients is from the truth, and how far *)
(* the threads that trust it can go beyond the intended number.             *)
(***************************************************************************)
EXTENDS ClientPool, FiniteSetTheorems, TLAPS

Threads == {Main} \cup Launchers
Places == {"loop", "push", "count", "wait", "log", "done", "failed", "aborted", "final", "end"}
At(p) == {t \in Threads : pc[t] = p}

\* Every variable has its type: the counter is below 2^w, the intended number
\* within its bounds.
TypeOK ==
  /\ number \in 0..SizeT - 1
  /\ queue \in Nat
  /\ running \in [BOOLEAN -> Nat]
  /\ failures \in Nat
  /\ intended \in 1..MaxClients
  /\ stopped \in BOOLEAN
  /\ pc \in [Threads -> Places]
  /\ choose_logging \in [Launchers -> Nat]
  /\ joining \in Nat
  /\ fatals \in Nat /\ spawns \in Nat
  /\ processed \in Nat

\* The counter and the clients differ by what is under way, by what was taken
\* twice, and by how often the counter wrapped round.
Drift == \E wraps \in Int :
           Clients = number + Cardinality(At("count")) + processed + SizeT * wraps

\* FewTooMany, with the clients that a thread has decided to make counted as made.
Decided ==
  Clients + Cardinality(At("push")) <= intended + ParallelFactor + processed

PoolInv == TypeOK /\ Drift /\ Decided

-----------------------------------------------------------------------------
(* Arithmetic of a counter that wraps, and of sets of threads *)

\* Adding a multiple of the modulus changes no remainder.
LEMMA SameRemainder ==
  ASSUME NEW M \in Nat \ {0}, NEW x \in Int, NEW y \in Int, NEW k \in Int, x = y + M * k
  PROVE  x % M = y % M
  <1>1. PICK q \in Int : q = y \div M
    OBVIOUS
  <1>2. PICK r \in 0..M - 1 : r = y % M
    OBVIOUS
  <1>3. y = M * q + r
    BY <1>1, <1>2
  <1>4. PICK j \in Int : j = q + k
    OBVIOUS
  <1>5. M * (q + k) = M * q + M * k
    OBVIOUS
  <1>6. x = M * j + r
    BY <1>3, <1>4, <1>5
  <1>7. (M * j + r) % M = r
    OBVIOUS
  <1> QED BY <1>2, <1>6, <1>7

\* What ++ does to the counter.
LEMMA Incremented ==
  ASSUME NEW M \in Nat \ {0}, NEW n \in 0..M - 1
  PROVE  /\ (n + 1) % M \in 0..M - 1
         /\ (n + 1) % M = n + 1 \/ (n + 1) % M = n + 1 - M
  OBVIOUS

\* What -- does to the counter.
LEMMA Decremented ==
  ASSUME NEW M \in Nat \ {0}, NEW n \in 0..M - 1
  PROVE  /\ (n + M - 1) % M \in 0..M - 1
         /\ (n + M - 1) % M = n - 1 \/ (n + M - 1) % M = n - 1 + M
  OBVIOUS

\* One wrap more, one wrap less.
LEMMA Wraps ==
  ASSUME NEW M \in Nat \ {0}, NEW k \in Int
  PROVE  /\ M * (k + 1) = M * k + M /\ M * (k - 1) = M * k - M
         /\ k >= 1 => M * k >= M
         /\ k <= 0 => M * k <= 0
         /\ M * k \in Int
  OBVIOUS

LEMMA Sizes ==
  /\ ParallelFactor \in Nat \ {0} /\ Starting \in Nat \ {0} /\ MaxClients \in Nat \ {0}
  /\ LogEvery \in Nat \ {0} /\ SizeT \in Nat \ {0}
  /\ FatalErrors \in Nat /\ SpawnErrors \in Nat
  /\ Starting <= MaxClients /\ MaxClients + ParallelFactor < SizeT
  BY PoolAssumption

\* There are ParallelFactor launchers and one thread more.
LEMMA ThreadCount ==
  /\ IsFiniteSet(Threads) /\ Cardinality(Threads) = ParallelFactor + 1
  /\ Cardinality(Launchers) = ParallelFactor
  <1>1. Threads = 0..ParallelFactor /\ ParallelFactor \in Nat /\ ParallelFactor > 0
    BY PoolAssumption DEF Threads, Main, Launchers
  <1> QED BY <1>1, FS_Interval DEF Launchers

\* Threads at a place can be counted, before a step and after it.
LEMMA AtFinite ==
  ASSUME NEW p
  PROVE  /\ IsFiniteSet(At(p)) /\ Cardinality(At(p)) \in Nat
         /\ IsFiniteSet(At(p)') /\ Cardinality(At(p)') \in Nat
  <1>1. At(p) \in SUBSET Threads /\ At(p)' \in SUBSET Threads
    BY DEF At
  <1> QED BY <1>1, ThreadCount, FS_Subset, FS_CardinalityType

\* A thread that goes to p is one more there, and one less where it was.
LEMMA Moved ==
  ASSUME TypeOK, NEW t \in Threads, NEW p, Goto(t, p), NEW q
  PROVE  /\ p = q /\ pc[t] # q => Cardinality(At(q)') = Cardinality(At(q)) + 1
         /\ p # q /\ pc[t] = q => Cardinality(At(q)') = Cardinality(At(q)) - 1
         /\ p # q /\ pc[t] # q => At(q)' = At(q)
  <1>1. pc' = [pc EXCEPT ![t] = p] /\ pc \in [Threads -> Places]
    BY DEF Goto, TypeOK
  <1>2. p = q => At(q)' = At(q) \cup {t}
    BY <1>1 DEF At
  <1>3. p # q => At(q)' = At(q) \ {t}
    BY <1>1 DEF At
  <1>4. t \in At(q) <=> pc[t] = q
    BY DEF At
  <1>5. IsFiniteSet(At(q))
    BY AtFinite
  <1> DEFINE S == At(q)
  <1> HIDE DEF S
  <1>6. /\ Cardinality(S \cup {t}) = IF t \in S THEN Cardinality(S) ELSE Cardinality(S) + 1
        /\ Cardinality(S \ {t}) = IF t \in S THEN Cardinality(S) - 1 ELSE Cardinality(S)
    <2>1. IsFiniteSet(S)
      BY <1>5 DEF S
    <2> QED BY <2>1, FS_AddElement, FS_RemoveElement
  <1>7. p # q /\ pc[t] # q => At(q)' = At(q)
    BY <1>3, <1>4
  <1> QED BY <1>2, <1>3, <1>4, <1>6, <1>7 DEF S

\* A thread elsewhere leaves at most the others to push or count.
LEMMA OthersBusy ==
  ASSUME TypeOK, NEW t \in Threads, pc[t] \notin {"push", "count"}
  PROVE  Cardinality(At("push")) + Cardinality(At("count")) <= ParallelFactor
  <1> DEFINE P == At("push")  C == At("count")
  <1>1. P \cup C \in SUBSET (Threads \ {t}) /\ P \cap C = {}
    BY DEF At
  <1>2. IsFiniteSet(P) /\ IsFiniteSet(C) /\ Cardinality(P) \in Nat /\ Cardinality(C) \in Nat
    BY AtFinite
  <1> HIDE DEF P, C
  <1>3. Cardinality(P \cup C) = Cardinality(P) + Cardinality(C)
    <2>1. Cardinality(P \cup C) = Cardinality(P) + Cardinality(C) - Cardinality(P \cap C)
      BY <1>2, FS_Union, Zenon
    <2>2. Cardinality(P \cap C) = 0
      BY <1>1, FS_EmptySet
    <2> QED BY <1>2, <2>1, <2>2
  <1>4. IsFiniteSet(Threads \ {t}) /\ Cardinality(Threads \ {t}) = ParallelFactor
    <2>1. /\ IsFiniteSet(Threads \ {t})
          /\ Cardinality(Threads \ {t})
               = IF t \in Threads THEN Cardinality(Threads) - 1 ELSE Cardinality(Threads)
      BY ThreadCount, FS_RemoveElement, Zenon
    <2>2. ParallelFactor \in Nat /\ Cardinality(Threads) = ParallelFactor + 1
      BY ThreadCount, PoolAssumption
    <2> QED BY <2>1, <2>2
  <1>5. Cardinality(P \cup C) <= ParallelFactor
    BY <1>1, <1>4, FS_Subset
  <1>6. ParallelFactor \in Nat
    BY PoolAssumption
  <1> QED BY <1>2, <1>3, <1>5, <1>6 DEF P, C

-----------------------------------------------------------------------------
(* The invariant *)

LEMMA PoolInit == Init => PoolInv
  <1> SUFFICES ASSUME Init PROVE PoolInv
    OBVIOUS
  <1>1. TypeOK
    <2>1. pc \in [Threads -> Places] /\ choose_logging \in [Launchers -> Nat]
      BY DEF Init, Threads, Places
    <2>2. number \in 0..SizeT - 1 /\ intended \in 1..MaxClients
      BY Sizes DEF Init
    <2> QED BY <2>1, <2>2, Sizes DEF Init, TypeOK
  <1>2. At("count") = {} /\ At("push") = {}
    BY DEF Init, At, Threads
  <1>3. Cardinality(At("count")) = 0 /\ Cardinality(At("push")) = 0
    BY <1>2, FS_EmptySet
  <1>4. Clients = Starting /\ number = Starting /\ intended = Starting /\ processed = 0
    BY PoolAssumption DEF Init, Clients
  <1>5. Drift
    <2>1. Clients = number + Cardinality(At("count")) + processed + SizeT * 0
      BY <1>3, <1>4, PoolAssumption
    <2> QED BY <2>1 DEF Drift
  <1>6. Decided
    BY <1>3, <1>4, PoolAssumption DEF Decided
  <1> QED BY <1>1, <1>5, <1>6 DEF PoolInv

\* No step takes a variable out of its type.
LEMMA TypeStep ==
  ASSUME TypeOK, [Next]_vars
  PROVE  TypeOK'
  <1> USE Sizes DEF TypeOK, clock, errors
  <1>1. (number + 1) % SizeT \in 0..SizeT - 1 /\ (number + SizeT - 1) % SizeT \in 0..SizeT - 1
    BY Incremented, Decremented
  <1>2. CASE Grow
    BY <1>2 DEF Grow
  <1>9. CASE StopTime
    <2>1. stopped' \in BOOLEAN
      BY <1>9, Zenon DEF StopTime
    <2> QED BY <1>9, <2>1 DEF StopTime
  <1>3. ASSUME NEW log_this \in BOOLEAN, Acts(log_this) \/ ProtocolError(log_this) \/ FatalError(log_this)
        PROVE TypeOK'
    <2>1. running[log_this] \in Nat /\ running[log_this] > 0 /\ running[log_this] - 1 \in Nat
      BY <1>3 DEF Acts, ProtocolError, FatalError
    <2>2. running' = [running EXCEPT ![log_this] = running[log_this] - 1]
      BY <1>3 DEF Acts, ProtocolError, FatalError
    <2>3. running' \in [BOOLEAN -> Nat]
      BY <2>1, <2>2
    <2> QED BY <1>1, <1>3, <2>3 DEF Acts, ProtocolError, FatalError, Decrement
  <1>4. CASE RunTest
    <2>1. joining' \in Nat
      BY <1>4 DEF RunTest, AwaitLauncher, Join, Unwind, AllJoined, LogWritten
    <2>2. pc' \in [Threads -> Places]
      BY <1>4 DEF RunTest, AwaitLauncher, Join, Unwind, AllJoined, LogWritten, Goto, Threads, Places
    <2> QED BY <1>4, <2>1, <2>2
            DEF RunTest, AwaitLauncher, Join, Unwind, AllJoined, LogWritten
  <1>8. CASE ProcessFailure
    BY <1>1, <1>8 DEF ProcessFailure, Decrement
  <1>5. ASSUME NEW l \in Launchers, Launch(l) \/ Dequeue(l) PROVE TypeOK'
    <2>1. (choose_logging[l] + 1) % LogEvery \in Nat
      OBVIOUS
    <2> QED BY <1>5, <2>1 DEF Launch, Dequeue, Goto, Threads, Places
  <1>6. ASSUME NEW t \in Threads, PushClient(t) \/ SpawnFails(t) PROVE TypeOK'
    BY <1>1, <1>6 DEF PushClient, Enqueue, Count, SpawnFails, Increment, Goto, Places
  <1>7. CASE UNCHANGED vars
    BY <1>7 DEF vars
  <1> QED BY <1>2, <1>3, <1>4, <1>5, <1>6, <1>7, <1>8, <1>9 DEF Next, Client, Threads

\* What is added and subtracted below is a natural number.
Natural ==
  /\ Clients \in Nat /\ number \in Nat /\ processed \in Nat /\ intended \in Nat
  /\ queue \in Nat /\ running[TRUE] \in Nat /\ running[FALSE] \in Nat
  /\ intended <= MaxClients

LEMMA Numbers == TypeOK => Natural
  <1> SUFFICES ASSUME TypeOK PROVE Natural
    OBVIOUS
  <1> DEFINE logged == running[TRUE]  unlogged == running[FALSE]
  <1>1. number \in Nat /\ intended \in Nat /\ intended <= MaxClients
    BY Sizes DEF TypeOK
  <1>2. logged \in Nat /\ unlogged \in Nat
    BY DEF TypeOK
  <1>3. processed \in Nat /\ queue \in Nat
    BY DEF TypeOK
  <1>4. Clients = queue + logged + unlogged
    BY DEF Clients
  <1> HIDE DEF logged, unlogged
  <1>5. queue + logged + unlogged \in Nat
    BY <1>2, <1>3
  <1> QED BY <1>1, <1>2, <1>3, <1>4, <1>5 DEF Natural, logged, unlogged

\* The counter keeps its distance from the clients when both change alike, and
\* when it goes round.
LEMMA DriftKept ==
  ASSUME TypeOK, TypeOK', Drift,
         NEW w \in {-1, 0, 1},
         Clients' - number' - Cardinality(At("count")') - processed'
           = Clients - number - Cardinality(At("count")) - processed + w * SizeT
  PROVE  Drift'
  <1>1. PICK wraps \in Int :
          Clients = number + Cardinality(At("count")) + processed + SizeT * wraps
    BY DEF Drift
  <1>2. SizeT * (wraps + w) = SizeT * wraps + w * SizeT
    BY Wraps, PoolAssumption
  <1>3. /\ Cardinality(At("count")) \in Nat /\ Cardinality(At("count")') \in Nat
    BY AtFinite
  <1>4. /\ Clients \in Nat /\ number \in Nat /\ processed \in Nat
        /\ Clients' \in Nat /\ number' \in Nat /\ processed' \in Nat
    <2>1. Natural /\ Natural'
      BY Numbers, PTL
    <2> QED BY <2>1 DEF Natural
  <1>5. SizeT * wraps \in Int /\ w * SizeT \in Int
    BY Sizes
  <1> DEFINE a == SizeT * wraps  b == w * SizeT  e == SizeT * (wraps + w)
  <1>6. a \in Int /\ b \in Int /\ e = a + b /\ Clients = number + Cardinality(At("count")) + processed + a
    BY <1>1, <1>2, <1>5
  <1>7. Clients' - number' - Cardinality(At("count")') - processed'
           = Clients - number - Cardinality(At("count")) - processed + b
    OBVIOUS
  <1> HIDE DEF a, b, e
  <1>8. Clients' = number' + Cardinality(At("count")') + processed' + e
    BY <1>3, <1>4, <1>6, <1>7
  <1> USE DEF e
  <1> QED BY <1>8 DEF Drift

\* A client that ends its run is one of the clients.
LEMMA OneLess ==
  ASSUME TypeOK, NEW log_this \in BOOLEAN, running[log_this] > 0,
         running' = [running EXCEPT ![log_this] = running[log_this] - 1]
  PROVE  /\ queue' = queue => Clients' = Clients - 1
         /\ queue' = queue + 1 => Clients' = Clients
  <1> DEFINE a == running[TRUE]  b == running[FALSE]  c == running'[TRUE]  d == running'[FALSE]
  <1>1. Clients = queue + a + b /\ Clients' = queue' + c + d
    BY DEF Clients
  <1>2. queue \in Nat /\ a \in Nat /\ b \in Nat
    BY Numbers DEF Natural
  <1>3. (c = a - 1 /\ d = b) \/ (c = a /\ d = b - 1)
    <2>1. running \in [BOOLEAN -> Nat]
      BY DEF TypeOK
    <2>2. CASE log_this = TRUE
      BY <2>1, <2>2, Zenon
    <2>3. CASE log_this = FALSE
      BY <2>1, <2>3, Zenon
    <2> QED BY <2>2, <2>3, Zenon
  <1> HIDE DEF a, b, c, d
  <1> QED BY <1>1, <1>2, <1>3

\* A client that a launcher takes from the queue stays one of the clients.
LEMMA OneMoreRuns ==
  ASSUME TypeOK, NEW log_this \in BOOLEAN, queue' = queue - 1,
         running' = [running EXCEPT ![log_this] = running[log_this] + 1]
  PROVE  Clients' = Clients
  <1> DEFINE a == running[TRUE]  b == running[FALSE]  c == running'[TRUE]  d == running'[FALSE]
  <1>1. Clients = queue + a + b /\ Clients' = queue' + c + d
    BY DEF Clients
  <1>2. queue \in Nat /\ a \in Nat /\ b \in Nat
    BY Numbers DEF Natural
  <1>3. (c = a + 1 /\ d = b) \/ (c = a /\ d = b + 1)
    <2>1. running \in [BOOLEAN -> Nat]
      BY DEF TypeOK
    <2>2. CASE log_this = TRUE
      BY <2>1, <2>2, Zenon
    <2>3. CASE log_this = FALSE
      BY <2>1, <2>3, Zenon
    <2> QED BY <2>2, <2>3, Zenon
  <1> HIDE DEF a, b, c, d
  <1> QED BY <1>1, <1>2, <1>3

\* A step of the clock, of a client, of the log: no thread moves.
LEMMA ClientStep ==
  ASSUME PoolInv, TypeOK', Grow \/ StopTime \/ Client \/ ProcessFailure
  PROVE  Drift' /\ Decided'
  <1> DEFINE C == Cardinality(At("count"))  P == Cardinality(At("push"))
  <1>1. TypeOK /\ Drift /\ Decided
    BY DEF PoolInv
  <1>2. /\ number \in 0..SizeT - 1 /\ processed \in Nat /\ intended \in Nat
        /\ queue \in Nat /\ running \in [BOOLEAN -> Nat] /\ C \in Nat /\ P \in Nat
        /\ running[TRUE] \in Nat /\ running[FALSE] \in Nat
    BY <1>1, AtFinite, Numbers DEF TypeOK, Natural
  <1>3. At("count")' = At("count") /\ At("push")' = At("push")
    BY DEF At, Grow, StopTime, Client, Acts, ProtocolError, FatalError, ProcessFailure
  <1>4. (number + SizeT - 1) % SizeT \in {number - 1, number - 1 + SizeT}
    BY <1>2, Decremented, Sizes
  <1> HIDE DEF C, P
  <1>a. /\ intended' \in Nat /\ Clients \in Nat /\ Clients' \in Nat
    <2>1. Natural /\ Natural'
      BY <1>1, Numbers, PTL
    <2> QED BY <2>1 DEF Natural
  <1>5. CASE Grow \/ StopTime
    <2>1. Clients' = Clients /\ number' = number /\ processed' = processed
      BY <1>5 DEF Grow, StopTime, Clients
    <2>2. intended' >= intended
      BY <1>2, <1>5 DEF Grow, StopTime
    <2>3. Drift'
      BY <1>1, <1>3, <2>1 DEF Drift
    <2> QED BY <1>1, <1>2, <1>3, <1>a, <2>1, <2>2, <2>3, Sizes DEF Decided, P
  <1>6. ASSUME NEW log_this \in BOOLEAN, Acts(log_this) PROVE Drift' /\ Decided'
    <2>0. Clients' = Clients
      <3>1. running[log_this] > 0 /\ running' = [running EXCEPT ![log_this] = running[log_this] - 1]
        BY <1>6 DEF Acts
      <3>2. queue' = queue + 1
        BY <1>6 DEF Acts
      <3> QED BY <1>1, <3>1, <3>2, OneLess
    <2>1. Clients' = Clients /\ number' = number /\ processed' = processed /\ intended' = intended
      BY <1>6, <2>0 DEF Acts, clock
    <2>2. Drift'
      BY <1>1, <1>3, <2>1 DEF Drift
    <2> QED BY <1>1, <1>3, <2>1, <2>2 DEF Decided
  <1>7. ASSUME NEW log_this \in BOOLEAN, ProtocolError(log_this) \/ FatalError(log_this)
        PROVE  Drift' /\ Decided'
    <2>1. /\ queue' = queue /\ running[log_this] > 0
          /\ running' = [running EXCEPT ![log_this] = running[log_this] - 1]
      BY <1>7 DEF ProtocolError, FatalError
    <2>2. Clients' = Clients - 1
      BY <1>1, <2>1, OneLess
    <2>3. processed' = processed /\ intended' = intended /\ number' = (number + SizeT - 1) % SizeT
      BY <1>7 DEF ProtocolError, FatalError, Decrement, clock
    <2>4. PICK w \in {-1, 0, 1} :
            Clients' - number' - C - processed' = Clients - number - C - processed + w * SizeT
      BY <1>2, <1>4, <1>a, <2>2, <2>3, Sizes
    <2>5. Drift'
      BY <1>1, <1>3, <2>4, DriftKept DEF C
    <2> QED BY <1>1, <1>2, <1>3, <1>a, <2>2, <2>3, <2>5, Sizes DEF Decided, P
  <1>8. CASE ProcessFailure
    <2>1. Clients' = Clients /\ intended' = intended
      BY <1>8 DEF ProcessFailure, Clients, clock
    <2>2. processed' = processed + 1 /\ number' = (number + SizeT - 1) % SizeT
      BY <1>8 DEF ProcessFailure, Decrement
    <2>3. PICK w \in {-1, 0, 1} :
            Clients' - number' - C - processed' = Clients - number - C - processed + w * SizeT
      BY <1>2, <1>4, <1>a, <2>1, <2>2, Sizes
    <2>4. Drift'
      BY <1>1, <1>3, <2>3, DriftKept DEF C
    <2> QED BY <1>1, <1>2, <1>3, <1>a, <2>1, <2>2, <2>4, Sizes DEF Decided, P
  <1> QED BY <1>5, <1>6, <1>7, <1>8 DEF Client

\* Whoever decides to make a client saw too few: there are not more than the
\* counter says, the others push or count at most one each, and the counter
\* has not wrapped on its way up.
LEMMA DecideStep ==
  ASSUME PoolInv, TypeOK', NEW t \in Threads, pc[t] = "loop", TooFew, Goto(t, "push"),
         UNCHANGED <<number, queue, running, intended, processed>>
  PROVE  Drift' /\ Decided'
  <1> DEFINE C == Cardinality(At("count"))  P == Cardinality(At("push"))
  <1>1. TypeOK /\ Drift /\ Decided
    BY DEF PoolInv
  <1>2. /\ At("count")' = At("count") /\ Cardinality(At("push")') = P + 1
    BY <1>1, Moved
  <1>3. C \in Nat /\ P \in Nat /\ P + C <= ParallelFactor
    BY <1>1, AtFinite, OthersBusy
  <1>4. /\ Clients \in Nat /\ number \in Nat /\ processed \in Nat /\ intended \in Nat
        /\ intended <= MaxClients
    BY <1>1, Numbers DEF Natural
  <1>5. Clients' = Clients
    BY DEF Clients
  <1>6. PICK k \in Int : Clients = number + C + processed + SizeT * k
    BY <1>1 DEF Drift
  <1> DEFINE m == SizeT * k
  <1>7. m \in Int /\ (k >= 1 => m >= SizeT) /\ (k <= 0 => m <= 0)
    BY Wraps, Sizes
  <1>8. Clients = number + C + processed + m /\ (k <= 0 \/ k >= 1)
    BY <1>6
  <1>9. Clients + P <= intended + ParallelFactor + processed
    BY <1>1 DEF Decided
  <1> HIDE DEF C, P, m
  <1>10. m <= 0
    <2>1. ~(m >= SizeT)
      BY <1>3, <1>4, <1>7, <1>8, <1>9, Sizes
    <2> QED BY <1>7, <1>8, <2>1
  <1>11. number < intended
    BY DEF TooFew
  <1>12. Clients + (P + 1) <= intended + ParallelFactor + processed
    BY <1>3, <1>4, <1>7, <1>8, <1>10, <1>11, Sizes
  <1>13. Drift'
    BY <1>1, <1>2, <1>5 DEF Drift
  <1> QED BY <1>2, <1>5, <1>12, <1>13 DEF Decided

\* A step of a thread inside push_client.
LEMMA PushStep ==
  ASSUME PoolInv, TypeOK', NEW t \in Threads, PushClient(t) \/ SpawnFails(t)
  PROVE  Drift' /\ Decided'
  <1> DEFINE C == Cardinality(At("count"))  P == Cardinality(At("push"))
             C1 == Cardinality(At("count")')  P1 == Cardinality(At("push")')
  <1>1. TypeOK /\ Drift /\ Decided
    BY DEF PoolInv
  <1>2. C \in Nat /\ P \in Nat
    BY AtFinite
  <1>3. /\ Clients \in Nat /\ number \in 0..SizeT - 1 /\ processed \in Nat /\ intended \in Nat
        /\ queue \in Nat /\ running[TRUE] \in Nat /\ running[FALSE] \in Nat
    BY <1>1, Numbers DEF Natural, TypeOK
  <1>4. processed' = processed /\ intended' = intended /\ running' = running
    BY DEF PushClient, Enqueue, Count, SpawnFails, clock
  <1>5. Clients + P <= intended + ParallelFactor + processed
    BY <1>1 DEF Decided
  <1>6. CASE Enqueue(t)
    <2>1. C1 = C + 1 /\ P1 = P - 1
      BY <1>1, <1>6, Moved DEF Enqueue
    <2>2. Clients' = Clients + 1 /\ number' = number
      <3> DEFINE a == running[TRUE]  b == running[FALSE]
      <3>1. Clients = queue + a + b /\ Clients' = queue' + a + b /\ a \in Nat /\ b \in Nat
        BY <1>3, <1>4 DEF Clients
      <3>2. queue' = queue + 1 /\ number' = number
        BY <1>6 DEF Enqueue
      <3> HIDE DEF a, b
      <3> QED BY <1>3, <3>1, <3>2
    <2> HIDE DEF C, P, C1, P1
    <2>3. Clients' - number' - C1 - processed' = Clients - number - C - processed + 0 * SizeT
      BY <1>2, <1>3, <1>4, <2>1, <2>2, Sizes
    <2>4. Drift'
      BY <1>1, <2>3, DriftKept DEF C, C1
    <2>5. Clients' + P1 <= intended' + ParallelFactor + processed'
      BY <1>2, <1>3, <1>4, <1>5, <2>1, <2>2, Sizes
    <2> QED BY <2>4, <2>5 DEF Decided, P1
  <1>7. CASE Count(t)
    <2>1. C1 = C - 1 /\ P1 = P
      BY <1>1, <1>7, Moved DEF Count
    <2>2. Clients' = Clients /\ number' = (number + 1) % SizeT
      BY <1>7 DEF Count, Clients, Increment
    <2>3. (number + 1) % SizeT \in {number + 1, number + 1 - SizeT}
      BY <1>3, Incremented, Sizes
    <2> HIDE DEF C, P, C1, P1
    <2>4. PICK w \in {-1, 0, 1} :
            Clients' - number' - C1 - processed' = Clients - number - C - processed + w * SizeT
      BY <1>2, <1>3, <1>4, <2>1, <2>2, <2>3, Sizes
    <2>5. Drift'
      BY <1>1, <2>4, DriftKept DEF C, C1
    <2>6. Clients' + P1 <= intended' + ParallelFactor + processed'
      BY <1>4, <1>5, <2>1, <2>2
    <2> QED BY <2>5, <2>6 DEF Decided, P1
  <1>8. CASE SpawnFails(t)
    <2>1. C1 = C /\ P1 = P - 1
      BY <1>1, <1>8, Moved DEF SpawnFails
    <2>2. Clients' = Clients /\ number' = number
      BY <1>8 DEF SpawnFails, Clients
    <2>3. Drift'
      BY <1>1, <1>4, <2>1, <2>2 DEF Drift
    <2> HIDE DEF P, P1
    <2>4. Clients' + P1 <= intended' + ParallelFactor + processed'
      BY <1>2, <1>3, <1>4, <1>5, <2>1, <2>2, Sizes
    <2> QED BY <2>3, <2>4 DEF Decided, P1
  <1> QED BY <1>6, <1>7, <1>8 DEF PushClient

\* A thread that moves elsewhere changes nothing that is counted.
LEMMA OtherMove ==
  ASSUME PoolInv, NEW t \in Threads, NEW p, Goto(t, p),
         {p, pc[t]} \cap {"push", "count"} = {},
         Clients' = Clients, UNCHANGED <<number, intended, processed>>
  PROVE  Drift' /\ Decided'
  <1>1. TypeOK /\ Drift /\ Decided
    BY DEF PoolInv
  <1>2. At("count")' = At("count") /\ At("push")' = At("push")
    BY <1>1, Moved
  <1>3. Drift'
    BY <1>1, <1>2 DEF Drift
  <1> QED BY <1>1, <1>2, <1>3 DEF Decided

\* A step of the main thread's loop or of a launcher's.
LEMMA LoopStep ==
  ASSUME PoolInv, TypeOK', RunTest \/ \E l \in Launchers : Launch(l) \/ Dequeue(l)
  PROVE  Drift' /\ Decided'
  <1> USE DEF clock
  <1>1. TypeOK /\ Drift /\ Decided /\ Main \in Threads /\ Launchers \subseteq Threads
    BY DEF PoolInv, Threads
  <1>2. CASE AwaitLauncher
    <2>1. CASE TooFew
      BY <1>1, <1>2, <2>1, DecideStep DEF AwaitLauncher
    <2>2. CASE ~TooFew
      BY <1>1, <1>2, <2>2, OtherMove DEF AwaitLauncher, Clients
    <2> QED BY <2>1, <2>2
  <1>3. CASE Join
    <2>1. CASE pc[joining] = "failed"
      BY <1>1, <1>3, <2>1, OtherMove DEF Join, Clients
    <2>2. CASE pc[joining] # "failed"
      <3>1. UNCHANGED <<number, queue, running, intended, processed, pc>>
        BY <1>3, <2>2 DEF Join
      <3> QED BY <1>1, <3>1 DEF Drift, Decided, Clients, At
    <2> QED BY <2>1, <2>2
  <1>4. CASE Unwind \/ AllJoined \/ LogWritten
    BY <1>1, <1>4, OtherMove DEF Unwind, AllJoined, LogWritten, Clients
  <1>5. ASSUME NEW l \in Launchers, Launch(l) PROVE Drift' /\ Decided'
    <2>1. CASE ~stopped /\ TooFew
      BY <1>1, <1>5, <2>1, DecideStep DEF Launch
    <2>2. CASE stopped \/ ~TooFew
      BY <1>1, <1>5, <2>2, OtherMove DEF Launch, Clients
    <2> QED BY <2>1, <2>2
  <1>6. ASSUME NEW l \in Launchers, Dequeue(l) PROVE Drift' /\ Decided'
    <2>1. PICK log_this \in BOOLEAN : log_this = (choose_logging[l] = 0)
      BY Zenon
    <2>2. running' = [running EXCEPT ![log_this] = running[log_this] + 1]
      BY <1>6, <2>1, Zenon DEF Dequeue
    <2>3. queue' = queue - 1
      BY <1>6 DEF Dequeue
    <2>4. Clients' = Clients
      BY <1>1, <2>2, <2>3, OneMoreRuns
    <2> QED BY <1>1, <1>6, <2>4, OtherMove DEF Dequeue
  <1> QED BY <1>2, <1>3, <1>4, <1>5, <1>6 DEF RunTest

\* PoolInv is inductive.
LEMMA PoolAlways == Spec => []PoolInv
  <1>1. PoolInv /\ [Next]_vars => PoolInv'
    <2> SUFFICES ASSUME PoolInv, [Next]_vars PROVE PoolInv'
      OBVIOUS
    <2>1. TypeOK'
      BY TypeStep DEF PoolInv
    <2>2. CASE Grow \/ StopTime \/ Client \/ ProcessFailure
      BY <2>1, <2>2, ClientStep DEF PoolInv
    <2>3. CASE RunTest \/ \E l \in Launchers : Launch(l) \/ Dequeue(l)
      BY <2>1, <2>3, LoopStep DEF PoolInv
    <2>4. CASE \E t \in {Main} \cup Launchers : PushClient(t) \/ SpawnFails(t)
      BY <2>1, <2>4, PushStep DEF PoolInv, Threads
    <2>5. CASE UNCHANGED vars
      BY <2>1, <2>5 DEF vars, PoolInv, Drift, Decided, Clients, At
    <2> QED BY <2>2, <2>3, <2>4, <2>5 DEF Next
  <1> QED BY <1>1, PoolInit, PTL DEF Spec

\* However many threads make clients and however clients fail, the counter is,
\* modulo 2^w, the number of clients less those being counted and less one for
\* each failure that process_results took from it a second time.
THEOREM CounterDrift == Spec => []DriftIsFailures
  <1>1. PoolInv => DriftIsFailures
    <2> SUFFICES ASSUME PoolInv PROVE DriftIsFailures
      OBVIOUS
    <2> DEFINE C == Cardinality(At("count"))
    <2>1. C \in Nat /\ Counting = At("count")
      BY AtFinite DEF Counting, At, Threads
    <2>2. Clients \in Nat /\ number \in Nat /\ processed \in Nat
      BY Numbers DEF PoolInv, Natural
    <2>3. PICK k \in Int : Clients = number + C + processed + SizeT * k
      BY DEF PoolInv, Drift
    <2> HIDE DEF C
    <2> DEFINE counted == number + C + processed
    <2>4. counted \in Int /\ Clients \in Int /\ Clients = counted + SizeT * k
      BY <2>1, <2>2, <2>3
    <2> HIDE DEF counted
    <2>5. Clients % SizeT = counted % SizeT
      BY <2>4, SameRemainder, Sizes, Zenon
    <2> QED BY <2>1, <2>5 DEF DriftIsFailures, C, counted
  <1> QED BY <1>1, PoolAlways, PTL

\* The race of check and push makes at most one client too many for each
\* launcher, and each failure counted twice one more.
THEOREM OvershootBounded == Spec => []FewTooMany
  <1>1. PoolInv => FewTooMany
    <2> SUFFICES ASSUME PoolInv PROVE FewTooMany
      OBVIOUS
    <2> DEFINE P == Cardinality(At("push"))
    <2>1. P \in Nat /\ Cardinality(Launchers) = ParallelFactor
      BY AtFinite, ThreadCount
    <2>2. Clients \in Nat /\ intended \in Nat /\ processed \in Nat
      BY Numbers DEF PoolInv, Natural
    <2>3. Clients + P <= intended + ParallelFactor + processed
      BY DEF PoolInv, Decided
    <2> HIDE DEF P
    <2> QED BY <2>1, <2>2, <2>3, Sizes DEF FewTooMany
  <1> QED BY <1>1, PoolAlways, PTL
=============================================================================
