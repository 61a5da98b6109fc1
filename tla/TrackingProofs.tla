--------------------------- MODULE TrackingProofs ---------------------------
(***************************************************************************)
(* Proofs about Tracking, for any number of writers, readers and nonces:    *)
(* what metadata and tombstones stand for.                                  *)
(***************************************************************************)
EXTENDS Tracking, TLAPS

Steps == {"top", "strong", "causal", "done", "aborted", "stopped", "hunt", "polling"}

\* Every variable of the stores, the writers and the readers has its type; a
\* writer that has begun has a nonce, and what is shipped is done.
TypeOK ==
  /\ strong \in [val : Writers \cup {None}, meta : Nonces \cup {None}, tombs : SUBSET Nonces]
  /\ causal \in [Replicas -> [applied : SUBSET Writers, tombs : SUBSET Nonces]]
  /\ shipping \in Seq(Writers)
  /\ nonce \in [Writers -> Nonces \cup {None}]
  /\ pc \in [Writers \cup Readers -> Steps]
  /\ saw \in [Readers -> Writers \cup {None}]
  /\ got \in [Readers -> SUBSET Writers]
  /\ obligations \in [Readers -> SUBSET Nonces]
  /\ observed \in [Readers -> SUBSET Nonces]
  /\ failures \in Nat
  /\ \A w \in Writers : pc[w] # "top" => nonce[w] \in Nonces
  /\ \A i \in 1..Len(shipping) : pc[shipping[i]] = "done"

\* The writer's strong phase has committed.
Committed(w) == pc[w] \in {"causal", "done", "stopped"}

\* A committed strong phase owns its nonce: it is among the tombstones of the
\* strong store, and no other committed transaction has it.
NoncesOwned ==
  /\ \A w \in Writers : Committed(w) => nonce[w] \in strong.tombs
  /\ \A w, v \in Writers : Committed(w) /\ Committed(v) /\ nonce[w] = nonce[v] => w = v

\* The strong object is as one committed phase left it.
ObjectCommitted ==
  /\ strong.val \in Writers => Committed(strong.val)
  /\ MetadataNamesWriter

\* A tombstone comes to a replica together with the transaction that wrote it,
\* and never before that transaction is done.
TombstoneOf(r, n) == \E w \in Writers : pc[w] = "done" /\ nonce[w] = n /\ w \in causal[r].applied
TombstonesShipped == \A r \in Replicas : \A n \in causal[r].tombs : TombstoneOf(r, n)

StoreInv == TypeOK /\ NoncesOwned /\ ObjectCommitted /\ TombstonesShipped

-----------------------------------------------------------------------------
(* Types *)

\* Types hold before the first transaction.
LEMMA TypeInit == Init => TypeOK
<1> SUFFICES ASSUME Init PROVE TypeOK
  OBVIOUS
<1>1. shipping \in Seq(Writers) BY DEF Init
<1>2. causal \in [Replicas -> [applied : SUBSET Writers, tombs : SUBSET Nonces]] BY DEF Init
<1>3. strong \in [val : Writers \cup {None}, meta : Nonces \cup {None}, tombs : SUBSET Nonces] BY DEF Init
<1> QED BY <1>1, <1>2, <1>3 DEF Init, TypeOK, Steps

\* Every step of a writer, the replication or a reader keeps the types.
LEMMA TypeStep == TypeOK /\ [Next]_vars => TypeOK'
<1> SUFFICES ASSUME TypeOK, [Next]_vars PROVE TypeOK'
  OBVIOUS
<1> USE TrackingAssumption DEF TypeOK, Steps, Goto, stores, readers
<1>0. \A i \in 1..Len(shipping) : shipping[i] \in Writers
  OBVIOUS
<1>1. ASSUME NEW w \in Writers, GenerateTombstone(w) PROVE TypeOK'
  BY <1>0, <1>1 DEF GenerateTombstone
<1>2. ASSUME NEW w \in Writers, StrongPhase(w) PROVE TypeOK'
  <2>1. nonce[w] \in Nonces
    BY <1>2 DEF StrongPhase
  <2>2. strong'.val \in Writers /\ strong'.meta \in Nonces \cup {None} /\ strong'.tombs \in SUBSET Nonces
    BY <1>2, <2>1 DEF StrongPhase, MetadataAfter, existing_tombstone_trk, new_tomb_trk
  <2>3. strong' = [val |-> strong'.val, meta |-> strong'.meta, tombs |-> strong'.tombs]
    BY <1>2 DEF StrongPhase
  <2>4. strong' \in [val : Writers \cup {None}, meta : Nonces \cup {None}, tombs : SUBSET Nonces]
    BY <2>2, <2>3
  <2> QED BY <1>0, <1>2, <2>4 DEF StrongPhase
<1>3. ASSUME NEW w \in Writers, StrongAborts(w) PROVE TypeOK'
  BY <1>0, <1>3 DEF StrongAborts
<1>4. ASSUME NEW w \in Writers, CausalPhase(w) PROVE TypeOK'
  <2>1. nonce[w] \in Nonces
    BY <1>4 DEF CausalPhase
  <2>2. /\ shipping' \in Seq(Writers) /\ Len(shipping') = Len(shipping) + 1 /\ Len(shipping) \in Nat
        /\ shipping'[Len(shipping) + 1] = w
        /\ \A i \in 1..Len(shipping) : shipping'[i] = shipping[i]
    BY <1>4 DEF CausalPhase
  <2>3. \A i \in 1..Len(shipping') : pc'[shipping'[i]] = "done"
    <3> TAKE i \in 1..Len(shipping')
    <3>1. CASE i = Len(shipping) + 1 BY <1>4, <2>2, <3>1 DEF CausalPhase
    <3>2. CASE i \in 1..Len(shipping) BY <1>0, <1>4, <2>2, <3>2 DEF CausalPhase
    <3> QED BY <2>2, <3>1, <3>2
  <2>4. causal' \in [Replicas -> [applied : SUBSET Writers, tombs : SUBSET Nonces]]
    <3>1. causal["Home"].applied \cup {w} \in SUBSET Writers /\ causal["Home"].tombs \cup {nonce[w]} \in SUBSET Nonces
      BY <2>1 DEF Replicas
    <3> QED BY <1>4, <3>1 DEF CausalPhase, new_tomb_trk
  <2> QED BY <1>4, <2>2, <2>3, <2>4 DEF CausalPhase
<1>5. ASSUME NEW w \in Writers, WriterStops(w) PROVE TypeOK'
  BY <1>0, <1>5 DEF WriterStops
<1>6. CASE Replicate
  <2>1. /\ Head(shipping) \in Writers /\ nonce[Head(shipping)] \in Nonces
        /\ Tail(shipping) \in Seq(Writers) /\ Len(Tail(shipping)) = Len(shipping) - 1
        /\ \A i \in 1..Len(Tail(shipping)) : Tail(shipping)[i] = shipping[i + 1] /\ i + 1 \in 1..Len(shipping)
    <3>1. Len(shipping) \in Nat \ {0} /\ Head(shipping) = shipping[1]
      BY <1>6 DEF Replicate
    <3>2. 1 \in 1..Len(shipping) BY <3>1
    <3>3. pc[shipping[1]] = "done" /\ shipping[1] \in Writers BY <1>0, <3>2
    <3> QED BY <1>6, <3>1, <3>3 DEF Replicate
  <2>2. \A i \in 1..Len(shipping') : pc'[shipping'[i]] = "done"
    BY <1>6, <2>1 DEF Replicate
  <2>3. causal' \in [Replicas -> [applied : SUBSET Writers, tombs : SUBSET Nonces]]
    <3> DEFINE w == Head(shipping)
    <3>1. causal["Away"].applied \cup {w} \in SUBSET Writers /\ causal["Away"].tombs \cup {nonce[w]} \in SUBSET Nonces
      BY <2>1 DEF Replicas
    <3> QED BY <1>6, <3>1 DEF Replicate
  <2> QED BY <1>6, <2>1, <2>2, <2>3 DEF Replicate
<1>7. ASSUME NEW r \in Readers, ReadStrong(r) PROVE TypeOK'
  <2>1. SetPhaseAfter(r, Encountered) \in SUBSET Nonces
    BY DEF SetPhaseAfter, Encountered
  <2>2. strong.val \in Writers \cup {None}
    OBVIOUS
  <2> QED BY <1>0, <1>7, <2>1, <2>2 DEF ReadStrong
<1>8. ASSUME NEW r \in Readers, FindTombstones(r) PROVE TypeOK'
  BY <1>0, <1>8 DEF FindTombstones
<1>9. ASSUME NEW r \in Readers, ReadCausal(r) PROVE TypeOK'
  BY <1>0, <1>9 DEF ReadCausal, Replicas
<1>10. ASSUME NEW r \in Readers, LosesPhase(r) PROVE TypeOK'
  BY <1>0, <1>10 DEF LosesPhase
<1>11. ASSUME NEW r \in Readers, Again(r) PROVE TypeOK'
  BY <1>0, <1>11 DEF Again
<1>12. CASE UNCHANGED vars
  BY <1>12 DEF vars
<1> QED BY <1>1, <1>2, <1>3, <1>4, <1>5, <1>6, <1>7, <1>8, <1>9, <1>10, <1>11, <1>12 DEF Next

-----------------------------------------------------------------------------
(* The stores *)

\* What the steps of readers leave alone.
LEMMA ReadersOnlyRead ==
  ASSUME TypeOK, NEW r \in Readers,
         ReadStrong(r) \/ FindTombstones(r) \/ ReadCausal(r) \/ LosesPhase(r) \/ Again(r)
  PROVE  /\ strong' = strong /\ causal' = causal /\ nonce' = nonce
         /\ \A w \in Writers : pc'[w] = pc[w]
BY TrackingAssumption
   DEF TypeOK, ReadStrong, FindTombstones, ReadCausal, LosesPhase, Again, Goto, stores, readers

\* Steps that change neither the stores nor a nonce in use, and end no
\* committed transaction, keep what the stores hold.
LEMMA StoreInvKept ==
  ASSUME StoreInv, TypeOK',
         strong' = strong, causal' = causal,
         \A w \in Writers : pc[w] # "top" => nonce'[w] = nonce[w],
         \A w \in Writers : Committed(w)' => Committed(w),
         \A w \in Writers : Committed(w) => Committed(w)',
         \A w \in Writers : pc[w] = "done" => pc'[w] = "done"
  PROVE  StoreInv'
<1>0. \A w \in Writers : Committed(w) => pc[w] # "top" BY DEF Committed
<1>1. NoncesOwned' BY <1>0 DEF StoreInv, NoncesOwned
<1>2. ObjectCommitted' BY <1>0 DEF StoreInv, ObjectCommitted, MetadataNamesWriter
<1>3. TombstonesShipped' BY DEF StoreInv, TombstonesShipped, TombstoneOf
<1> QED BY <1>1, <1>2, <1>3 DEF StoreInv

\* Every step keeps what the stores hold.
LEMMA StoreStep == StoreInv /\ [Next]_vars => StoreInv'
<1> SUFFICES ASSUME StoreInv, [Next]_vars PROVE StoreInv'
  OBVIOUS
<1>0. TypeOK /\ TypeOK' BY TypeStep DEF StoreInv
<1> USE TrackingAssumption DEF Goto, stores, readers
<1>1. ASSUME NEW w \in Writers, GenerateTombstone(w) \/ StrongAborts(w) \/ WriterStops(w) PROVE StoreInv'
  <2>1. /\ strong' = strong /\ causal' = causal
        /\ \A v \in Writers : pc[v] # "top" => nonce'[v] = nonce[v]
    BY <1>0, <1>1 DEF GenerateTombstone, StrongAborts, WriterStops, TypeOK
  <2>2. \A v \in Writers : /\ Committed(v)' <=> Committed(v)
                           /\ pc[v] = "done" => pc'[v] = "done"
    BY <1>0, <1>1 DEF GenerateTombstone, StrongAborts, WriterStops, TypeOK, Committed
  <2> QED BY <1>0, <2>1, <2>2, StoreInvKept
<1>2. ASSUME NEW w \in Writers, StrongPhase(w) PROVE StoreInv'
  <2>1. /\ causal' = causal /\ nonce' = nonce /\ nonce[w] \notin strong.tombs /\ pc[w] = "strong"
        /\ strong'.val = w /\ strong'.meta = MetadataAfter(w) /\ strong'.tombs = strong.tombs \cup {nonce[w]}
        /\ pc'[w] = "causal" /\ \A v \in Writers : v # w => pc'[v] = pc[v]
    BY <1>0, <1>2 DEF StrongPhase, TypeOK, NameIsFree, exists_trk, new_tomb_trk
  <2>2. NoncesOwned'
    BY <2>1 DEF StoreInv, NoncesOwned, Committed
  <2>3. ObjectCommitted'
    BY <2>1 DEF ObjectCommitted, MetadataNamesWriter, MetadataAfter, Committed
  <2>4. TombstonesShipped'
    BY <2>1 DEF StoreInv, TombstonesShipped, TombstoneOf
  <2> QED BY <1>0, <2>2, <2>3, <2>4 DEF StoreInv
<1>3. ASSUME NEW w \in Writers, CausalPhase(w) PROVE StoreInv'
  <2>1. /\ strong' = strong /\ nonce' = nonce /\ pc[w] = "causal" /\ pc'[w] = "done"
        /\ \A v \in Writers : v # w => pc'[v] = pc[v]
        /\ causal'["Home"].applied = causal["Home"].applied \cup {w}
        /\ causal'["Home"].tombs = causal["Home"].tombs \cup {nonce[w]}
        /\ causal'["Away"] = causal["Away"]
    BY <1>0, <1>3 DEF CausalPhase, TypeOK, new_tomb_trk, Replicas
  <2>2. NoncesOwned' /\ ObjectCommitted'
    BY <2>1 DEF StoreInv, NoncesOwned, ObjectCommitted, MetadataNamesWriter, Committed
  <2>3. ASSUME NEW n \in causal'["Home"].tombs PROVE TombstoneOf("Home", n)'
    <3>1. CASE n = nonce[w] BY <2>1, <3>1 DEF TombstoneOf
    <3>2. CASE n \in causal["Home"].tombs
      <4>1. TombstoneOf("Home", n) BY <3>2 DEF StoreInv, TombstonesShipped, Replicas
      <4> QED BY <2>1, <4>1 DEF TombstoneOf
    <3> QED BY <2>1, <3>1, <3>2
  <2>4. ASSUME NEW n \in causal'["Away"].tombs PROVE TombstoneOf("Away", n)'
    <3>1. TombstoneOf("Away", n) BY <2>1, <2>4 DEF StoreInv, TombstonesShipped, Replicas
    <3> QED BY <2>1, <3>1 DEF TombstoneOf
  <2>5. TombstonesShipped' BY <2>3, <2>4 DEF TombstonesShipped, Replicas
  <2> QED BY <1>0, <2>2, <2>5 DEF StoreInv
<1>4. CASE Replicate
  <2>1. PICK w \in Writers : w = Head(shipping) /\ pc[w] = "done"
    <3>1. Len(shipping) \in Nat \ {0} /\ Head(shipping) = shipping[1] /\ Head(shipping) \in Writers
      BY <1>0, <1>4 DEF Replicate, TypeOK
    <3>2. 1 \in 1..Len(shipping) BY <3>1
    <3> QED BY <1>0, <3>1, <3>2 DEF TypeOK
  <2>2. /\ strong' = strong /\ nonce' = nonce /\ pc' = pc
        /\ causal'["Away"].applied = causal["Away"].applied \cup {w}
        /\ causal'["Away"].tombs = causal["Away"].tombs \cup {nonce[w]}
        /\ causal'["Home"] = causal["Home"]
    BY <1>0, <1>4, <2>1 DEF Replicate, TypeOK, Replicas
  <2>3. NoncesOwned' /\ ObjectCommitted'
    BY <2>2 DEF StoreInv, NoncesOwned, ObjectCommitted, MetadataNamesWriter, Committed
  <2>4. ASSUME NEW n \in causal'["Away"].tombs PROVE TombstoneOf("Away", n)'
    <3>1. CASE n = nonce[w] BY <2>1, <2>2, <3>1 DEF TombstoneOf
    <3>2. CASE n \in causal["Away"].tombs
      <4>1. TombstoneOf("Away", n) BY <3>2 DEF StoreInv, TombstonesShipped, Replicas
      <4> QED BY <2>2, <4>1 DEF TombstoneOf
    <3> QED BY <2>2, <3>1, <3>2
  <2>5. ASSUME NEW n \in causal'["Home"].tombs PROVE TombstoneOf("Home", n)'
    <3>1. TombstoneOf("Home", n) BY <2>2, <2>5 DEF StoreInv, TombstonesShipped, Replicas
    <3> QED BY <2>2, <3>1 DEF TombstoneOf
  <2>6. TombstonesShipped' BY <2>4, <2>5 DEF TombstonesShipped, Replicas
  <2> QED BY <1>0, <2>3, <2>6 DEF StoreInv
<1>5. ASSUME NEW r \in Readers,
             ReadStrong(r) \/ FindTombstones(r) \/ ReadCausal(r) \/ LosesPhase(r) \/ Again(r)
      PROVE  StoreInv'
  <2>1. strong' = strong /\ causal' = causal /\ nonce' = nonce /\ \A w \in Writers : pc'[w] = pc[w]
    BY <1>0, <1>5, ReadersOnlyRead
  <2>2. \A w \in Writers : Committed(w)' <=> Committed(w) BY <2>1 DEF Committed
  <2> QED BY <1>0, <2>1, <2>2, StoreInvKept
<1>6. CASE UNCHANGED vars
  <2>1. \A w \in Writers : Committed(w)' <=> Committed(w) BY <1>6 DEF vars, Committed
  <2> QED BY <1>0, <1>6, <2>1, StoreInvKept DEF vars
<1> QED BY <1>1, <1>2, <1>3, <1>4, <1>5, <1>6 DEF Next

\* The stores are empty at first.
LEMMA StoreInit == Init => StoreInv
BY TypeInit, TrackingAssumption
   DEF Init, StoreInv, NoncesOwned, ObjectCommitted, MetadataNamesWriter, TombstonesShipped, Committed, Replicas

-----------------------------------------------------------------------------
(* Theorems *)

\* Types, and what the stores hold.
LEMMA StoresAlways == Spec => []StoreInv
<1>1. Init => StoreInv BY StoreInit
<1>2. StoreInv /\ [Next]_vars => StoreInv' BY StoreStep
<1> QED BY <1>1, <1>2, PTL DEF Spec

\* accompanyWrite: the nonce beside a strong object is that of the transaction
\* that assigned it last, whatever else committed, aborted or stopped.
THEOREM MetadataIsWriters == Spec => []MetadataNamesWriter
<1>1. StoreInv => MetadataNamesWriter BY DEF StoreInv, ObjectCommitted
<1> QED BY <1>1, StoresAlways, PTL

\* writeTombstone: at either replica, a tombstone vouches for the causal writes
\* of the finished transaction of its name.
THEOREM TombstonesCarryWrites == Spec => []TombstoneCarriesWrites
<1>1. StoreInv => TombstoneCarriesWrites
  <2> SUFFICES ASSUME StoreInv, NEW r \in Replicas, NEW w \in Writers,
                      pc[w] = "done", nonce[w] \in causal[r].tombs
               PROVE  w \in causal[r].applied
    BY DEF TombstoneCarriesWrites
  <2>1. PICK v \in Writers : pc[v] = "done" /\ nonce[v] = nonce[w] /\ v \in causal[r].applied
    BY DEF StoreInv, TombstonesShipped, TombstoneOf
  <2>2. v = w BY <2>1 DEF StoreInv, NoncesOwned, Committed
  <2> QED BY <2>1, <2>2
<1> QED BY <1>1, StoresAlways, PTL

\* The causal phase's endless retry never meets a TombNameCollision: the nonce
\* of a transaction that got so far is nobody else's.
THEOREM CausalNameIsFree == Spec => []NoCollisionLeft
<1>1. StoreInv => NoCollisionLeft
  <2> SUFFICES ASSUME StoreInv, NEW w \in Writers, pc[w] = "causal", nonce[w] \in causal["Home"].tombs
               PROVE  FALSE
    BY DEF NoCollisionLeft
  <2>1. PICK v \in Writers : pc[v] = "done" /\ nonce[v] = nonce[w]
    BY DEF StoreInv, TombstonesShipped, TombstoneOf, Replicas
  <2>2. v = w BY <2>1 DEF StoreInv, NoncesOwned, Committed
  <2> QED BY <2>1, <2>2
<1> QED BY <1>1, StoresAlways, PTL
=============================================================================
