---------------------------- MODULE PonyQProofs ----------------------------
(***************************************************************************)
(* Proofs about PonyQ, for any nodes, threads and users.  The nodes from    *)
(* the sentinel to the tail are a chain: c[lo] to c[hi], each linked to the *)
(* next or about to be.  A push makes it longer at hi, a pop shorter at lo. *)
(* The last part is about the returning queue when one thread shares it     *)
(* with the consumer: a node of the chain is then in nobody's hands.        *)
(***************************************************************************)
EXTENDS PonyQ, Integers, TLAPS, WellFoundedInduction, FiniteSetTheorems

Refs == Nodes \cup {Null}
PusherPcs == {"idle", "exchange", "link", "returning", "cas", "inuse"}
Pcs == PusherPcs \cup {"release", "released", "drain", "closed"}
Frames == [pc : Pcs, node : Refs, prev : Refs, cand : Refs]
Pushing(t) == thr[t].pc \in {"exchange", "link"}

\* What a thread may be doing, and with which manager.
ThreadOf(t) ==
    /\ thr[t].pc \notin {"idle", "drain", "closed"} => thr[t].node \in Nodes
    /\ thr[t].pc = "link" => thr[t].prev \in Nodes
    /\ t # Consumer => thr[t].pc \in PusherPcs
    /\ manager = "general" => /\ t = Consumer => thr[t].pc \in {"idle", "drain", "closed"}
                              /\ t # Consumer => thr[t].pc \in {"idle", "exchange", "link"}
    /\ manager = "returning" => thr[t].pc \notin {"drain", "closed"}

\* Every variable has its type, and the threads are where the manager lets them be.
TypeOK ==
    /\ manager \in Managers /\ buffers \in BOOLEAN
    /\ next \in [Nodes -> Refs] /\ tail \in Nodes /\ sentinel \in Nodes /\ head \in Refs
    /\ isExtra \in BOOLEAN /\ (isExtra => head # Null)
    /\ live \in SUBSET Nodes
    /\ location \in [Nodes -> {"queue", "outside"}] /\ ready \in SUBSET Nodes
    /\ buffered \in SUBSET [thread : Threads, field : {"ready", "location"}, node : Nodes]
    /\ thr \in [Threads -> Frames] /\ (\A t \in Threads : ThreadOf(t))
    /\ held \in [Nodes -> Nat]

\* Who has looked at neither flag too early to see that it must push n.
Handled(n) == \E t \in Threads : thr[t].node = n /\ thr[t].pc \in {"returning", "released", "cas"}

\* Without store buffers, a node that is returned and outside is in the hands of
\* a thread that will see so.
HandledInv ==
    ~buffers => buffered = {} /\ \A n \in ready : location[n] = "outside" => Handled(n)

\* The returning queue frees nothing that anything refers to.
KeptInv ==
    manager = "returning" =>
      /\ {sentinel, tail, head} \subseteq live \cup {Null}
      /\ \A n \in Nodes : next[n] \in live \cup {Null} /\ (held[n] > 0 => n \in live)
      /\ \A t \in Threads : {thr[t].node, thr[t].prev, thr[t].cand} \subseteq live \cup {Null}

---------------------------------------------------------------------------
(* The chain *)

Chained(c, lo, hi) == {c[i] : i \in lo..hi}
Linking(t, m, n) == thr[t].pc = "link" /\ thr[t].prev = m /\ thr[t].node = n

\* Two nodes of the chain are linked, or one thread is about to link them.
Joined(m, n) ==
    \/ next[m] = n /\ \A t \in Threads : thr[t].pc = "link" => thr[t].prev # m
    \/ next[m] = Null /\ \E t \in Threads : Linking(t, m, n)

\* Nodes that are no part of the chain: pushes that have not exchanged the
\* tail, and an extra head.
Apart(n) == (\E t \in Threads : thr[t].pc = "exchange" /\ thr[t].node = n) \/ (isExtra /\ head = n)

ChainAt(c, lo, hi) ==
    /\ lo <= hi /\ c[lo] = sentinel /\ c[hi] = tail /\ next[tail] = Null
    /\ \A i, j \in lo..hi : c[i] = c[j] => i = j
    /\ \A i \in lo..(hi - 1) : Joined(c[i], c[i + 1])
    /\ \A t \in Threads : thr[t].pc = "link" => \E i \in lo..(hi - 1) : Linking(t, c[i], c[i + 1])
    /\ \A t, u \in Threads : Pushing(t) /\ Pushing(u) /\ thr[t].node = thr[u].node => t = u
    /\ \A n \in Nodes : Apart(n) => n \notin Chained(c, lo, hi)
    /\ isExtra => \A t \in Threads : thr[t].pc = "exchange" => thr[t].node # head
    /\ ~isExtra => head \in {Null, sentinel}

\* What is allocated: the chain and what is apart from it, and after the
\* destructor nothing.
Owned(c, lo, hi) ==
    IF thr[Consumer].pc = "closed"
    THEN live = {} /\ lo = hi /\ head = Null /\ \A t \in Pushers : thr[t].pc = "idle"
    ELSE live = Chained(c, lo, hi) \cup {n \in Nodes : Apart(n)}

ChainInv ==
    manager = "general" =>
      \E c \in [Nat -> Nodes], lo \in Nat, hi \in Nat : ChainAt(c, lo, hi) /\ Owned(c, lo, hi)

---------------------------------------------------------------------------
(* What the steps do to the threads *)

Moved(t) == \A u \in Threads \ {t} : thr'[u] = thr[u]
Framed(t, pc, node, prev, cand) ==
    thr'[t].pc = pc /\ thr'[t].node = node /\ thr'[t].prev = prev /\ thr'[t].cand = cand

\* The users' counts when the node is given to one more of them.
Given(node) == [n \in Nodes |-> IF n = node THEN held[n] + 1 ELSE held[n]]

LEMMA Constants ==
    /\ Consumer \in Threads /\ Pushers \subseteq Threads /\ Consumer \notin Pushers
    /\ \A t \in Threads : t # Consumer <=> t \in Pushers
    /\ Null \notin Nodes /\ Users \subseteq Pushers
    /\ \A m \in Managers : m = "general" \/ m = "returning"
  BY QueueAssumption DEF Threads

LEMMA SetThr ==
    ASSUME TypeOK, NEW t \in Threads, NEW f \in Frames, thr' = [thr EXCEPT ![t] = f]
    PROVE  thr' \in [Threads -> Frames] /\ thr'[t] = f /\ Moved(t)
  BY DEF TypeOK, Moved

LEMMA GotoDoes ==
    ASSUME TypeOK, NEW t \in Threads, NEW pc \in Pcs, Goto(t, pc)
    PROVE  thr' \in [Threads -> Frames] /\ Moved(t) /\ Framed(t, pc, thr[t].node, thr[t].prev, thr[t].cand)
  <1> DEFINE f == [thr[t] EXCEPT !.pc = pc]
  <1>1. thr[t] \in Frames
    BY DEF TypeOK
  <1>2. f \in Frames /\ f.pc = pc /\ f.node = thr[t].node /\ f.prev = thr[t].prev /\ f.cand = thr[t].cand
    BY <1>1 DEF Frames
  <1>3. thr' = [thr EXCEPT ![t] = f]
    BY DEF Goto
  <1> HIDE DEF f
  <1> QED BY <1>2, <1>3, SetThr DEF Framed

LEMMA IdleFrame ==
    /\ Idle \in Frames /\ Idle.pc = "idle" /\ Idle.node = Null /\ Idle.prev = Null /\ Idle.cand = Null
  BY DEF Idle, Frames, Refs, Pcs, PusherPcs

LEMMA ReturnDoes ==
    ASSUME TypeOK, NEW t \in Threads, Return(t)
    PROVE  /\ thr' \in [Threads -> Frames] /\ Moved(t) /\ Framed(t, "idle", Null, Null, Null)
           /\ held' \in [Nodes -> Nat] /\ held' = Given(thr[t].cand)
           /\ \A n \in Nodes : held'[n] > 0 => held[n] > 0 \/ n = thr[t].cand
  <1>1. thr' = [thr EXCEPT ![t] = Idle]
    BY DEF Return
  <1>2. held' = [n \in Nodes |-> IF n = thr[t].cand THEN held[n] + 1 ELSE held[n]] /\ held \in [Nodes -> Nat]
    BY DEF Return, TypeOK
  <1>3. thr' \in [Threads -> Frames] /\ Moved(t) /\ Framed(t, "idle", Null, Null, Null)
    BY <1>1, IdleFrame, SetThr DEF Framed
  <1> QED BY <1>2, <1>3 DEF Given

LEMMA NewFrame ==
    ASSUME TypeOK, NEW t \in Threads, NEW n \in Nodes, NEW pc \in Pcs,
           thr' = [thr EXCEPT ![t] = [Idle EXCEPT !.pc = pc, !.node = n]]
    PROVE  thr' \in [Threads -> Frames] /\ Moved(t) /\ Framed(t, pc, n, Null, Null)
  <1> DEFINE f == [Idle EXCEPT !.pc = pc, !.node = n]
  <1> DEFINE g == [[Idle EXCEPT !.pc = pc] EXCEPT !.node = n]
  <1>1. g \in Frames /\ g.pc = pc /\ g.node = n /\ g.prev = Null /\ g.cand = Null
    BY IdleFrame DEF Frames, Refs
  <1>2. f \in Frames /\ f.pc = pc /\ f.node = n /\ f.prev = Null /\ f.cand = Null
    <2>1. f = g
      BY IdleFrame DEF Frames
    <2> QED BY <1>1, <2>1
  <1> HIDE DEF f
  <1> QED BY <1>2, SetThr DEF Framed, f

LEMMA ExchangeFrame ==
    ASSUME TypeOK, NEW t \in Threads, thr' = [thr EXCEPT ![t].pc = "link", ![t].prev = tail]
    PROVE  thr' \in [Threads -> Frames] /\ Moved(t) /\ Framed(t, "link", thr[t].node, tail, thr[t].cand)
  <1> DEFINE f == [[thr[t] EXCEPT !.pc = "link"] EXCEPT !.prev = tail]
  <1>1. thr[t] \in Frames /\ tail \in Refs
    BY DEF TypeOK, Refs
  <1>2. f \in Frames /\ f.pc = "link" /\ f.node = thr[t].node /\ f.prev = tail /\ f.cand = thr[t].cand
    BY <1>1 DEF Frames, Pcs, PusherPcs
  <1>3. thr' = [thr EXCEPT ![t] = f]
    BY <1>1 DEF TypeOK, Frames
  <1> HIDE DEF f
  <1> QED BY <1>2, <1>3, SetThr DEF Framed

LEMMA ReleaseFrame ==
    ASSUME TypeOK, NEW n \in Nodes, NEW cand \in Refs,
           thr' = [thr EXCEPT ![Consumer] = [pc |-> "release", node |-> n, prev |-> Null, cand |-> cand]]
    PROVE  thr' \in [Threads -> Frames] /\ Moved(Consumer) /\ Framed(Consumer, "release", n, Null, cand)
  <1> DEFINE f == [pc |-> "release", node |-> n, prev |-> Null, cand |-> cand]
  <1>1. f \in Frames /\ f.pc = "release" /\ f.node = n /\ f.prev = Null /\ f.cand = cand
    BY DEF Frames, Refs, Pcs
  <1> HIDE DEF f
  <1> QED BY <1>1, Constants, SetThr DEF Framed, f

\* What pop does to threads and users: it goes on in release_node, or ends.
LEMMA PopDoes ==
    ASSUME TypeOK, NEW cand \in Refs, NEW after \in {"idle", "drain"}, pop(cand, after)
    PROVE  /\ head' = next[sentinel] /\ ~isExtra' /\ isExtra' \in BOOLEAN
           /\ next[sentinel] = Null => sentinel' = sentinel
           /\ next[sentinel] # Null => sentinel' = next[sentinel] /\ sentinel' \in Nodes
           /\ manager = "returning" => live' = live
           /\ manager # "returning" => live' = live \ LeftBehind(next[sentinel])
           /\ thr' \in [Threads -> Frames] /\ Moved(Consumer)
           /\ IF manager = "returning" /\ next[sentinel] # Null
              THEN Framed(Consumer, "release", sentinel, Null, cand) /\ held' = held
              ELSE /\ Framed(Consumer, after, thr[Consumer].node, thr[Consumer].prev, thr[Consumer].cand)
                   /\ held' = [n \in Nodes |-> IF n = cand THEN held[n] + 1 ELSE held[n]]
           /\ held' \in [Nodes -> Nat]
           /\ \A n \in Nodes : held'[n] > 0 => held[n] > 0 \/ n = cand
  <1>1. sentinel \in Nodes /\ next[sentinel] \in Refs /\ held \in [Nodes -> Nat]
    BY DEF TypeOK
  <1>2. CASE manager = "returning" /\ next[sentinel] # Null
    <2>1. /\ thr' = [thr EXCEPT ![Consumer] = [pc |-> "release", node |-> sentinel, prev |-> Null, cand |-> cand]]
          /\ held' = held /\ live' = live /\ head' = next[sentinel] /\ sentinel' = next[sentinel]
          /\ isExtra' = FALSE
      BY <1>2 DEF pop, Linked, NextSentinel
    <2>2. thr' \in [Threads -> Frames] /\ Moved(Consumer) /\ Framed(Consumer, "release", sentinel, Null, cand)
      BY <1>1, <2>1, ReleaseFrame
    <2> QED BY <1>1, <1>2, <2>1, <2>2 DEF Refs
  <1>3. CASE ~(manager = "returning" /\ next[sentinel] # Null)
    <2>1. /\ held' = [n \in Nodes |-> IF n = cand THEN held[n] + 1 ELSE held[n]] /\ Goto(Consumer, after)
          /\ head' = next[sentinel] /\ isExtra' = FALSE
          /\ next[sentinel] = Null => sentinel' = sentinel
          /\ next[sentinel] # Null => sentinel' = next[sentinel]
          /\ manager = "returning" => live' = live
          /\ manager # "returning" => live' = live \ LeftBehind(next[sentinel])
      BY <1>3 DEF pop, Linked, NextSentinel
    <2>2. /\ thr' \in [Threads -> Frames] /\ Moved(Consumer)
          /\ Framed(Consumer, after, thr[Consumer].node, thr[Consumer].prev, thr[Consumer].cand)
      <3>1. after \in Pcs
        BY DEF Pcs, PusherPcs
      <3> QED BY <2>1, <3>1, Constants, GotoDoes
    <2>3. held' \in [Nodes -> Nat] /\ \A n \in Nodes : held'[n] > 0 => held[n] > 0 \/ n = cand
      BY <1>1, <2>1
    <2> QED BY <1>1, <1>3, <2>1, <2>2, <2>3 DEF Refs
  <1> QED BY <1>2, <1>3

LEMMA ThreadsKept ==
    ASSUME TypeOK, NEW t \in Threads, Moved(t), manager' = manager, ThreadOf(t)'
    PROVE  \A u \in Threads : ThreadOf(u)'
  BY DEF TypeOK, ThreadOf, Moved

LEMMA TypeKept ==
    ASSUME TypeOK, UNCHANGED fixed, next' \in [Nodes -> Refs], tail' \in Nodes, sentinel' \in Nodes, head' \in Refs,
           isExtra' \in BOOLEAN, isExtra' => head' # Null, live' \in SUBSET Nodes,
           location' \in [Nodes -> {"queue", "outside"}], ready' \in SUBSET Nodes,
           buffered' \in SUBSET [thread : Threads, field : {"ready", "location"}, node : Nodes],
           thr' \in [Threads -> Frames], \A t \in Threads : ThreadOf(t)', held' \in [Nodes -> Nat]
    PROVE  TypeOK'
  <1>1. manager' \in Managers /\ buffers' \in BOOLEAN
    BY DEF TypeOK, fixed
  <1> QED BY <1>1 DEF TypeOK

LEMMA PushNewDoes ==
    ASSUME TypeOK, NEW t \in Pushers, NEW n \in Nodes, PushNew(t, n)
    PROVE  /\ TypeOK' /\ Moved(t) /\ thr[t].pc = "idle" /\ Framed(t, "exchange", n, Null, Null)
           /\ manager = "returning" => t \in Users
           /\ thr[Consumer].pc # "closed" /\ n \notin live /\ live' = live \cup {n}
           /\ UNCHANGED <<manager, buffers, next, tail, head, isExtra, sentinel, location, ready, buffered, held>>
  <1>0. t \in Threads /\ t # Consumer
    BY Constants
  <1>1. /\ thr[t].pc = "idle" /\ thr[Consumer].pc # "closed" /\ n \notin live /\ live' = live \cup {n}
        /\ UNCHANGED <<manager, buffers, next, tail, head, isExtra, sentinel, location, ready, buffered, held>>
        /\ thr' = [thr EXCEPT ![t] = [Idle EXCEPT !.pc = "exchange", !.node = n]]
    BY DEF PushNew, fixed, flags
  <1>2. thr' \in [Threads -> Frames] /\ Moved(t) /\ Framed(t, "exchange", n, Null, Null)
    <2>1. "exchange" \in Pcs
      BY DEF Pcs, PusherPcs
    <2> QED BY <1>0, <1>1, <2>1, NewFrame
  <1>3. \A u \in Threads : ThreadOf(u)'
    <2>1. ThreadOf(t)'
      BY <1>0, <1>2 DEF ThreadOf, Framed, PusherPcs
    <2> QED BY <1>0, <1>1, <1>2, <2>1, ThreadsKept
  <1>4. TypeOK'
    BY <1>1, <1>2, <1>3 DEF TypeOK
  <1>5. manager = "returning" => t \in Users
    BY DEF PushNew
  <1> QED BY <1>1, <1>2, <1>4, <1>5

LEMMA ExchangeDoes ==
    ASSUME TypeOK, NEW t \in Threads, Exchange(t)
    PROVE  /\ TypeOK' /\ Moved(t) /\ thr[t].pc = "exchange" /\ thr[t].node \in Nodes /\ Flushed(t)
           /\ Framed(t, "link", thr[t].node, tail, thr[t].cand)
           /\ next' = [next EXCEPT ![thr[t].node] = Null] /\ tail' = thr[t].node
           /\ UNCHANGED <<manager, buffers, head, isExtra, sentinel, live, location, ready, buffered, held>>
  <1>1. /\ thr[t].pc = "exchange" /\ Flushed(t)
        /\ next' = [next EXCEPT ![thr[t].node] = Null] /\ tail' = thr[t].node
        /\ UNCHANGED <<manager, buffers, head, isExtra, sentinel, live, location, ready, buffered, held>>
        /\ thr' = [thr EXCEPT ![t].pc = "link", ![t].prev = tail]
    BY DEF Exchange, fixed, flags
  <1>2. thr' \in [Threads -> Frames] /\ Moved(t) /\ Framed(t, "link", thr[t].node, tail, thr[t].cand)
    BY <1>1, ExchangeFrame
  <1>3. thr[t].node \in Nodes /\ tail \in Nodes /\ ThreadOf(t)
    BY <1>1 DEF TypeOK, ThreadOf
  <1>4. \A u \in Threads : ThreadOf(u)'
    <2>1. ThreadOf(t)'
      BY <1>1, <1>2, <1>3 DEF ThreadOf, Framed, PusherPcs
    <2> QED BY <1>1, <1>2, <2>1, ThreadsKept
  <1>5. next' \in [Nodes -> Refs]
    BY <1>1 DEF TypeOK, Refs
  <1>6. TypeOK'
    BY <1>1, <1>2, <1>3, <1>4, <1>5 DEF TypeOK
  <1> QED BY <1>1, <1>2, <1>3, <1>6

LEMMA LinkDoes ==
    ASSUME TypeOK, NEW t \in Threads, Link(t)
    PROVE  /\ TypeOK' /\ Moved(t) /\ thr[t].pc = "link" /\ thr[t].node \in Nodes /\ thr[t].prev \in Nodes
           /\ Framed(t, "idle", Null, Null, Null)
           /\ next' = [next EXCEPT ![thr[t].prev] = thr[t].node]
           /\ held' = Given(thr[t].cand)
           /\ \A n \in Nodes : held'[n] > 0 => held[n] > 0 \/ n = thr[t].cand
           /\ UNCHANGED <<manager, buffers, tail, head, isExtra, sentinel, live, location, ready, buffered>>
  <1>1. /\ thr[t].pc = "link" /\ Return(t)
        /\ next' = [next EXCEPT ![thr[t].prev] = thr[t].node]
        /\ UNCHANGED <<manager, buffers, tail, head, isExtra, sentinel, live, location, ready, buffered>>
    BY DEF Link, fixed, flags
  <1>2. /\ thr' \in [Threads -> Frames] /\ Moved(t) /\ Framed(t, "idle", Null, Null, Null)
        /\ held' \in [Nodes -> Nat] /\ held' = Given(thr[t].cand) /\ \A n \in Nodes : held'[n] > 0 => held[n] > 0 \/ n = thr[t].cand
    BY <1>1, ReturnDoes
  <1>3. thr[t].node \in Nodes /\ thr[t].prev \in Nodes
    BY <1>1 DEF TypeOK, ThreadOf
  <1>4. \A u \in Threads : ThreadOf(u)'
    <2>1. ThreadOf(t)'
      BY <1>1, <1>2 DEF ThreadOf, Framed, PusherPcs
    <2> QED BY <1>1, <1>2, <2>1, ThreadsKept
  <1>5. next' \in [Nodes -> Refs]
    BY <1>1, <1>3 DEF TypeOK, Refs
  <1>6. TypeOK'
    BY <1>1, <1>2, <1>4, <1>5 DEF TypeOK
  <1> QED BY <1>1, <1>2, <1>3, <1>6

LEMMA BuildDoes ==
    ASSUME TypeOK, NEW n \in Nodes, PeekOrBuild(n)
    PROVE  /\ TypeOK' /\ manager = "general" /\ thr[Consumer].pc = "idle" /\ head = Null /\ next[sentinel] = Null
           /\ n \notin live /\ live' = live \cup {n} /\ head' = n /\ isExtra'
           /\ UNCHANGED <<manager, buffers, next, tail, sentinel, location, ready, buffered, thr, held>>
  <1>1. /\ manager = "general" /\ thr[Consumer].pc = "idle" /\ head = Null /\ next[sentinel] = Null
        /\ n \notin live /\ live' = live \cup {n} /\ head' = n /\ isExtra' = TRUE
        /\ UNCHANGED <<manager, buffers, next, tail, sentinel, location, ready, buffered, thr, held>>
    BY DEF PeekOrBuild, fixed, flags, Linked
  <1>2. head' # Null /\ head' \in Refs
    BY <1>1, Constants DEF Refs
  <1>3. \A u \in Threads : ThreadOf(u)'
    BY <1>1 DEF TypeOK, ThreadOf
  <1>4. TypeOK'
    BY <1>1, <1>2, <1>3 DEF TypeOK
  <1> QED BY <1>1, <1>4

\* The steps that pop: peek, pop, blocking_pop and the destructor's loop.
Popping(cand, after) ==
    /\ pop(cand, after) /\ UNCHANGED <<fixed, next, tail, flags>>
    /\ thr[Consumer].pc \in {"idle", "drain"} /\ (head # Null \/ next[sentinel] # Null)
    /\ after = "drain" => manager = "general"
    /\ cand # Null => cand = head /\ manager = "returning"

LEMMA PoppingDoes ==
    ASSUME TypeOK, NEW cand \in Refs, NEW after \in {"idle", "drain"}, Popping(cand, after)
    PROVE  /\ TypeOK' /\ thr[Consumer].pc \in {"idle", "drain"} /\ Moved(Consumer)
           /\ head # Null \/ next[sentinel] # Null
           /\ cand # Null => cand = head /\ manager = "returning"
           /\ head' = next[sentinel] /\ ~isExtra'
           /\ next[sentinel] = Null => sentinel' = sentinel
           /\ next[sentinel] # Null => sentinel' = next[sentinel]
           /\ manager = "returning" => live' = live
           /\ manager # "returning" => live' = live \ LeftBehind(next[sentinel])
           /\ IF manager = "returning" /\ next[sentinel] # Null
              THEN Framed(Consumer, "release", sentinel, Null, cand) /\ held' = held
              ELSE /\ Framed(Consumer, after, thr[Consumer].node, thr[Consumer].prev, thr[Consumer].cand)
                   /\ held' = Given(cand)
           /\ after = "drain" => manager = "general"
           /\ \A n \in Nodes : held'[n] > 0 => held[n] > 0 \/ n = cand
           /\ UNCHANGED <<manager, buffers, next, tail, location, ready, buffered>>
  <1>1. /\ UNCHANGED <<manager, buffers, next, tail, location, ready, buffered>> /\ UNCHANGED fixed
        /\ pop(cand, after) /\ (after = "drain" => manager = "general")
    BY DEF Popping, fixed, flags
  <1>2. /\ thr[Consumer].pc \in {"idle", "drain"} /\ (head # Null \/ next[sentinel] # Null)
        /\ cand # Null => cand = head /\ manager = "returning"
    BY DEF Popping
  <1>3. /\ head' = next[sentinel] /\ ~isExtra' /\ isExtra' \in BOOLEAN
        /\ next[sentinel] = Null => sentinel' = sentinel
        /\ next[sentinel] # Null => sentinel' = next[sentinel] /\ sentinel' \in Nodes
        /\ manager = "returning" => live' = live
        /\ manager # "returning" => live' = live \ LeftBehind(next[sentinel])
        /\ thr' \in [Threads -> Frames] /\ Moved(Consumer)
        /\ IF manager = "returning" /\ next[sentinel] # Null
           THEN Framed(Consumer, "release", sentinel, Null, cand) /\ held' = held
           ELSE /\ Framed(Consumer, after, thr[Consumer].node, thr[Consumer].prev, thr[Consumer].cand)
                /\ held' = Given(cand)
        /\ held' \in [Nodes -> Nat]
        /\ \A n \in Nodes : held'[n] > 0 => held[n] > 0 \/ n = cand
    BY <1>1, PopDoes DEF Given
  <1>4. sentinel \in Nodes /\ next[sentinel] \in Refs /\ live' \in SUBSET Nodes
    BY <1>3 DEF TypeOK
  <1>5. \A u \in Threads : ThreadOf(u)'
    <2>1. ThreadOf(Consumer)'
      BY <1>1, <1>3, <1>4 DEF ThreadOf, Framed
    <2> QED BY <1>1, <1>3, <2>1, Constants, ThreadsKept
  <1>6. sentinel' \in Nodes
    BY <1>3, <1>4
  <1>7. TypeOK'
    <2>1. /\ next' \in [Nodes -> Refs] /\ tail' \in Nodes /\ location' \in [Nodes -> {"queue", "outside"}]
          /\ ready' \in SUBSET Nodes
          /\ buffered' \in SUBSET [thread : Threads, field : {"ready", "location"}, node : Nodes]
      BY <1>1 DEF TypeOK
    <2> QED BY <1>1, <1>3, <1>4, <1>5, <1>6, <2>1, TypeKept
  <1> QED BY <1>1, <1>2, <1>3, <1>7

\* The destructor's last step.
Closing ==
    /\ manager = "general" /\ (\A t \in Pushers : thr[t].pc = "idle")
    /\ thr[Consumer].pc \in {"idle", "drain"} /\ head = Null /\ next[sentinel] = Null
    /\ Goto(Consumer, "closed") /\ live' = live \ {sentinel}
    /\ UNCHANGED <<manager, buffers, next, tail, head, isExtra, sentinel, location, ready, buffered, held>>

LEMMA ClosingDoes ==
    ASSUME TypeOK, Closing
    PROVE  /\ TypeOK' /\ manager = "general" /\ (\A t \in Pushers : thr[t].pc = "idle")
           /\ thr[Consumer].pc \in {"idle", "drain"} /\ head = Null /\ next[sentinel] = Null
           /\ thr'[Consumer].pc = "closed" /\ Moved(Consumer) /\ live' = live \ {sentinel}
           /\ UNCHANGED <<manager, buffers, next, tail, head, isExtra, sentinel, location, ready, buffered, held>>
  <1>1. /\ thr' \in [Threads -> Frames] /\ Moved(Consumer)
        /\ Framed(Consumer, "closed", thr[Consumer].node, thr[Consumer].prev, thr[Consumer].cand)
    <2>1. "closed" \in Pcs
      BY DEF Pcs
    <2> QED BY <2>1, Constants, GotoDoes DEF Closing
  <1>2. /\ manager = "general" /\ live' = live \ {sentinel}
        /\ UNCHANGED <<manager, buffers, next, tail, head, isExtra, sentinel, location, ready, buffered, held>>
    BY DEF Closing
  <1>3. \A u \in Threads : ThreadOf(u)'
    <2>1. ThreadOf(Consumer)'
      BY <1>1, <1>2 DEF ThreadOf, Framed
    <2> QED BY <1>1, <1>2, <2>1, Constants, ThreadsKept
  <1>4. TypeOK'
    BY <1>1, <1>2, <1>3 DEF TypeOK
  <1> QED BY <1>1, <1>2, <1>4 DEF Framed, Closing

LEMMA Consuming ==
    ASSUME TypeOK, Peek \/ Pop \/ BlockingPop \/ Drain
    PROVE  Closing \/ \E cand \in Refs, after \in {"idle", "drain"} : Popping(cand, after)
  <1>0. Null \in Refs /\ head \in Refs
    BY DEF TypeOK, Refs
  <1>1. CASE Peek
    <2>1. Popping(Null, "idle")
      BY <1>1 DEF Peek, Popping, Linked
    <2> QED BY <1>0, <2>1
  <1>2. CASE Pop
    <2>1. Popping(Null, "idle")
      BY <1>2 DEF Pop, Popping
    <2> QED BY <1>0, <2>1
  <1>3. CASE BlockingPop
    <2>1. Popping(head, "idle")
      BY <1>3 DEF BlockingPop, Popping
    <2> QED BY <1>0, <2>1
  <1>4. CASE Drain
    <2>1. CASE head # Null \/ next[sentinel] # Null
      <3>1. Popping(Null, "drain")
        BY <1>4, <2>1 DEF Drain, Popping, Linked
      <3> QED BY <1>0, <3>1
    <2>2. CASE ~(head # Null \/ next[sentinel] # Null)
      BY <1>4, <2>2 DEF Drain, Closing, Linked, fixed, flags
    <2> QED BY <2>1, <2>2
  <1> QED BY <1>1, <1>2, <1>3, <1>4

---------------------------------------------------------------------------
(* return_me and release_node *)

\* What these steps leave alone.
Queue == <<manager, buffers, next, tail, head, isExtra, sentinel, live>>

LEMMA StoreDoes ==
    ASSUME TypeOK, NEW t \in Threads, NEW field \in {"ready", "location"}, NEW n \in Nodes, Store(t, field, n)
    PROVE  /\ location' \in [Nodes -> {"queue", "outside"}] /\ ready' \in SUBSET Nodes
           /\ buffered' \in SUBSET [thread : Threads, field : {"ready", "location"}, node : Nodes]
           /\ \/ /\ buffered' = buffered
                 /\ field = "ready" => ready' = ready \cup {n} /\ location' = location
                 /\ field = "location" => location' = [location EXCEPT ![n] = "outside"] /\ ready' = ready
              \/ /\ buffered' = buffered \cup {[thread |-> t, field |-> field, node |-> n]}
                 /\ location' = location /\ ready' = ready
           /\ ~buffers => /\ buffered' = buffered
                          /\ field = "ready" => ready' = ready \cup {n} /\ location' = location
                          /\ field = "location" => /\ location' = [location EXCEPT ![n] = "outside"]
                                                   /\ ready' = ready
  <1>0. "ready" # "location"
    OBVIOUS
  <1>1. CASE /\ field = "ready" => ready' = ready \cup {n} /\ location' = location
             /\ field = "location" => location' = [location EXCEPT ![n] = "outside"] /\ ready' = ready
             /\ buffered' = buffered
    BY <1>1 DEF TypeOK
  <1>2. CASE /\ buffers /\ location' = location /\ ready' = ready
             /\ buffered' = buffered \cup {[thread |-> t, field |-> field, node |-> n]}
    BY <1>2 DEF TypeOK
  <1> QED BY <1>0, <1>1, <1>2 DEF Store

LEMMA FlushDoes ==
    ASSUME TypeOK, NEW b \in buffered, Flush(b)
    PROVE  /\ TypeOK' /\ UNCHANGED <<Queue, thr, held>> /\ buffered' = buffered \ {b}
           /\ b.field = "ready" => ready' = ready \cup {b.node} /\ location' = location
           /\ b.field # "ready" => location' = [location EXCEPT ![b.node] = "outside"] /\ ready' = ready
  <1>1. /\ b \in [thread : Threads, field : {"ready", "location"}, node : Nodes]
        /\ buffered' = buffered \ {b} /\ UNCHANGED <<Queue, thr, held>>
        /\ b.field = "ready" => ready' = ready \cup {b.node} /\ location' = location
        /\ b.field # "ready" => location' = [location EXCEPT ![b.node] = "outside"] /\ ready' = ready
    BY DEF Flush, Queue, fixed, TypeOK
  <1>2. /\ location' \in [Nodes -> {"queue", "outside"}] /\ ready' \in SUBSET Nodes
        /\ buffered' \in SUBSET [thread : Threads, field : {"ready", "location"}, node : Nodes]
    BY <1>1 DEF TypeOK
  <1>3. \A u \in Threads : ThreadOf(u)'
    BY <1>1 DEF TypeOK, ThreadOf, Queue
  <1>4. TypeOK'
    BY <1>1, <1>2, <1>3 DEF TypeOK, Queue
  <1> QED BY <1>1, <1>4

LEMMA ReturnMeDoes ==
    ASSUME TypeOK, NEW t \in Pushers, NEW n \in Nodes, ReturnMe(t, n)
    PROVE  /\ TypeOK' /\ Moved(t) /\ manager = "returning" /\ t \in Users /\ thr[t].pc = "idle" /\ held[n] > 0
           /\ Framed(t, "returning", n, Null, Null) /\ held' = [held EXCEPT ![n] = @ - 1]
           /\ Store(t, "ready", n) /\ UNCHANGED Queue
  <1>0. t \in Threads /\ t # Consumer
    BY Constants
  <1>1. /\ manager = "returning" /\ t \in Users /\ thr[t].pc = "idle" /\ held[n] > 0 /\ UNCHANGED Queue
        /\ held' = [held EXCEPT ![n] = @ - 1] /\ Store(t, "ready", n)
        /\ thr' = [thr EXCEPT ![t] = [Idle EXCEPT !.pc = "returning", !.node = n]]
    BY DEF ReturnMe, fixed, Queue
  <1>2. thr' \in [Threads -> Frames] /\ Moved(t) /\ Framed(t, "returning", n, Null, Null)
    <2>1. "returning" \in Pcs
      BY DEF Pcs, PusherPcs
    <2> QED BY <1>0, <1>1, <2>1, NewFrame
  <1>3. manager' = manager /\ held' \in [Nodes -> Nat]
    BY <1>1 DEF Queue, TypeOK
  <1>4. /\ location' \in [Nodes -> {"queue", "outside"}] /\ ready' \in SUBSET Nodes
        /\ buffered' \in SUBSET [thread : Threads, field : {"ready", "location"}, node : Nodes]
    BY <1>0, <1>1, StoreDoes
  <1>5. \A u \in Threads : ThreadOf(u)'
    <2>1. ThreadOf(t)'
      BY <1>0, <1>1, <1>2, <1>3 DEF ThreadOf, Framed, PusherPcs
    <2> QED BY <1>0, <1>2, <1>3, <2>1, ThreadsKept
  <1>6. TypeOK'
    BY <1>1, <1>2, <1>3, <1>4, <1>5 DEF TypeOK, Queue
  <1> QED BY <1>1, <1>2, <1>6

LEMMA ReleaseDoes ==
    ASSUME TypeOK, ReleaseNode
    PROVE  /\ TypeOK' /\ Moved(Consumer) /\ thr[Consumer].pc = "release" /\ manager = "returning"
           /\ thr[Consumer].node \in Nodes
           /\ Framed(Consumer, "released", thr[Consumer].node, thr[Consumer].prev, thr[Consumer].cand)
           /\ Store(Consumer, "location", thr[Consumer].node) /\ UNCHANGED <<Queue, held>>
  <1>1. /\ thr[Consumer].pc = "release" /\ Goto(Consumer, "released") /\ UNCHANGED <<Queue, held>>
        /\ Store(Consumer, "location", thr[Consumer].node)
    BY DEF ReleaseNode, fixed, Queue
  <1>2. thr[Consumer].node \in Nodes /\ manager = "returning" /\ ThreadOf(Consumer)
    BY <1>1, Constants DEF TypeOK, ThreadOf
  <1>3. /\ thr' \in [Threads -> Frames] /\ Moved(Consumer)
        /\ Framed(Consumer, "released", thr[Consumer].node, thr[Consumer].prev, thr[Consumer].cand)
    <2>1. "released" \in Pcs
      BY DEF Pcs, PusherPcs
    <2> QED BY <1>1, <2>1, Constants, GotoDoes
  <1>4. manager' = manager
    BY <1>1 DEF Queue
  <1>5. /\ location' \in [Nodes -> {"queue", "outside"}] /\ ready' \in SUBSET Nodes
        /\ buffered' \in SUBSET [thread : Threads, field : {"ready", "location"}, node : Nodes]
    BY <1>1, <1>2, Constants, StoreDoes
  <1>6. \A u \in Threads : ThreadOf(u)'
    <2>1. ThreadOf(Consumer)'
      BY <1>2, <1>3, <1>4 DEF ThreadOf, Framed
    <2> QED BY <1>3, <1>4, <2>1, Constants, ThreadsKept
  <1>7. TypeOK'
    BY <1>1, <1>3, <1>5, <1>6 DEF TypeOK, Queue
  <1> QED BY <1>1, <1>2, <1>3, <1>7

\* A look at the other's flag: on to the compare-and-swap, or out.
Looked(t) == \/ Framed(t, "cas", thr[t].node, thr[t].prev, thr[t].cand) /\ held' = held
             \/ Framed(t, "idle", Null, Null, Null) /\ held' = Given(thr[t].cand)

LEMMA OnOrOut ==
    ASSUME TypeOK, NEW t \in Threads, manager = "returning", thr[t].node \in Nodes,
           UNCHANGED Queue, (Goto(t, "cas") /\ held' = held) \/ Return(t)
    PROVE  /\ thr' \in [Threads -> Frames] /\ Moved(t) /\ Looked(t) /\ (\A u \in Threads : ThreadOf(u)')
           /\ held' \in [Nodes -> Nat]
           /\ \A n \in Nodes : held'[n] > 0 => held[n] > 0 \/ n = thr[t].cand
           /\ Goto(t, "cas") => Framed(t, "cas", thr[t].node, thr[t].prev, thr[t].cand)
           /\ Return(t) => Framed(t, "idle", Null, Null, Null)
  <1>1. "cas" \in Pcs /\ manager' = manager
    BY DEF Pcs, PusherPcs, Queue
  <1>2. CASE Goto(t, "cas") /\ held' = held
    <2>1. /\ thr' \in [Threads -> Frames] /\ Moved(t)
          /\ Framed(t, "cas", thr[t].node, thr[t].prev, thr[t].cand)
      BY <1>1, <1>2, GotoDoes
    <2>2. held' \in [Nodes -> Nat] /\ ~Return(t)
      <3>1. Return(t) => thr'[t].pc = "idle"
        BY ReturnDoes DEF Framed
      <3> QED BY <1>2, <2>1, <3>1 DEF TypeOK, Framed
    <2>3. ThreadOf(t)'
      BY <1>1, <2>1 DEF ThreadOf, Framed, PusherPcs
    <2> QED BY <1>1, <1>2, <2>1, <2>2, <2>3, ThreadsKept DEF Looked
  <1>3. CASE Return(t)
    <2>1. /\ thr' \in [Threads -> Frames] /\ Moved(t) /\ Framed(t, "idle", Null, Null, Null)
          /\ held' = Given(thr[t].cand) /\ held' \in [Nodes -> Nat] /\ \A n \in Nodes : held'[n] > 0 => held[n] > 0 \/ n = thr[t].cand
      BY <1>3, ReturnDoes
    <2>2. ~Goto(t, "cas")
      <3>1. Goto(t, "cas") => thr'[t].pc = "cas"
        BY <1>1, GotoDoes DEF Framed
      <3> QED BY <2>1, <3>1 DEF Framed
    <2>3. ThreadOf(t)'
      BY <1>1, <2>1 DEF ThreadOf, Framed, PusherPcs
    <2> QED BY <1>1, <2>1, <2>2, <2>3, ThreadsKept DEF Looked
  <1> QED BY <1>2, <1>3

LEMMA LookLocationDoes ==
    ASSUME TypeOK, NEW t \in Threads, LookLocation(t)
    PROVE  /\ TypeOK' /\ Moved(t) /\ thr[t].pc = "returning" /\ manager = "returning"
           /\ Looked(t) /\ (location[thr[t].node] = "outside" => thr'[t].pc = "cas")
           /\ \A n \in Nodes : held'[n] > 0 => held[n] > 0 \/ n = thr[t].cand
           /\ UNCHANGED <<Queue, location, ready, buffered>>
  <1>1. /\ thr[t].pc = "returning" /\ UNCHANGED <<Queue, location, ready, buffered>> /\ UNCHANGED Queue
        /\ (Goto(t, "cas") /\ held' = held) \/ Return(t)
        /\ location[thr[t].node] = "outside" => Goto(t, "cas")
    BY DEF LookLocation, fixed, flags, Queue
  <1>2. thr[t].node \in Nodes /\ manager = "returning"
    BY <1>1, Constants DEF TypeOK, ThreadOf
  <1>3. /\ thr' \in [Threads -> Frames] /\ Moved(t) /\ Looked(t) /\ (\A u \in Threads : ThreadOf(u)')
        /\ held' \in [Nodes -> Nat] /\ \A n \in Nodes : held'[n] > 0 => held[n] > 0 \/ n = thr[t].cand
        /\ Goto(t, "cas") => Framed(t, "cas", thr[t].node, thr[t].prev, thr[t].cand)
    BY <1>1, <1>2, OnOrOut
  <1>4. TypeOK'
    BY <1>1, <1>3 DEF TypeOK, Queue
  <1> QED BY <1>1, <1>2, <1>3, <1>4 DEF Framed

LEMMA LookReadyDoes ==
    ASSUME TypeOK, LookReady
    PROVE  /\ TypeOK' /\ Moved(Consumer) /\ thr[Consumer].pc = "released" /\ manager = "returning"
           /\ Looked(Consumer)
           /\ thr'[Consumer].pc = "cas" => thr[Consumer].node \in ready
           /\ thr[Consumer].node \in ready /\ location[thr[Consumer].node] = "outside" => thr'[Consumer].pc = "cas"
           /\ \A n \in Nodes : held'[n] > 0 => held[n] > 0 \/ n = thr[Consumer].cand
           /\ UNCHANGED <<Queue, location, ready, buffered>>
  <1>1. /\ thr[Consumer].pc = "released" /\ UNCHANGED <<Queue, location, ready, buffered>> /\ UNCHANGED Queue
        /\ (Goto(Consumer, "cas") /\ held' = held) \/ Return(Consumer)
        /\ thr[Consumer].node \notin ready => Return(Consumer)
        /\ thr[Consumer].node \in ready /\ location[thr[Consumer].node] = "outside" => Goto(Consumer, "cas")
    BY DEF LookReady, fixed, flags, Queue
  <1>2. thr[Consumer].node \in Nodes /\ manager = "returning"
    BY <1>1, Constants DEF TypeOK, ThreadOf
  <1>3. LET t == Consumer IN
        /\ thr' \in [Threads -> Frames] /\ Moved(t) /\ Looked(t) /\ (\A u \in Threads : ThreadOf(u)')
        /\ held' \in [Nodes -> Nat] /\ \A n \in Nodes : held'[n] > 0 => held[n] > 0 \/ n = thr[t].cand
        /\ Return(t) => Framed(t, "idle", Null, Null, Null)
        /\ Goto(t, "cas") => Framed(t, "cas", thr[t].node, thr[t].prev, thr[t].cand)
    BY <1>1, <1>2, Constants, OnOrOut
  <1>4. TypeOK'
    BY <1>1, <1>3 DEF TypeOK, Queue
  <1> QED BY <1>1, <1>2, <1>3, <1>4 DEF Framed

LEMMA SwapDoes ==
    ASSUME TypeOK, NEW t \in Threads, CompareExchange(t)
    PROVE  /\ TypeOK' /\ Moved(t) /\ thr[t].pc = "cas" /\ manager = "returning" /\ thr[t].node \in Nodes
           /\ Flushed(t)
           /\ \/ /\ location[thr[t].node] = "outside" /\ location' = [location EXCEPT ![thr[t].node] = "queue"]
                 /\ Framed(t, "inuse", thr[t].node, thr[t].prev, thr[t].cand) /\ held' = held
              \/ /\ location[thr[t].node] # "outside" /\ location' = location
                 /\ Framed(t, "idle", Null, Null, Null) /\ held' = Given(thr[t].cand)
           /\ \A n \in Nodes : held'[n] > 0 => held[n] > 0 \/ n = thr[t].cand
           /\ UNCHANGED <<Queue, ready, buffered>>
  <1>1. thr[t].pc = "cas" /\ Flushed(t) /\ UNCHANGED <<Queue, ready, buffered>> /\ manager' = manager
    BY DEF CompareExchange, fixed, Queue
  <1>2. thr[t].node \in Nodes /\ manager = "returning"
    BY <1>1, Constants DEF TypeOK, ThreadOf
  <1>3. "inuse" \in Pcs
    BY DEF Pcs, PusherPcs
  <1>4. CASE location[thr[t].node] = "outside"
    <2>1. location' = [location EXCEPT ![thr[t].node] = "queue"] /\ Goto(t, "inuse") /\ held' = held
      BY <1>4 DEF CompareExchange
    <2>2. /\ thr' \in [Threads -> Frames] /\ Moved(t)
          /\ Framed(t, "inuse", thr[t].node, thr[t].prev, thr[t].cand)
      BY <1>3, <2>1, GotoDoes
    <2>3. ThreadOf(t)'
      BY <1>1, <1>2, <2>2 DEF ThreadOf, Framed, PusherPcs
    <2>4. \A u \in Threads : ThreadOf(u)'
      BY <1>1, <2>2, <2>3, ThreadsKept
    <2>5. location' \in [Nodes -> {"queue", "outside"}]
      BY <2>1 DEF TypeOK
    <2>6. TypeOK'
      BY <1>1, <2>1, <2>2, <2>4, <2>5 DEF TypeOK, Queue
    <2> QED BY <1>1, <1>2, <1>4, <2>1, <2>2, <2>6
  <1>5. CASE location[thr[t].node] # "outside"
    <2>1. Return(t) /\ location' = location
      BY <1>5 DEF CompareExchange
    <2>2. /\ thr' \in [Threads -> Frames] /\ Moved(t) /\ Framed(t, "idle", Null, Null, Null)
          /\ held' = Given(thr[t].cand) /\ held' \in [Nodes -> Nat] /\ \A n \in Nodes : held'[n] > 0 => held[n] > 0 \/ n = thr[t].cand
      BY <2>1, ReturnDoes
    <2>3. ThreadOf(t)'
      BY <1>1, <1>2, <2>2 DEF ThreadOf, Framed, PusherPcs
    <2>4. \A u \in Threads : ThreadOf(u)'
      BY <1>1, <2>2, <2>3, ThreadsKept
    <2>5. TypeOK'
      BY <1>1, <2>1, <2>2, <2>4 DEF TypeOK, Queue
    <2> QED BY <1>1, <1>2, <1>5, <2>1, <2>2, <2>5
  <1> QED BY <1>4, <1>5

LEMMA InUseDoes ==
    ASSUME TypeOK, NEW t \in Threads, InUse(t)
    PROVE  /\ TypeOK' /\ Moved(t) /\ thr[t].pc = "inuse" /\ manager = "returning" /\ thr[t].node \in Nodes
           /\ Framed(t, "exchange", thr[t].node, thr[t].prev, thr[t].cand)
           /\ ready' = ready \ {thr[t].node}
           /\ UNCHANGED <<Queue, location, buffered, held>>
  <1>1. /\ thr[t].pc = "inuse" /\ UNCHANGED <<Queue, location, buffered, held>> /\ manager' = manager
        /\ ready' = ready \ {thr[t].node} /\ Goto(t, "exchange")
    BY DEF InUse, fixed, Queue
  <1>2. thr[t].node \in Nodes /\ manager = "returning"
    BY <1>1, Constants DEF TypeOK, ThreadOf
  <1>3. /\ thr' \in [Threads -> Frames] /\ Moved(t)
        /\ Framed(t, "exchange", thr[t].node, thr[t].prev, thr[t].cand)
    <2>1. "exchange" \in Pcs
      BY DEF Pcs, PusherPcs
    <2> QED BY <1>1, <2>1, GotoDoes
  <1>4. ThreadOf(t)'
    BY <1>1, <1>2, <1>3 DEF ThreadOf, Framed, PusherPcs
  <1>5. \A u \in Threads : ThreadOf(u)'
    BY <1>1, <1>3, <1>4, ThreadsKept
  <1>6. TypeOK'
    BY <1>1, <1>3, <1>5 DEF TypeOK, Queue
  <1> QED BY <1>1, <1>2, <1>3, <1>6

\* Every step is one of these.
LEMMA Steps ==
    ASSUME TypeOK, [Next]_vars
    PROVE  \/ \E t \in Threads : Exchange(t) \/ Link(t) \/ LookLocation(t) \/ CompareExchange(t) \/ InUse(t)
           \/ \E t \in Pushers, n \in Nodes : PushNew(t, n) \/ ReturnMe(t, n)
           \/ Closing \/ \E cand \in Refs, after \in {"idle", "drain"} : Popping(cand, after)
           \/ \E n \in Nodes : PeekOrBuild(n)
           \/ ReleaseNode \/ LookReady
           \/ \E b \in buffered : Flush(b)
           \/ UNCHANGED vars
  BY Consuming DEF Next, Push, GiveBack

LEMMA TypeStep ==
    ASSUME TypeOK, [Next]_vars
    PROVE  TypeOK'
  <1>1. CASE UNCHANGED vars
    BY <1>1 DEF vars, TypeOK, ThreadOf
  <1> QED BY <1>1, Steps, ExchangeDoes, LinkDoes, LookLocationDoes, SwapDoes, InUseDoes, PushNewDoes, ReturnMeDoes,
             ClosingDoes, PoppingDoes, BuildDoes, ReleaseDoes, LookReadyDoes, FlushDoes

LEMMA TypeInit == Init => TypeOK
  <1> SUFFICES ASSUME Init PROVE TypeOK
    OBVIOUS
  <1>1. PICK stub \in Nodes :
          /\ manager \in Managers /\ buffers \in BOOLEAN
          /\ next = [n \in Nodes |-> Null]
          /\ tail = stub /\ sentinel = stub /\ head = stub /\ isExtra = FALSE /\ live = {stub}
          /\ location = [n \in Nodes |-> "queue"] /\ ready = {} /\ buffered = {}
          /\ thr = [t \in Threads |-> Idle] /\ held = [n \in Nodes |-> 0]
    BY DEF Init
  <1>2. thr \in [Threads -> Frames] /\ \A t \in Threads : thr[t].pc = "idle"
    BY <1>1, IdleFrame
  <1>3. \A t \in Threads : ThreadOf(t)
    BY <1>2 DEF ThreadOf, PusherPcs
  <1> QED BY <1>1, <1>2, <1>3 DEF TypeOK, Refs

---------------------------------------------------------------------------
(* Nobody forgets a node *)

LEMMA HandledKept ==
    ASSUME TypeOK, HandledInv, NEW t \in Threads, Moved(t), UNCHANGED <<buffers, location, ready, buffered>>,
           thr[t].pc \in {"returning", "released", "cas"} =>
             \/ thr'[t].node = thr[t].node /\ thr'[t].pc \in {"returning", "released", "cas"}
             \/ thr[t].node \notin ready \/ location[thr[t].node] # "outside"
    PROVE  HandledInv'
  <1> SUFFICES ASSUME ~buffers, NEW n \in ready, location[n] = "outside" PROVE Handled(n)'
    BY DEF HandledInv
  <1>1. PICK u \in Threads : thr[u].node = n /\ thr[u].pc \in {"returning", "released", "cas"}
    BY DEF HandledInv, Handled
  <1> QED BY <1>1 DEF Handled, Moved

LEMMA HandledStep ==
    ASSUME TypeOK, HandledInv, [Next]_vars
    PROVE  HandledInv'
  <1>0. ready \in SUBSET Nodes /\ location \in [Nodes -> {"queue", "outside"}]
    BY DEF TypeOK
  <1>1. ASSUME NEW t \in Threads, Exchange(t) \/ Link(t) PROVE HandledInv'
    <2>1. /\ Moved(t) /\ thr[t].pc \in {"exchange", "link"}
          /\ UNCHANGED <<buffers, location, ready, buffered>>
      BY <1>1, ExchangeDoes, LinkDoes
    <2> QED BY <2>1, HandledKept
  <1>2. ASSUME NEW t \in Pushers, NEW n \in Nodes, PushNew(t, n) PROVE HandledInv'
    BY <1>2, Constants, PushNewDoes, HandledKept
  <1>3. ASSUME NEW cand \in Refs, NEW after \in {"idle", "drain"}, Popping(cand, after) PROVE HandledInv'
    <2>1. /\ Moved(Consumer) /\ thr[Consumer].pc \in {"idle", "drain"}
          /\ UNCHANGED <<buffers, location, ready, buffered>>
      BY <1>3, PoppingDoes
    <2> QED BY <2>1, Constants, HandledKept
  <1>4. CASE Closing
    <2>1. /\ Moved(Consumer) /\ thr[Consumer].pc \in {"idle", "drain"}
          /\ UNCHANGED <<buffers, location, ready, buffered>>
      BY <1>4, ClosingDoes
    <2> QED BY <2>1, Constants, HandledKept
  <1>5. ASSUME NEW n \in Nodes, PeekOrBuild(n) PROVE HandledInv'
    BY <1>5, BuildDoes DEF HandledInv, Handled
  <1>6. ASSUME NEW t \in Threads, LookLocation(t) PROVE HandledInv'
    <2>1. /\ Moved(t) /\ UNCHANGED <<buffers, location, ready, buffered>>
          /\ location[thr[t].node] = "outside" => thr'[t].pc = "cas" /\ thr'[t].node = thr[t].node
      BY <1>6, LookLocationDoes DEF Queue, Looked, Framed
    <2> QED BY <2>1, HandledKept
  <1>7. CASE LookReady
    <2>1. /\ Moved(Consumer) /\ UNCHANGED <<buffers, location, ready, buffered>>
          /\ thr[Consumer].node \in ready /\ location[thr[Consumer].node] = "outside" =>
               thr'[Consumer].pc = "cas" /\ thr'[Consumer].node = thr[Consumer].node
      BY <1>7, LookReadyDoes DEF Queue, Looked, Framed
    <2> QED BY <2>1, Constants, HandledKept
  <1>8. ASSUME NEW t \in Threads, CompareExchange(t) PROVE HandledInv'
    <2> DEFINE n == thr[t].node
    <2>1. Moved(t) /\ n \in Nodes /\ UNCHANGED <<buffers, ready, buffered>>
      BY <1>8, SwapDoes DEF Queue
    <2>2. CASE location[n] # "outside" /\ location' = location
      BY <2>1, <2>2, HandledKept
    <2>3. CASE location' = [location EXCEPT ![n] = "queue"]
      <3>1. \A m \in Nodes : location'[m] = "outside" => m # n /\ location[m] = "outside"
        BY <1>0, <2>1, <2>3
      <3> QED BY <1>0, <2>1, <3>1 DEF HandledInv, Handled, Moved
    <2> QED BY <1>8, <2>2, <2>3, SwapDoes
  <1>9. ASSUME NEW t \in Threads, InUse(t) PROVE HandledInv'
    <2>1. /\ Moved(t) /\ thr[t].pc = "inuse" /\ UNCHANGED <<buffers, location, buffered>> /\ ready' \subseteq ready
      BY <1>9, InUseDoes DEF Queue
    <2> QED BY <2>1 DEF HandledInv, Handled, Moved
  <1>10. ASSUME NEW t \in Pushers, NEW n \in Nodes, ReturnMe(t, n) PROVE HandledInv'
    <2>0. t \in Threads
      BY Constants
    <2>1. /\ Moved(t) /\ thr[t].pc = "idle" /\ thr'[t].pc = "returning" /\ thr'[t].node = n
          /\ Store(t, "ready", n) /\ buffers' = buffers
      BY <1>10, ReturnMeDoes DEF Queue, Framed
    <2>2. ~buffers => buffered' = buffered /\ ready' = ready \cup {n} /\ location' = location
      BY <2>0, <2>1, StoreDoes
    <2> QED BY <2>0, <2>1, <2>2 DEF HandledInv, Handled, Moved
  <1>11. CASE ReleaseNode
    <2> DEFINE n == thr[Consumer].node
    <2>1. /\ Moved(Consumer) /\ thr[Consumer].pc = "release" /\ thr'[Consumer].pc = "released"
          /\ thr'[Consumer].node = n /\ n \in Nodes /\ Store(Consumer, "location", n) /\ buffers' = buffers
      BY <1>11, ReleaseDoes DEF Queue, Framed
    <2> HIDE DEF n
    <2>2. ~buffers => buffered' = buffered /\ ready' = ready /\ location' = [location EXCEPT ![n] = "outside"]
      BY <2>1, Constants, StoreDoes
    <2>3. ~buffers => \A m \in Nodes : location'[m] = "outside" => m = n \/ location[m] = "outside"
      BY <1>0, <2>1, <2>2
    <2> QED BY <1>0, <2>1, <2>2, <2>3, Constants DEF HandledInv, Handled, Moved
  <1>12. ASSUME NEW b \in buffered, Flush(b) PROVE HandledInv'
    <2>1. buffers' = buffers
      BY <1>12, FlushDoes DEF Queue
    <2> QED BY <1>12, <2>1 DEF HandledInv
  <1>13. CASE UNCHANGED vars
    BY <1>13 DEF vars, HandledInv, Handled
  <1> QED BY <1>1, <1>2, <1>3, <1>4, <1>5, <1>6, <1>7, <1>8, <1>9, <1>10, <1>11, <1>12, <1>13, Steps

\* Where stores reach memory at once, no node that was returned and has left the
\* queue is forgotten by both return_me and release_node, for any number of users.
THEOREM ReturnedIsNobodysToForget == Spec => []NobodyForgets
  <1>1. Init => TypeOK /\ HandledInv
    <2>1. Init => buffered = {} /\ ready = {}
      BY DEF Init
    <2> QED BY <2>1, TypeInit DEF HandledInv
  <1>2. TypeOK /\ HandledInv /\ [Next]_vars => TypeOK' /\ HandledInv'
    BY TypeStep, HandledStep
  <1>3. HandledInv => NobodyForgets
    BY DEF HandledInv, Handled, NobodyForgets
  <1> QED BY <1>1, <1>2, <1>3, PTL DEF Spec

---------------------------------------------------------------------------
(* The returning queue keeps what it refers to *)

LEMMA KeptMoved ==
    ASSUME TypeOK, TypeOK', manager = "returning", KeptInv, manager' = manager, live \subseteq live',
           NEW t \in Threads, Moved(t), {thr'[t].node, thr'[t].prev, thr'[t].cand} \subseteq live' \cup {Null},
           {sentinel', tail', head'} \subseteq live' \cup {Null},
           \A n \in Nodes : next'[n] \in live' \cup {Null} /\ (held'[n] > 0 => n \in live')
    PROVE  KeptInv'
  BY DEF KeptInv, Moved

LEMMA KeptStep ==
    ASSUME TypeOK, TypeOK', KeptInv, [Next]_vars
    PROVE  KeptInv'
  <1>0. CASE manager' # "returning"
    BY <1>0 DEF KeptInv
  <1> SUFFICES ASSUME manager = "returning" PROVE KeptInv'
    <2>1. manager' = manager
      BY DEF Next, vars, Push, GiveBack, Exchange, Link, LookLocation, CompareExchange, InUse, PushNew, ReturnMe,
             Peek, Pop, BlockingPop, Drain, PeekOrBuild, ReleaseNode, LookReady, Flush, fixed
    <2> QED BY <1>0, <2>1
  <1>1. /\ sentinel \in live /\ tail \in live /\ head \in live \cup {Null}
        /\ \A n \in Nodes : next[n] \in live \cup {Null} /\ (held[n] > 0 => n \in live)
        /\ \A t \in Threads : {thr[t].node, thr[t].prev, thr[t].cand} \subseteq live \cup {Null}
        /\ live \subseteq Nodes /\ Null \notin Nodes /\ next \in [Nodes -> Refs] /\ held \in [Nodes -> Nat]
    BY Constants DEF KeptInv, TypeOK
  <1>2. ASSUME NEW t \in Threads, Exchange(t) PROVE KeptInv'
    <2>1. /\ Moved(t) /\ thr[t].node \in Nodes /\ Framed(t, "link", thr[t].node, tail, thr[t].cand)
          /\ next' = [next EXCEPT ![thr[t].node] = Null] /\ tail' = thr[t].node
          /\ UNCHANGED <<manager, head, sentinel, live, held>>
      BY <1>2, ExchangeDoes
    <2>2. \A n \in Nodes : next'[n] \in live' \cup {Null} /\ (held'[n] > 0 => n \in live')
      BY <1>1, <2>1
    <2>3. {thr'[t].node, thr'[t].prev, thr'[t].cand} \subseteq live' \cup {Null}
      BY <1>1, <2>1 DEF Framed
    <2> QED BY <1>1, <2>1, <2>2, <2>3, KeptMoved
  <1>3. ASSUME NEW t \in Threads, Link(t) PROVE KeptInv'
    <2>1. /\ Moved(t) /\ thr[t].node \in Nodes /\ Framed(t, "idle", Null, Null, Null)
          /\ next' = [next EXCEPT ![thr[t].prev] = thr[t].node]
          /\ \A n \in Nodes : held'[n] > 0 => held[n] > 0 \/ n = thr[t].cand
          /\ UNCHANGED <<manager, head, sentinel, tail, live>>
      BY <1>3, LinkDoes
    <2>2. \A n \in Nodes : next'[n] \in live' \cup {Null} /\ (held'[n] > 0 => n \in live')
      BY <1>1, <2>1
    <2>3. {thr'[t].node, thr'[t].prev, thr'[t].cand} \subseteq live' \cup {Null}
      BY <1>1, <2>1 DEF Framed
    <2> QED BY <1>1, <2>1, <2>2, <2>3, KeptMoved
  <1>4. ASSUME NEW t \in Pushers, NEW n \in Nodes, PushNew(t, n) PROVE KeptInv'
    <2>1. /\ Moved(t) /\ Framed(t, "exchange", n, Null, Null) /\ live' = live \cup {n}
          /\ UNCHANGED <<manager, head, sentinel, tail, next, held>> /\ t \in Threads
      BY <1>4, PushNewDoes, Constants
    <2>2. {thr'[t].node, thr'[t].prev, thr'[t].cand} \subseteq live' \cup {Null}
      BY <2>1 DEF Framed
    <2> QED BY <1>1, <2>1, <2>2, KeptMoved
  <1>5. ASSUME NEW cand \in Refs, NEW after \in {"idle", "drain"}, Popping(cand, after) PROVE KeptInv'
    <2>1. /\ Moved(Consumer) /\ live' = live /\ (cand # Null => cand = head)
          /\ head' = next[sentinel] /\ (sentinel' = sentinel \/ (sentinel' = next[sentinel]))
          /\ \/ Framed(Consumer, "release", sentinel, Null, cand)
             \/ Framed(Consumer, after, thr[Consumer].node, thr[Consumer].prev, thr[Consumer].cand)
          /\ \A n \in Nodes : held'[n] > 0 => held[n] > 0 \/ n = cand
          /\ UNCHANGED <<manager, next, tail>>
      BY <1>5, PoppingDoes
    <2>2. {thr'[Consumer].node, thr'[Consumer].prev, thr'[Consumer].cand} \subseteq live' \cup {Null}
      BY <1>1, <2>1, Constants DEF Framed
    <2>3. {sentinel', tail', head'} \subseteq live' \cup {Null}
      BY <1>1, <2>1
    <2>4. \A n \in Nodes : next'[n] \in live' \cup {Null} /\ (held'[n] > 0 => n \in live')
      BY <1>1, <2>1
    <2> QED BY <1>1, <2>1, <2>2, <2>3, <2>4, Constants, KeptMoved
  <1>6. ASSUME NEW t \in Threads, \/ LookLocation(t) \/ CompareExchange(t) \/ InUse(t)
                                  \/ t = Consumer /\ (LookReady \/ ReleaseNode) PROVE KeptInv'
    <2>1. /\ Moved(t) /\ \A n \in Nodes : held'[n] > 0 => held[n] > 0 \/ n = thr[t].cand
      BY <1>6, LookLocationDoes, SwapDoes, InUseDoes, LookReadyDoes, ReleaseDoes
    <2>2. \/ Framed(t, "idle", Null, Null, Null)
          \/ \E pc : Framed(t, pc, thr[t].node, thr[t].prev, thr[t].cand)
      BY <1>6, LookLocationDoes, SwapDoes, InUseDoes, LookReadyDoes, ReleaseDoes DEF Looked
    <2>3. UNCHANGED <<manager, head, sentinel, tail, next, live>>
      BY <1>6, LookLocationDoes, SwapDoes, InUseDoes, LookReadyDoes, ReleaseDoes DEF Queue
    <2>4. {thr'[t].node, thr'[t].prev, thr'[t].cand} \subseteq live' \cup {Null}
      BY <1>1, <2>2, <2>3 DEF Framed
    <2>5. \A n \in Nodes : next'[n] \in live' \cup {Null} /\ (held'[n] > 0 => n \in live')
      BY <1>1, <2>1, <2>3
    <2> QED BY <1>1, <2>1, <2>3, <2>4, <2>5, KeptMoved
  <1>7. ASSUME NEW t \in Pushers, NEW n \in Nodes, ReturnMe(t, n) PROVE KeptInv'
    <2>1. /\ Moved(t) /\ Framed(t, "returning", n, Null, Null) /\ held' = [held EXCEPT ![n] = @ - 1]
          /\ held[n] > 0 /\ UNCHANGED <<manager, head, sentinel, tail, next, live>> /\ t \in Threads
      BY <1>7, ReturnMeDoes, Constants DEF Queue
    <2>2. {thr'[t].node, thr'[t].prev, thr'[t].cand} \subseteq live' \cup {Null}
      BY <1>1, <2>1 DEF Framed
    <2>3. \A m \in Nodes : held'[m] > 0 => held[m] > 0
      BY <1>1, <2>1
    <2> QED BY <1>1, <2>1, <2>2, <2>3, KeptMoved
  <1>8. ASSUME NEW b \in buffered, Flush(b) PROVE KeptInv'
    BY <1>8, FlushDoes DEF KeptInv, Queue
  <1>9. Closing => FALSE
    BY ClosingDoes
  <1>10. ASSUME NEW n \in Nodes, PeekOrBuild(n) PROVE FALSE
    BY <1>10, BuildDoes
  <1>11. CASE UNCHANGED vars
    BY <1>11 DEF vars, KeptInv
  <1> QED BY <1>2, <1>3, <1>4, <1>5, <1>6, <1>7, <1>8, <1>9, <1>10, <1>11, Steps, Constants

LEMMA KeptInit == Init => KeptInv
  <1> SUFFICES ASSUME Init PROVE KeptInv
    OBVIOUS
  <1>1. PICK stub \in Nodes :
          /\ next = [n \in Nodes |-> Null]
          /\ tail = stub /\ sentinel = stub /\ head = stub /\ live = {stub}
          /\ thr = [t \in Threads |-> Idle] /\ held = [n \in Nodes |-> 0]
    BY DEF Init
  <1> QED BY <1>1, IdleFrame DEF KeptInv

---------------------------------------------------------------------------
(* The chain, step by step *)

Chain(c, lo, hi) == c \in [Nat -> Nodes] /\ lo \in Nat /\ hi \in Nat /\ ChainAt(c, lo, hi)

\* The chain of the deleting queue, which owns what it holds.
OwnChain(c, lo, hi) == Chain(c, lo, hi) /\ Owned(c, lo, hi)

\* A pusher of the deleting queue is idle or pushing; the consumer is neither.
LEMMA GeneralThreads ==
    ASSUME TypeOK, manager = "general"
    PROVE  /\ \A t \in Pushers : thr[t].pc \in {"idle", "exchange", "link"}
           /\ \A t \in Threads : Pushing(t) => t \in Pushers /\ thr[t].node \in Nodes
           /\ thr[Consumer].pc \in {"idle", "drain", "closed"}
  BY Constants DEF TypeOK, ThreadOf, Pushing

\* A thread that pushes keeps the queue open, and its node is allocated.
LEMMA PushedIsLive ==
    ASSUME TypeOK, manager = "general", NEW c, NEW lo, NEW hi, OwnChain(c, lo, hi), thr[Consumer].pc # "closed"
    PROVE  /\ \A t \in Threads : Pushing(t) => thr[t].node \in live
           /\ \A i \in lo..hi : c[i] \in live /\ c[i] \in Nodes
           /\ isExtra => head \in live
  <1>1. /\ live = Chained(c, lo, hi) \cup {n \in Nodes : Apart(n)} /\ lo \in Nat /\ hi \in Nat
        /\ c \in [Nat -> Nodes] /\ head \in Refs /\ (isExtra => head # Null)
    BY DEF OwnChain, Chain, Owned, TypeOK
  <1>2. \A i \in lo..hi : c[i] \in live /\ c[i] \in Nodes
    BY <1>1 DEF Chained
  <1>3. ASSUME NEW t \in Threads, thr[t].pc = "exchange" PROVE thr[t].node \in live
    BY <1>1, <1>3, GeneralThreads DEF Apart, Pushing
  <1>4. ASSUME NEW t \in Threads, thr[t].pc = "link" PROVE thr[t].node \in live
    <2>1. PICK i \in lo..(hi - 1) : Linking(t, c[i], c[i + 1])
      BY <1>4 DEF OwnChain, Chain, ChainAt
    <2>2. i + 1 \in lo..hi
      BY <1>1, <2>1
    <2> QED BY <1>2, <2>1, <2>2 DEF Linking
  <1>5. isExtra => head \in live
    BY <1>1 DEF Apart, Refs
  <1> QED BY <1>2, <1>3, <1>4, <1>5 DEF Pushing

\* A thread that starts to push a node that is not yet on the chain.
LEMMA StartChain ==
    ASSUME NEW c, NEW lo, NEW hi, Chain(c, lo, hi), NEW t \in Threads, NEW n \in Nodes, Moved(t), ~Pushing(t),
           thr'[t].pc = "exchange", thr'[t].node = n, UNCHANGED <<next, tail, head, isExtra, sentinel>>,
           n \notin Chained(c, lo, hi), isExtra => head # n,
           \A u \in Threads : Pushing(u) => thr[u].node # n
    PROVE  Chain(c, lo, hi)' /\ \A m \in Nodes : Apart(m)' <=> Apart(m) \/ m = n
  <1>1. c \in [Nat -> Nodes] /\ lo \in Nat /\ hi \in Nat /\ ChainAt(c, lo, hi)
    BY DEF Chain
  <1>2. \A u \in Threads \ {t} : thr'[u] = thr[u]
    BY DEF Moved
  <1>3. \A u \in Threads : thr'[u].pc = "link" <=> thr[u].pc = "link"
    BY <1>2 DEF Pushing
  <1>4. \A u \in Threads : thr[u].pc = "link" => thr'[u] = thr[u]
    BY <1>2 DEF Pushing
  <1>5. \A x, y : Joined(x, y) => Joined(x, y)'
    BY <1>3, <1>4 DEF Joined, Linking
  <1>6. \A u \in Threads : thr'[u].pc = "link" => \E i \in lo..(hi - 1) : Linking(u, c[i], c[i + 1])'
    BY <1>1, <1>3, <1>4 DEF ChainAt, Linking
  <1>7. \A m \in Nodes : Apart(m)' <=> Apart(m) \/ m = n
    BY <1>2 DEF Apart, Pushing
  <1>8. \A u, w \in Threads : Pushing(u)' /\ Pushing(w)' /\ thr'[u].node = thr'[w].node => u = w
    BY <1>1, <1>2 DEF ChainAt, Pushing
  <1>9. \A m \in Nodes : Apart(m)' => m \notin Chained(c, lo, hi)
    BY <1>1, <1>7 DEF ChainAt
  <1>10. isExtra => \A u \in Threads : thr'[u].pc = "exchange" => thr'[u].node # head
    BY <1>1, <1>2 DEF ChainAt
  <1>11. ChainAt(c, lo, hi)'
    BY <1>1, <1>5, <1>6, <1>8, <1>9, <1>10 DEF ChainAt, Chained
  <1> QED BY <1>1, <1>7, <1>11 DEF Chain

LEMMA PushNewChain ==
    ASSUME TypeOK, manager = "general", NEW c, NEW lo, NEW hi, OwnChain(c, lo, hi),
           NEW t \in Pushers, NEW n \in Nodes, PushNew(t, n)
    PROVE  OwnChain(c, lo, hi)'
  <1>1. /\ Moved(t) /\ thr[t].pc = "idle" /\ thr'[t].pc = "exchange" /\ thr'[t].node = n
        /\ thr[Consumer].pc # "closed" /\ n \notin live /\ live' = live \cup {n}
        /\ UNCHANGED <<next, tail, head, isExtra, sentinel>> /\ t \in Threads /\ t # Consumer /\ Consumer \in Threads
    BY PushNewDoes, Constants DEF Framed
  <1>2. /\ \A u \in Threads : Pushing(u) => thr[u].node \in live
        /\ \A i \in lo..hi : c[i] \in live
        /\ isExtra => head \in live
    BY <1>1, PushedIsLive
  <1>3. Chain(c, lo, hi) /\ live = Chained(c, lo, hi) \cup {m \in Nodes : Apart(m)}
    BY <1>1 DEF OwnChain, Owned
  <1>4. Chain(c, lo, hi)' /\ \A m \in Nodes : Apart(m)' <=> Apart(m) \/ m = n
    <2>1. n \notin Chained(c, lo, hi) /\ ~Pushing(t)
      BY <1>1, <1>2 DEF Chained, Pushing
    <2> QED BY <1>1, <1>2, <1>3, <2>1, StartChain
  <1>5. Owned(c, lo, hi)'
    <2>1. thr'[Consumer].pc # "closed"
      BY <1>1 DEF Moved
    <2>2. live' = Chained(c, lo, hi) \cup {m \in Nodes : Apart(m)'}
      BY <1>1, <1>3, <1>4
    <2> QED BY <2>1, <2>2 DEF Owned, Chained
  <1> QED BY <1>4, <1>5 DEF OwnChain

LEMMA ExchangeChain ==
    ASSUME TypeOK, NEW c, NEW lo, NEW hi, Chain(c, lo, hi), NEW t \in Threads, Exchange(t),
           NEW n, n = thr[t].node, NEW d, d = [c EXCEPT ![hi + 1] = n]
    PROVE  Chain(d, lo, hi + 1)' /\ (manager = "general" /\ Owned(c, lo, hi) => Owned(d, lo, hi + 1)')
  <1>1. /\ Moved(t) /\ thr[t].pc = "exchange" /\ n \in Nodes /\ thr'[t].pc = "link" /\ thr'[t].node = n
        /\ thr'[t].prev = tail /\ next' = [next EXCEPT ![n] = Null] /\ tail' = n
        /\ UNCHANGED <<head, isExtra, sentinel, live>> /\ next \in [Nodes -> Refs]
    BY ExchangeDoes DEF Framed, TypeOK
  <1>3. c \in [Nat -> Nodes] /\ lo \in Nat /\ hi \in Nat /\ ChainAt(c, lo, hi) /\ lo <= hi
    BY DEF Chain, ChainAt
  <1>4. /\ Apart(n) /\ \A i \in lo..hi : c[i] # n
    <2>1. Apart(n)
      BY <1>1 DEF Apart
    <2> QED BY <1>1, <1>3, <2>1 DEF ChainAt, Chained
  <1>5. /\ d \in [Nat -> Nodes] /\ hi + 1 \in Nat /\ d[hi + 1] = n /\ \A i \in lo..hi : d[i] = c[i]
    BY <1>1, <1>3
  <1>6. \A u \in Threads \ {t} : thr'[u] = thr[u]
    BY <1>1 DEF Moved
  <1>7. d[lo] = sentinel' /\ d[hi + 1] = tail' /\ next'[tail'] = Null /\ c[hi] = tail /\ c[lo] = sentinel
    BY <1>1, <1>3, <1>5 DEF ChainAt
  <1>8. \A i, j \in lo..(hi + 1) : d[i] = d[j] => i = j
    <2>1. \A i, j \in lo..hi : c[i] = c[j] => i = j
      BY <1>3 DEF ChainAt
    <2>2. \A i \in lo..(hi + 1) : i = hi + 1 \/ i \in lo..hi
      BY <1>3
    <2> QED BY <1>4, <1>5, <2>1, <2>2
  <1>9. ASSUME NEW i \in lo..hi PROVE Joined(d[i], d[i + 1])'
    <2>1. CASE i = hi
      <3>1. next'[tail] = Null
        BY <1>1, <1>3, <1>7 DEF ChainAt, TypeOK
      <3> QED BY <1>1, <1>3, <1>5, <1>7, <2>1, <3>1 DEF Joined, Linking
    <2>2. CASE i # hi
      <3>1. i \in lo..(hi - 1) /\ i + 1 \in lo..hi /\ hi \in lo..hi
        BY <1>3, <2>2
      <3>2. Joined(c[i], c[i + 1]) /\ c[i] # tail /\ c[i] \in Nodes
        BY <1>3, <1>7, <2>2, <3>1 DEF ChainAt
      <3>3. next'[c[i]] = next[c[i]]
        BY <1>1, <1>4, <3>2
      <3>4. Joined(c[i], c[i + 1])'
        BY <1>1, <1>6, <3>2, <3>3 DEF Joined, Linking
      <3> QED BY <1>5, <3>1, <3>4
    <2> QED BY <2>1, <2>2
  <1>10. ASSUME NEW u \in Threads, thr'[u].pc = "link" PROVE \E i \in lo..hi : Linking(u, d[i], d[i + 1])'
    <2>1. CASE u = t
      BY <1>1, <1>3, <1>5, <1>7, <2>1 DEF Linking
    <2>2. CASE u # t
      <3>1. PICK i \in lo..(hi - 1) : Linking(u, c[i], c[i + 1])
        BY <1>3, <1>6, <1>10, <2>2 DEF ChainAt
      <3>2. i \in lo..hi /\ i + 1 \in lo..hi
        BY <1>3, <3>1
      <3> QED BY <1>5, <1>6, <2>2, <3>1, <3>2 DEF Linking
    <2> QED BY <2>1, <2>2
  <1>11. \A u, w \in Threads : Pushing(u)' /\ Pushing(w)' /\ thr'[u].node = thr'[w].node => u = w
    BY <1>1, <1>3, <1>6 DEF ChainAt, Pushing
  <1>12. \A m \in Nodes : Apart(m)' <=> Apart(m) /\ m # n
    BY <1>1, <1>3, <1>6 DEF Apart, ChainAt, Pushing
  <1>13. Chained(d, lo, hi + 1) = Chained(c, lo, hi) \cup {n}
    <2>1. /\ \A i \in lo..(hi + 1) : i = hi + 1 \/ i \in lo..hi
          /\ lo..hi \subseteq lo..(hi + 1) /\ hi + 1 \in lo..(hi + 1)
      BY <1>3
    <2> QED BY <1>5, <2>1 DEF Chained
  <1>14. \A m \in Nodes : Apart(m)' => m \notin Chained(d, lo, hi + 1)
    BY <1>3, <1>12, <1>13 DEF ChainAt
  <1>15. isExtra => \A u \in Threads : thr'[u].pc = "exchange" => thr'[u].node # head
    BY <1>1, <1>3, <1>6 DEF ChainAt
  <1>16. ~isExtra => head \in {Null, sentinel}
    BY <1>3 DEF ChainAt
  <1>17. ChainAt(d, lo, hi + 1)'
    <2>1. lo <= hi + 1 /\ (hi + 1) - 1 = hi
      BY <1>3
    <2> QED BY <1>1, <1>7, <1>8, <1>9, <1>10, <1>11, <1>14, <1>15, <1>16, <2>1 DEF ChainAt, Chained
  <1>18. ASSUME manager = "general", Owned(c, lo, hi) PROVE Owned(d, lo, hi + 1)'
    <2>0. t \in Pushers /\ t # Consumer /\ Consumer \in Threads
      BY <1>1, <1>18, GeneralThreads, Constants DEF Pushing
    <2>1. live = Chained(c, lo, hi) \cup {m \in Nodes : Apart(m)} /\ thr[Consumer].pc # "closed"
      BY <1>1, <1>18, <2>0 DEF Owned
    <2>2. thr'[Consumer].pc # "closed"
      BY <1>6, <2>0, <2>1
    <2>3. live' = Chained(d, lo, hi + 1) \cup {m \in Nodes : Apart(m)'}
      BY <1>1, <1>4, <1>12, <1>13, <2>1
    <2> QED BY <2>2, <2>3 DEF Owned, Chained
  <1> QED BY <1>3, <1>5, <1>17, <1>18 DEF Chain

LEMMA LinkChain ==
    ASSUME TypeOK, NEW c, NEW lo, NEW hi, Chain(c, lo, hi), NEW t \in Threads, Link(t)
    PROVE  Chain(c, lo, hi)' /\ (manager = "general" /\ Owned(c, lo, hi) => Owned(c, lo, hi)')
  <1>1. /\ Moved(t) /\ thr[t].pc = "link" /\ thr'[t].pc = "idle" /\ thr[t].node \in Nodes /\ thr[t].prev \in Nodes
        /\ next' = [next EXCEPT ![thr[t].prev] = thr[t].node]
        /\ UNCHANGED <<tail, head, isExtra, sentinel, live>> /\ next \in [Nodes -> Refs]
    BY LinkDoes DEF Framed, TypeOK
  <1>3. c \in [Nat -> Nodes] /\ lo \in Nat /\ hi \in Nat /\ ChainAt(c, lo, hi) /\ lo <= hi
    BY DEF Chain, ChainAt
  <1>4. \A u \in Threads \ {t} : thr'[u] = thr[u]
    BY <1>1 DEF Moved
  <1>5. PICK k \in lo..(hi - 1) : Linking(t, c[k], c[k + 1])
    BY <1>1, <1>3 DEF ChainAt
  <1>6. /\ thr[t].prev = c[k] /\ thr[t].node = c[k + 1] /\ k \in lo..hi /\ hi \in lo..hi /\ k # hi
        /\ \A i, j \in lo..hi : c[i] = c[j] => i = j
    BY <1>3, <1>5 DEF Linking, ChainAt
  <1>7. next'[tail] = Null
    <2>1. c[hi] = tail /\ next[tail] = Null /\ c[k] # c[hi] /\ tail \in Nodes
      BY <1>3, <1>6 DEF ChainAt, TypeOK
    <2> QED BY <1>1, <1>6, <2>1
  <1>8. ASSUME NEW u \in Threads, u # t, thr[u].pc = "link" PROVE thr[u].prev # c[k]
    <2>1. PICK j \in lo..(hi - 1) : Linking(u, c[j], c[j + 1])
      BY <1>3, <1>8 DEF ChainAt
    <2>2. j \in lo..hi
      BY <1>3, <2>1
    <2>3. thr[u].prev = c[k] => thr[u].node = thr[t].node
      BY <1>6, <2>1, <2>2 DEF Linking
    <2> QED BY <1>1, <1>3, <1>8, <2>3 DEF ChainAt, Pushing
  <1>9. ASSUME NEW i \in lo..(hi - 1) PROVE Joined(c[i], c[i + 1])'
    <2>1. CASE i = k
      <3>1. next'[c[k]] = c[k + 1]
        BY <1>1, <1>6
      <3> QED BY <1>1, <1>4, <1>8, <2>1, <3>1 DEF Joined
    <2>2. CASE i # k
      <3>1. i \in lo..hi /\ c[i] # c[k] /\ c[i] \in Nodes /\ Joined(c[i], c[i + 1])
        BY <1>3, <1>6, <2>2 DEF ChainAt
      <3>2. next'[c[i]] = next[c[i]]
        BY <1>1, <1>6, <3>1
      <3> QED BY <1>1, <1>4, <1>6, <3>1, <3>2 DEF Joined, Linking
    <2> QED BY <2>1, <2>2
  <1>10. ASSUME NEW u \in Threads, thr'[u].pc = "link" PROVE \E i \in lo..(hi - 1) : Linking(u, c[i], c[i + 1])'
    BY <1>1, <1>3, <1>4, <1>10 DEF ChainAt, Linking
  <1>11. \A u, w \in Threads : Pushing(u)' /\ Pushing(w)' /\ thr'[u].node = thr'[w].node => u = w
    BY <1>1, <1>3, <1>4 DEF ChainAt, Pushing
  <1>12. \A m : Apart(m)' <=> Apart(m)
    BY <1>1, <1>4 DEF Apart
  <1>13. isExtra => \A u \in Threads : thr'[u].pc = "exchange" => thr'[u].node # head
    BY <1>1, <1>3, <1>4 DEF ChainAt
  <1>14. ChainAt(c, lo, hi)'
    BY <1>1, <1>3, <1>7, <1>9, <1>10, <1>11, <1>12, <1>13 DEF ChainAt, Chained
  <1>15. ASSUME manager = "general", Owned(c, lo, hi) PROVE Owned(c, lo, hi)'
    <2>0. t \in Pushers /\ t # Consumer /\ Consumer \in Threads
      BY <1>1, <1>15, GeneralThreads, Constants DEF Pushing
    <2>1. live = Chained(c, lo, hi) \cup {m \in Nodes : Apart(m)} /\ thr[Consumer].pc # "closed"
      BY <1>1, <1>15, <2>0 DEF Owned
    <2>2. thr'[Consumer].pc # "closed"
      BY <1>4, <2>0, <2>1
    <2>3. live' = Chained(c, lo, hi) \cup {m \in Nodes : Apart(m)'}
      BY <1>1, <1>12, <2>1
    <2> QED BY <2>2, <2>3 DEF Owned, Chained
  <1> QED BY <1>3, <1>14, <1>15 DEF Chain

\* What a consumer finds behind the sentinel.
LEMMA Behind ==
    ASSUME TypeOK, NEW c, NEW lo, NEW hi, Chain(c, lo, hi)
    PROVE  /\ next[sentinel] # Null => /\ lo < hi /\ next[sentinel] = c[lo + 1]
                                       /\ \A t \in Threads : thr[t].pc = "link" => thr[t].prev # sentinel
           /\ next[sentinel] = Null /\ lo < hi => \E t \in Threads : thr[t].pc = "link"
  <1>1. /\ c \in [Nat -> Nodes] /\ lo \in Nat /\ hi \in Nat /\ lo <= hi
        /\ c[lo] = sentinel /\ c[hi] = tail /\ next[tail] = Null
        /\ \A i \in lo..(hi - 1) : Joined(c[i], c[i + 1])
    BY DEF Chain, ChainAt
  <1>2. CASE lo = hi
    BY <1>1, <1>2
  <1>3. CASE lo < hi
    <2>1. lo \in lo..(hi - 1) /\ c[lo + 1] \in Nodes
      BY <1>1, <1>3
    <2>2. Joined(sentinel, c[lo + 1])
      BY <1>1, <2>1
    <2> QED BY <1>3, <2>1, <2>2, Constants DEF Joined, Linking
  <1> QED BY <1>1, <1>2, <1>3

\* A pop that finds nothing behind the sentinel.
LEMMA PopLastChain ==
    ASSUME TypeOK, NEW c, NEW lo, NEW hi, Chain(c, lo, hi),
           NEW cand \in Refs, NEW after \in {"idle", "drain"}, Popping(cand, after), next[sentinel] = Null
    PROVE  Chain(c, lo, hi)' /\ (manager = "general" /\ Owned(c, lo, hi) => Owned(c, lo, hi)')
  <1>1. /\ thr[Consumer].pc \in {"idle", "drain"} /\ Moved(Consumer) /\ head' = Null /\ ~isExtra'
        /\ thr'[Consumer].pc \in {"idle", "drain", "release"} /\ sentinel' = sentinel
        /\ manager = "general" => live' = live \ LeftBehind(Null)
        /\ UNCHANGED <<next, tail>> /\ Consumer \in Threads
    <2>1. "general" # "returning"
      OBVIOUS
    <2> QED BY <2>1, PoppingDoes, Constants DEF Framed
  <1>2. LeftBehind(Null) = IF isExtra THEN {head} ELSE {}
    BY DEF LeftBehind
  <1>3. c \in [Nat -> Nodes] /\ lo \in Nat /\ hi \in Nat /\ ChainAt(c, lo, hi)
    BY DEF Chain
  <1>4. \A u \in Threads \ {Consumer} : thr'[u] = thr[u]
    BY <1>1 DEF Moved
  <1>5. \A u \in Threads : Pushing(u) => thr'[u] = thr[u]
    BY <1>1, <1>4 DEF Pushing
  <1>6. \A u \in Threads : thr'[u].pc \in {"exchange", "link"} => thr'[u] = thr[u]
    BY <1>1, <1>4
  <1>7. \A x, y : Joined(x, y) => Joined(x, y)'
    BY <1>1, <1>5, <1>6 DEF Joined, Linking, Pushing
  <1>8. \A u \in Threads : thr'[u].pc = "link" => \E i \in lo..(hi - 1) : Linking(u, c[i], c[i + 1])'
    BY <1>3, <1>6 DEF ChainAt, Linking
  <1>9. \A u, w \in Threads : Pushing(u)' /\ Pushing(w)' /\ thr'[u].node = thr'[w].node => u = w
    BY <1>3, <1>6 DEF ChainAt, Pushing
  <1>10. \A m : Apart(m)' <=> Apart(m) /\ ~(isExtra /\ m = head)
    BY <1>1, <1>3, <1>5, <1>6 DEF Apart, ChainAt, Pushing
  <1>11. ChainAt(c, lo, hi)'
    BY <1>1, <1>3, <1>7, <1>8, <1>9, <1>10 DEF ChainAt, Chained
  <1>12. ASSUME manager = "general", Owned(c, lo, hi) PROVE Owned(c, lo, hi)'
    <2>1. live = Chained(c, lo, hi) \cup {m \in Nodes : Apart(m)}
      BY <1>1, <1>12 DEF Owned
    <2>2. isExtra => head \notin Chained(c, lo, hi)
      BY <1>3 DEF ChainAt, Apart, TypeOK, Refs
    <2>3. live' = Chained(c, lo, hi) \cup {m \in Nodes : Apart(m)'}
      BY <1>1, <1>2, <1>10, <1>12, <2>1, <2>2
    <2>4. thr'[Consumer].pc # "closed"
      BY <1>1
    <2> QED BY <2>3, <2>4 DEF Owned, Chained
  <1> QED BY <1>3, <1>11, <1>12 DEF Chain

\* A pop that moves the sentinel.
LEMMA PopNextChain ==
    ASSUME TypeOK, NEW c, NEW lo, NEW hi, Chain(c, lo, hi),
           NEW cand \in Refs, NEW after \in {"idle", "drain"}, Popping(cand, after), next[sentinel] # Null
    PROVE  /\ Chain(c, lo + 1, hi)' /\ lo < hi /\ head' = c[lo + 1]
           /\ Chained(c, lo, hi) = Chained(c, lo + 1, hi) \cup {sentinel} /\ sentinel \notin Chained(c, lo + 1, hi)
           /\ manager = "general" /\ Owned(c, lo, hi) => Owned(c, lo + 1, hi)'
  <1>1. /\ thr[Consumer].pc \in {"idle", "drain"} /\ Moved(Consumer) /\ head' = next[sentinel] /\ ~isExtra'
        /\ thr'[Consumer].pc \in {"idle", "drain", "release"} /\ sentinel' = next[sentinel]
        /\ manager = "general" => live' = live \ LeftBehind(next[sentinel])
        /\ UNCHANGED <<next, tail>> /\ Consumer \in Threads
    <2>1. "general" # "returning"
      OBVIOUS
    <2> QED BY <2>1, PoppingDoes, Constants DEF Framed
  <1>2. LeftBehind(next[sentinel]) = (IF isExtra THEN {head} ELSE {}) \cup {sentinel}
    BY DEF LeftBehind
  <1>3. c \in [Nat -> Nodes] /\ lo \in Nat /\ hi \in Nat /\ ChainAt(c, lo, hi)
    BY DEF Chain
  <1>4. \A u \in Threads \ {Consumer} : thr'[u] = thr[u]
    BY <1>1 DEF Moved
  <1>5. \A u \in Threads : Pushing(u) => thr'[u] = thr[u]
    BY <1>1, <1>4 DEF Pushing
  <1>6. \A u \in Threads : thr'[u].pc \in {"exchange", "link"} => thr'[u] = thr[u]
    BY <1>1, <1>4
  <1>7. /\ lo < hi /\ next[sentinel] = c[lo + 1] /\ c[lo] = sentinel
        /\ \A u \in Threads : thr[u].pc = "link" => thr[u].prev # c[lo]
    BY <1>3, Behind DEF ChainAt
  <1>8. /\ lo + 1 \in Nat /\ lo + 1 <= hi /\ (lo + 1)..hi \subseteq lo..hi /\ (lo + 1)..(hi - 1) \subseteq lo..(hi - 1)
        /\ lo \in lo..hi /\ \A i \in lo..hi : i = lo \/ i \in (lo + 1)..hi
    BY <1>3, <1>7
  <1>9. \A x, y : Joined(x, y) => Joined(x, y)'
    BY <1>1, <1>5, <1>6 DEF Joined, Linking, Pushing
  <1>10. ASSUME NEW u \in Threads, thr'[u].pc = "link"
         PROVE  \E i \in (lo + 1)..(hi - 1) : Linking(u, c[i], c[i + 1])'
    <2>1. thr'[u] = thr[u]
      BY <1>6, <1>10
    <2>2. PICK i \in lo..(hi - 1) : Linking(u, c[i], c[i + 1])
      BY <1>3, <1>10, <2>1 DEF ChainAt
    <2>3. i # lo
      BY <1>7, <1>10, <2>1, <2>2 DEF Linking
    <2>4. i \in (lo + 1)..(hi - 1)
      BY <1>3, <2>2, <2>3
    <2> QED BY <2>1, <2>2, <2>4 DEF Linking
  <1>11. \A u, w \in Threads : Pushing(u)' /\ Pushing(w)' /\ thr'[u].node = thr'[w].node => u = w
    BY <1>3, <1>6 DEF ChainAt, Pushing
  <1>12. \A m : Apart(m)' <=> Apart(m) /\ ~(isExtra /\ m = head)
    BY <1>1, <1>3, <1>5, <1>6 DEF Apart, ChainAt, Pushing
  <1>13. Chained(c, lo, hi) = Chained(c, lo + 1, hi) \cup {sentinel} /\ sentinel \notin Chained(c, lo + 1, hi)
    <2>1. \A i \in (lo + 1)..hi : c[i] # c[lo]
      <3>1. \A i, j \in lo..hi : c[i] = c[j] => i = j
        BY <1>3 DEF ChainAt
      <3> QED BY <1>3, <1>8, <3>1
    <2> QED BY <1>7, <1>8, <2>1 DEF Chained
  <1>14. ChainAt(c, lo + 1, hi)'
    <2>1. c[lo + 1] = sentinel' /\ c[hi] = tail' /\ next'[tail'] = Null
      BY <1>1, <1>3, <1>7 DEF ChainAt
    <2>2. \A i, j \in (lo + 1)..hi : c[i] = c[j] => i = j
      BY <1>3, <1>8 DEF ChainAt
    <2>3. \A i \in (lo + 1)..(hi - 1) : Joined(c[i], c[i + 1])'
      BY <1>3, <1>8, <1>9 DEF ChainAt
    <2>4. \A m \in Nodes : Apart(m)' => m \notin Chained(c, lo + 1, hi)
      BY <1>3, <1>12, <1>13 DEF ChainAt
    <2> QED BY <1>1, <1>8, <1>10, <1>11, <2>1, <2>2, <2>3, <2>4 DEF ChainAt, Chained
  <1>15. ASSUME manager = "general", Owned(c, lo, hi) PROVE Owned(c, lo + 1, hi)'
    <2>1. live = Chained(c, lo, hi) \cup {m \in Nodes : Apart(m)}
      BY <1>1, <1>15 DEF Owned
    <2>2. isExtra => head \notin Chained(c, lo, hi)
      BY <1>3 DEF ChainAt, Apart, TypeOK, Refs
    <2>3. ~Apart(sentinel)
      BY <1>3, <1>13 DEF ChainAt, TypeOK
    <2>4. live' = Chained(c, lo + 1, hi) \cup {m \in Nodes : Apart(m)'}
      BY <1>1, <1>2, <1>12, <1>13, <1>15, <2>1, <2>2, <2>3
    <2>5. thr'[Consumer].pc # "closed"
      BY <1>1
    <2> QED BY <2>4, <2>5 DEF Owned, Chained
  <1> QED BY <1>1, <1>3, <1>7, <1>8, <1>13, <1>14, <1>15 DEF Chain

\* The destructor's last step frees the last node.
LEMMA ClosingChain ==
    ASSUME TypeOK, manager = "general", NEW c, NEW lo, NEW hi, OwnChain(c, lo, hi), Closing
    PROVE  OwnChain(c, lo, hi)' /\ live' = {}
  <1>1. /\ (\A t \in Pushers : thr[t].pc = "idle") /\ head = Null /\ next[sentinel] = Null
        /\ thr[Consumer].pc \in {"idle", "drain"} /\ thr'[Consumer].pc = "closed" /\ Moved(Consumer)
        /\ live' = live \ {sentinel} /\ UNCHANGED <<next, tail, head, isExtra, sentinel>>
    BY ClosingDoes
  <1>2. /\ c \in [Nat -> Nodes] /\ lo \in Nat /\ hi \in Nat /\ ChainAt(c, lo, hi) /\ ~isExtra
    BY <1>1 DEF OwnChain, Chain, TypeOK
  <1>3. \A t \in Threads : thr[t].pc \in {"idle", "drain"} /\ thr'[t].pc \in {"idle", "closed"}
    BY <1>1, Constants DEF Moved
  <1>4. lo = hi
    BY <1>1, <1>2, <1>3, Behind DEF Chain, ChainAt
  <1>5. (\A m : ~Apart(m)) /\ (\A m : ~Apart(m)')
    BY <1>1, <1>2, <1>3 DEF Apart
  <1>6. live' = {}
    <2>1. live = Chained(c, lo, hi) \cup {m \in Nodes : Apart(m)}
      BY <1>1 DEF OwnChain, Owned
    <2>2. Chained(c, lo, hi) = {sentinel}
      BY <1>2, <1>4 DEF Chained, ChainAt
    <2> QED BY <1>1, <1>5, <2>1, <2>2
  <1>7. ChainAt(c, lo, hi)'
    <2>1. lo..(hi - 1) = {}
      BY <1>2, <1>4
    <2> QED BY <1>1, <1>2, <1>3, <1>5, <2>1 DEF ChainAt, Pushing, Chained
  <1>8. Owned(c, lo, hi)'
    BY <1>1, <1>4, <1>6, Constants DEF Owned, Moved
  <1> QED BY <1>2, <1>6, <1>7, <1>8 DEF OwnChain, Chain

LEMMA BuildChain ==
    ASSUME TypeOK, manager = "general", NEW c, NEW lo, NEW hi, OwnChain(c, lo, hi), NEW n \in Nodes, PeekOrBuild(n)
    PROVE  OwnChain(c, lo, hi)'
  <1>1. /\ thr[Consumer].pc = "idle" /\ head = Null /\ n \notin live /\ live' = live \cup {n} /\ head' = n /\ isExtra'
        /\ UNCHANGED <<next, tail, sentinel, thr>>
    BY BuildDoes
  <1>2. /\ \A u \in Threads : Pushing(u) => thr[u].node \in live
        /\ \A i \in lo..hi : c[i] \in live
    BY <1>1, PushedIsLive
  <1>3. c \in [Nat -> Nodes] /\ lo \in Nat /\ hi \in Nat /\ ChainAt(c, lo, hi) /\ ~isExtra
    BY <1>1 DEF OwnChain, Chain, TypeOK
  <1>4. \A m : Apart(m)' <=> Apart(m) \/ m = n
    BY <1>1, <1>3 DEF Apart
  <1>5. n \notin Chained(c, lo, hi)
    BY <1>1, <1>2 DEF Chained
  <1>6. \A u \in Threads : thr[u].pc = "exchange" => thr[u].node # n
    BY <1>1, <1>2 DEF Pushing
  <1>7. \A x, y : Joined(x, y)' <=> Joined(x, y)
    BY <1>1 DEF Joined, Linking
  <1>8. ChainAt(c, lo, hi)'
    <2>1. \A t \in Threads : thr'[t].pc = "link" => \E i \in lo..(hi - 1) : Linking(t, c[i], c[i + 1])'
      BY <1>1, <1>3 DEF ChainAt, Linking
    <2>2. \A t, u \in Threads : Pushing(t)' /\ Pushing(u)' /\ thr'[t].node = thr'[u].node => t = u
      BY <1>1, <1>3 DEF ChainAt, Pushing
    <2>3. \A m \in Nodes : Apart(m)' => m \notin Chained(c, lo, hi)
      BY <1>3, <1>4, <1>5 DEF ChainAt
    <2> QED BY <1>1, <1>3, <1>6, <1>7, <2>1, <2>2, <2>3 DEF ChainAt, Chained
  <1>9. Owned(c, lo, hi)'
    <2>1. live = Chained(c, lo, hi) \cup {m \in Nodes : Apart(m)}
      BY <1>1 DEF OwnChain, Owned
    <2>2. live' = Chained(c, lo, hi) \cup {m \in Nodes : Apart(m)'}
      BY <1>1, <1>4, <2>1
    <2> QED BY <1>1, <2>2 DEF Owned, Chained
  <1> QED BY <1>3, <1>8, <1>9 DEF OwnChain, Chain

\* A step that leaves the queue and the threads alone.
LEMMA StillChain ==
    ASSUME NEW c, NEW lo, NEW hi, Chain(c, lo, hi), UNCHANGED <<next, tail, head, isExtra, sentinel, live, thr>>
    PROVE  Chain(c, lo, hi)' /\ (Owned(c, lo, hi) => Owned(c, lo, hi)')
  <1>1. \A m : Apart(m)' <=> Apart(m)
    BY DEF Apart
  <1>2. \A x, y : Joined(x, y)' <=> Joined(x, y)
    BY DEF Joined, Linking
  <1>3. c \in [Nat -> Nodes] /\ lo \in Nat /\ hi \in Nat /\ ChainAt(c, lo, hi)
    BY DEF Chain
  <1>4. ChainAt(c, lo, hi)'
    <2>1. \A t \in Threads : thr'[t].pc = "link" => \E i \in lo..(hi - 1) : Linking(t, c[i], c[i + 1])'
      BY <1>3 DEF ChainAt, Linking
    <2>2. \A t, u \in Threads : Pushing(t)' /\ Pushing(u)' /\ thr'[t].node = thr'[u].node => t = u
      BY <1>3 DEF ChainAt, Pushing
    <2> QED BY <1>1, <1>2, <1>3, <2>1, <2>2 DEF ChainAt, Chained
  <1>5. Owned(c, lo, hi) => Owned(c, lo, hi)'
    BY <1>1 DEF Owned, Chained
  <1> QED BY <1>3, <1>4, <1>5 DEF Chain

\* The steps of the deleting queue.
LEMMA GeneralSteps ==
    ASSUME TypeOK, manager = "general", [Next]_vars
    PROVE  /\ manager' = manager
           /\ \/ \E t \in Threads : Exchange(t) \/ Link(t)
              \/ \E t \in Pushers, n \in Nodes : PushNew(t, n)
              \/ Closing \/ \E cand \in Refs, after \in {"idle", "drain"} : Popping(cand, after)
              \/ \E n \in Nodes : PeekOrBuild(n)
              \/ UNCHANGED <<next, tail, head, isExtra, sentinel, live, thr>>
  <1>0. "general" # "returning"
    OBVIOUS
  <1>1. manager' = manager
    BY DEF Next, vars, Push, GiveBack, Exchange, Link, LookLocation, CompareExchange, InUse, PushNew, ReturnMe,
           Peek, Pop, BlockingPop, Drain, PeekOrBuild, ReleaseNode, LookReady, Flush, fixed
  <1>2. ASSUME NEW t \in Threads PROVE ~LookLocation(t) /\ ~CompareExchange(t) /\ ~InUse(t)
    BY <1>0, LookLocationDoes, SwapDoes, InUseDoes
  <1>3. ~LookReady /\ ~ReleaseNode /\ \A t \in Pushers, n \in Nodes : ~ReturnMe(t, n)
    BY <1>0, LookReadyDoes, ReleaseDoes, ReturnMeDoes
  <1>4. ASSUME NEW b \in buffered, Flush(b) PROVE UNCHANGED <<next, tail, head, isExtra, sentinel, live, thr>>
    BY <1>4, FlushDoes DEF Queue
  <1>5. UNCHANGED vars => UNCHANGED <<next, tail, head, isExtra, sentinel, live, thr>>
    BY DEF vars
  <1> QED BY <1>1, <1>2, <1>3, <1>4, <1>5, Steps

LEMMA ChainStep ==
    ASSUME TypeOK, ChainInv, [Next]_vars
    PROVE  ChainInv'
  <1>0. manager' = manager
    BY DEF Next, vars, Push, GiveBack, Exchange, Link, LookLocation, CompareExchange, InUse, PushNew, ReturnMe,
           Peek, Pop, BlockingPop, Drain, PeekOrBuild, ReleaseNode, LookReady, Flush, fixed
  <1> SUFFICES ASSUME manager = "general" PROVE \E c, lo, hi : OwnChain(c, lo, hi)'
    BY <1>0 DEF ChainInv, OwnChain, Chain
  <1>1. PICK c, lo, hi : OwnChain(c, lo, hi)
    BY DEF ChainInv, OwnChain, Chain
  <1>2. ASSUME NEW t \in Threads, Exchange(t) PROVE \E d, l, h : OwnChain(d, l, h)'
    <2>1. PICK n : n = thr[t].node
      OBVIOUS
    <2>2. PICK d : d = [c EXCEPT ![hi + 1] = n]
      OBVIOUS
    <2>3. OwnChain(d, lo, hi + 1)'
      BY <1>1, <1>2, <2>1, <2>2, ExchangeChain DEF OwnChain
    <2> QED BY <2>3
  <1>3. ASSUME NEW cand \in Refs, NEW after \in {"idle", "drain"}, Popping(cand, after)
        PROVE  \E d, l, h : OwnChain(d, l, h)'
    BY <1>1, <1>3, PopLastChain, PopNextChain DEF OwnChain
  <1>4. ASSUME NEW t \in Threads, Link(t) PROVE OwnChain(c, lo, hi)'
    BY <1>1, <1>4, LinkChain DEF OwnChain
  <1>5. ASSUME NEW t \in Pushers, NEW n \in Nodes, PushNew(t, n) PROVE OwnChain(c, lo, hi)'
    BY <1>1, <1>5, PushNewChain
  <1>6. Closing => OwnChain(c, lo, hi)'
    BY <1>1, ClosingChain
  <1>7. ASSUME NEW n \in Nodes, PeekOrBuild(n) PROVE OwnChain(c, lo, hi)'
    BY <1>1, <1>7, BuildChain
  <1>8. UNCHANGED <<next, tail, head, isExtra, sentinel, live, thr>> => OwnChain(c, lo, hi)'
    BY <1>1, StillChain DEF OwnChain
  <1>9. OwnChain(c, lo, hi)' => \E d, l, h : OwnChain(d, l, h)'
    OBVIOUS
  <1> QED BY <1>2, <1>3, <1>4, <1>5, <1>6, <1>7, <1>8, <1>9, GeneralSteps

LEMMA ChainInit == Init => ChainInv
  <1> SUFFICES ASSUME Init PROVE ChainInv
    OBVIOUS
  <1>1. PICK stub \in Nodes :
          /\ next = [n \in Nodes |-> Null] /\ tail = stub /\ sentinel = stub /\ head = stub
          /\ isExtra = FALSE /\ live = {stub} /\ thr = [t \in Threads |-> Idle]
    BY DEF Init
  <1>2. \A t \in Threads : thr[t].pc = "idle"
    BY <1>1, IdleFrame
  <1> DEFINE c == [i \in Nat |-> stub]
  <1>3. c \in [Nat -> Nodes] /\ Chained(c, 0, 0) = {stub} /\ c[0] = stub /\ \A i \in 0..(0 - 1) : FALSE
    BY DEF Chained
  <1>4. \A m : ~Apart(m)
    BY <1>1, <1>2 DEF Apart
  <1> HIDE DEF c
  <1>5. ChainAt(c, 0, 0)
    BY <1>1, <1>2, <1>3, <1>4 DEF ChainAt, Pushing
  <1>6. Owned(c, 0, 0)
    <2>1. thr[Consumer].pc # "closed"
      BY <1>2, Constants
    <2> QED BY <1>1, <1>3, <1>4, <2>1 DEF Owned
  <1> QED BY <1>3, <1>5, <1>6 DEF ChainInv

QueueInv == TypeOK /\ KeptInv /\ ChainInv

LEMMA QueueAlways == Spec => []QueueInv
  <1>1. Init => QueueInv
    BY TypeInit, KeptInit, ChainInit DEF QueueInv
  <1>2. QueueInv /\ [Next]_vars => QueueInv'
    BY TypeStep, KeptStep, ChainStep DEF QueueInv
  <1> QED BY <1>1, <1>2, PTL DEF Spec

\* However pushes, pops and returns overlap, the queue never refers to a node
\* that was freed, and no push links from one.
THEOREM OldTailIsLive == Spec => []NoDanglingNode
  <1>1. QueueInv => NoDanglingNode
    <2> SUFFICES ASSUME QueueInv PROVE NoDanglingNode
      OBVIOUS
    <2>0. TypeOK /\ KeptInv /\ ChainInv
      BY DEF QueueInv
    <2>1. CASE manager = "returning"
      <3>1. \A t \in Threads : thr[t].pc = "link" => thr[t].prev \in Nodes
        BY <2>0 DEF TypeOK, ThreadOf
      <3>2. sentinel \in Nodes /\ tail \in Nodes
        BY <2>0 DEF TypeOK
      <3> QED BY <2>0, <2>1, <3>1, <3>2, Constants DEF KeptInv, NoDanglingNode
    <2>2. CASE manager = "general"
      <3>1. PICK c, lo, hi : OwnChain(c, lo, hi)
        BY <2>0, <2>2 DEF ChainInv, OwnChain, Chain
      <3>2. lo \in Nat /\ hi \in Nat /\ ChainAt(c, lo, hi) /\ lo <= hi
        BY <3>1 DEF OwnChain, Chain, ChainAt
      <3>3. ASSUME thr[Consumer].pc # "closed" PROVE {sentinel, tail} \cup ({head} \ {Null}) \subseteq live
        <4>1. (\A i \in lo..hi : c[i] \in live) /\ (isExtra => head \in live)
          BY <2>0, <2>2, <3>1, <3>3, PushedIsLive
        <4>2. lo \in lo..hi /\ hi \in lo..hi
          BY <3>2
        <4> QED BY <3>2, <4>1, <4>2 DEF ChainAt
      <3>4. ASSUME NEW t \in Threads, thr[t].pc = "link" PROVE thr[t].prev \in live
        <4>1. thr[Consumer].pc # "closed"
          BY <2>0, <2>2, <3>1, <3>4, GeneralThreads DEF OwnChain, Owned, Pushing
        <4>2. PICK i \in lo..(hi - 1) : Linking(t, c[i], c[i + 1])
          BY <3>2, <3>4 DEF ChainAt
        <4>3. i \in lo..hi
          BY <3>2, <4>2
        <4> QED BY <2>0, <2>2, <3>1, <4>1, <4>2, <4>3, PushedIsLive DEF Linking
      <3> QED BY <3>3, <3>4 DEF NoDanglingNode
    <2> QED BY <2>0, <2>1, <2>2, Constants DEF TypeOK
  <1> QED BY <1>1, QueueAlways, PTL

\* The destructor leaves no node allocated: neither an element whose push was
\* complete, nor the sentinel, nor an extra head.
THEOREM DestructorFreesAll == Spec => []NothingLeaks
  <1>1. QueueInv => NothingLeaks
    <2> SUFFICES ASSUME QueueInv, thr[Consumer].pc = "closed" PROVE live = {}
      BY DEF NothingLeaks
    <2>1. manager = "general"
      BY Constants DEF QueueInv, TypeOK, ThreadOf
    <2> QED BY <2>1 DEF QueueInv, ChainInv, Owned
  <1> QED BY <1>1, QueueAlways, PTL

---------------------------------------------------------------------------
(* The deleting queue is first-in first-out *)

\* The manager that deletes nodes.
General == manager = "general"

Room == Cardinality(Nodes)

\* The equation that the walk of Elements solves, up to k nodes.
Walks(w, k) ==
    w = [p \in (0..k) \X (Nodes \cup {Null}) |->
           IF p[1] = 0 \/ p[2] = Null THEN <<>> ELSE <<p[2]>> \o w[<<p[1] - 1, After(p[2])>>]]

\* What Elements makes of its walk.
From(w) == IF isExtra THEN <<head>> \o w[<<Room, After(sentinel)>>]
           ELSE IF head # Null THEN w[<<Room, head>>] ELSE w[<<Room, After(sentinel)>>]

\* Elements is made of a solution of that equation, if there is one.
LEMMA ElementsWalk ==
    ASSUME \E w : Walks(w, Room)
    PROVE  \E w : Walks(w, Room) /\ Elements = From(w)
  <1> DEFINE W == CHOOSE w : Walks(w, Room)
  <1>1. Walks(W, Room)
    OBVIOUS
  <1>2. Elements = From(W)
    BY Zenon DEF Elements, Walks, From, Room
  <1> HIDE DEF W
  <1> QED BY <1>1, <1>2

\* A set of numbers has a least one, and so induction holds for sets.
LEMMA Least ==
    ASSUME NEW T \in SUBSET Nat, T # {}
    PROVE  \E x \in T : \A y \in T : x <= y
  <1> DEFINE R == {ss \in Nat \X Nat : ss[1] < ss[2]}
  <1>1. IsWellFoundedOn(R, Nat)
    BY NatLessThanWellFounded DEF OpToRel
  <1> HIDE DEF R
  <1>2. PICK x \in T : \A y \in T : ~ (<<y, x>> \in R)
    BY <1>1, WFMin
  <1>3. \A y \in T : ~(y < x)
    BY <1>2 DEF R
  <1> QED BY <1>3

LEMMA Induct ==
    ASSUME NEW T \in SUBSET Nat, 0 \in T, \A n \in T : n + 1 \in T
    PROVE  T = Nat
  <1> SUFFICES ASSUME Nat \ T # {} PROVE FALSE
    OBVIOUS
  <1>1. PICK x \in Nat \ T : \A y \in Nat \ T : x <= y
    <2> DEFINE U == Nat \ T
    <2>1. U \in SUBSET Nat /\ U # {}
      OBVIOUS
    <2> HIDE DEF U
    <2>2. \E x \in U : \A y \in U : x <= y
      BY <2>1, Least
    <2> QED BY <2>2 DEF U
  <1>2. x # 0 /\ x - 1 \in Nat
    BY <1>1
  <1>3. x - 1 \in T
    BY <1>1, <1>2
  <1> QED BY <1>1, <1>2, <1>3

\* What follows a node is a node or nothing.
LEMMA AfterType ==
    ASSUME TypeOK, NEW n \in Nodes
    PROVE  After(n) \in Refs
  <1>1. CASE \E t \in Threads : thr[t].pc = "link" /\ thr[t].prev = n
    <2> DEFINE u == CHOOSE t \in Threads : thr[t].pc = "link" /\ thr[t].prev = n
    <2>1. u \in Threads /\ After(n) = thr[u].node
      BY <1>1 DEF After
    <2> HIDE DEF u
    <2> QED BY <2>1 DEF TypeOK, Frames
  <1>2. CASE ~\E t \in Threads : thr[t].pc = "link" /\ thr[t].prev = n
    BY <1>2 DEF After, TypeOK
  <1> QED BY <1>1, <1>2

\* There is a walk of any length: one of length j can be made longer by a node.
LEMMA WalkExists ==
    ASSUME TypeOK, NEW k \in Nat
    PROVE  \E w : Walks(w, k)
  <1> DEFINE T == {j \in Nat : \E w : Walks(w, j)}
  <1>1. 0 \in T
    <2> DEFINE w == [p \in (0..0) \X (Nodes \cup {Null}) |-> <<>>]
    <2>1. \A p \in (0..0) \X (Nodes \cup {Null}) : p[1] = 0
      OBVIOUS
    <2>2. w = [p \in (0..0) \X (Nodes \cup {Null}) |->
           IF p[1] = 0 \/ p[2] = Null THEN <<>> ELSE <<p[2]>> \o w[<<p[1] - 1, After(p[2])>>]]
      BY <2>1
    <2> HIDE DEF w
    <2> QED BY <2>2 DEF Walks
  <1>2. ASSUME NEW j \in T PROVE j + 1 \in T
    <2>1. PICK w : Walks(w, j)
      BY <1>2
    <2> DEFINE D == (0..j) \X (Nodes \cup {Null})
    <2> DEFINE E == (0..(j + 1)) \X (Nodes \cup {Null})
    <2> DEFINE v == [p \in E |-> IF p[1] = 0 \/ p[2] = Null THEN <<>> ELSE <<p[2]>> \o w[<<p[1] - 1, After(p[2])>>]]
    <2>2. ASSUME NEW p \in D PROVE v[p] = w[p]
      <3>1. p \in E
        BY <1>2
      <3> QED BY <2>1, <3>1 DEF Walks
    <2>3. ASSUME NEW p \in E, p[1] # 0, p[2] # Null PROVE <<p[1] - 1, After(p[2])>> \in D
      <3>1. p[1] \in 0..(j + 1) /\ p[2] \in Nodes /\ p[1] # 0 /\ j \in Nat
        BY <1>2, <2>3
      <3>2. After(p[2]) \in Refs
        BY <3>1, AfterType
      <3>3. p[1] - 1 \in 0..j
        BY <3>1
      <3> QED BY <3>2, <3>3 DEF Refs
    <2> DEFINE u == [p \in E |-> IF p[1] = 0 \/ p[2] = Null THEN <<>> ELSE <<p[2]>> \o v[<<p[1] - 1, After(p[2])>>]]
    <2>4. ASSUME NEW p \in E PROVE v[p] = IF p[1] = 0 \/ p[2] = Null THEN <<>> ELSE <<p[2]>> \o v[<<p[1] - 1, After(p[2])>>]
      <3>1. CASE p[1] = 0 \/ p[2] = Null
        BY <3>1
      <3>2. CASE p[1] # 0 /\ p[2] # Null
        <4>1. v[<<p[1] - 1, After(p[2])>>] = w[<<p[1] - 1, After(p[2])>>]
          BY <2>2, <2>3, <3>2
        <4>2. v[p] = <<p[2]>> \o w[<<p[1] - 1, After(p[2])>>]
          BY <3>2
        <4> HIDE DEF v
        <4> QED BY <3>2, <4>1, <4>2
      <3> QED BY <3>1, <3>2
    <2>5. v = [p \in E |-> v[p]]
      OBVIOUS
    <2> HIDE DEF v
    <2>6. v = u
      BY <2>4, <2>5
    <2>7. Walks(v, j + 1)
      BY <2>6 DEF Walks
    <2> QED BY <1>2, <2>7
  <1>3. T = Nat
    <2> HIDE DEF T
    <2>1. T \in SUBSET Nat
      BY DEF T
    <2> QED BY <1>1, <1>2, <2>1, Induct
  <1> QED BY <1>3

\* The chain from a to b as a sequence.
Seg(c, a, b) == [i \in 1..(b - a + 1) |-> c[a + i - 1]]

LEMMA SegIs ==
    ASSUME NEW c \in [Nat -> Nodes], NEW a \in Nat, NEW b \in Nat, a <= b + 1
    PROVE  /\ Seg(c, a, b) \in Seq(Nodes) /\ Len(Seg(c, a, b)) = b - a + 1
           /\ \A i \in 1..(b - a + 1) : Seg(c, a, b)[i] = c[a + i - 1]
           /\ a = b + 1 => Seg(c, a, b) = <<>>
  <1>1. b - a + 1 \in Nat
    OBVIOUS
  <1>2. \A i \in 1..(b - a + 1) : a + i - 1 \in Nat
    OBVIOUS
  <1>3. Seg(c, a, b) \in [1..(b - a + 1) -> Nodes]
    BY <1>2 DEF Seg
  <1>4. Seg(c, a, b) \in Seq(Nodes) /\ Len(Seg(c, a, b)) = b - a + 1
    BY <1>1, <1>3
  <1>5. \A i \in 1..(b - a + 1) : Seg(c, a, b)[i] = c[a + i - 1]
    BY DEF Seg
  <1>6. a = b + 1 => Seg(c, a, b) = <<>>
    BY <1>4
  <1> QED BY <1>4, <1>5, <1>6

\* Sequences of one length with the same elements are equal.
LEMMA SameSeq ==
    ASSUME NEW S, NEW s \in Seq(S), NEW r \in Seq(S), Len(s) = Len(r), \A i \in 1..Len(s) : s[i] = r[i]
    PROVE  s = r
  OBVIOUS

\* The chain behind its first node.
LEMMA SegBehind ==
    ASSUME NEW c \in [Nat -> Nodes], NEW a \in Nat, NEW b \in Nat, a <= b
    PROVE  /\ Seg(c, a + 1, b) \in Seq(Nodes) /\ Len(Seg(c, a + 1, b)) = b - a
           /\ \A i \in 1..(b - a) : Seg(c, a + 1, b)[i] = c[a + i]
  <1> DEFINE d == a + 1
  <1>1. d \in Nat /\ d <= b + 1 /\ b - d + 1 = b - a /\ \A i \in 1..(b - a) : d + i - 1 = a + i
    OBVIOUS
  <1> HIDE DEF d
  <1>2. /\ Seg(c, d, b) \in Seq(Nodes) /\ Len(Seg(c, d, b)) = b - d + 1
        /\ \A i \in 1..(b - d + 1) : Seg(c, d, b)[i] = c[d + i - 1]
    BY <1>1, SegIs
  <1>3. /\ Seg(c, d, b) \in Seq(Nodes) /\ Len(Seg(c, d, b)) = b - a
        /\ \A i \in 1..(b - a) : Seg(c, d, b)[i] = c[a + i]
    BY <1>1, <1>2
  <1> QED BY <1>3 DEF d

LEMMA SegCons ==
    ASSUME NEW c \in [Nat -> Nodes], NEW a \in Nat, NEW b \in Nat, a <= b
    PROVE  <<c[a]>> \o Seg(c, a + 1, b) = Seg(c, a, b)
  <1> DEFINE s == Seg(c, a + 1, b)
  <1> DEFINE r == Seg(c, a, b)
  <1>1. s \in Seq(Nodes) /\ Len(s) = b - a /\ \A i \in 1..(b - a) : s[i] = c[a + i]
    BY SegBehind
  <1>2. r \in Seq(Nodes) /\ Len(r) = b - a + 1 /\ \A i \in 1..(b - a + 1) : r[i] = c[a + i - 1]
    <2>1. a <= b + 1
      OBVIOUS
    <2> QED BY <2>1, SegIs
  <1> HIDE DEF s, r
  <1>3. c[a] \in Nodes /\ <<c[a]>> \o s \in Seq(Nodes) /\ Len(<<c[a]>> \o s) = b - a + 1
    BY <1>1
  <1>4. ASSUME NEW i \in 1..(b - a + 1) PROVE (<<c[a]>> \o s)[i] = r[i]
    <2>1. CASE i = 1
      BY <1>1, <1>2, <2>1
    <2>2. CASE i # 1
      <3>1. i - 1 \in 1..(b - a) /\ a + (i - 1) = a + i - 1
        BY <2>2
      <3>2. (<<c[a]>> \o s)[i] = s[i - 1]
        BY <1>1, <2>2, <3>1
      <3> QED BY <1>1, <1>2, <3>1, <3>2
    <2> QED BY <2>1, <2>2
  <1>5. <<c[a]>> \o s = r
    <2> DEFINE l == <<c[a]>> \o s
    <2>1. l \in Seq(Nodes) /\ Len(l) = Len(r) /\ \A i \in 1..(b - a + 1) : l[i] = r[i]
      BY <1>2, <1>3, <1>4
    <2> HIDE DEF l
    <2>2. l = r
      BY <1>2, <2>1, SameSeq
    <2> QED BY <2>2 DEF l
  <1> QED BY <1>5 DEF s, r

LEMMA SegAppend ==
    ASSUME NEW c \in [Nat -> Nodes], NEW a \in Nat, NEW b \in Nat, a <= b + 1, NEW n \in Nodes
    PROVE  Seg([c EXCEPT ![b + 1] = n], a, b + 1) = Append(Seg(c, a, b), n)
  <1> DEFINE d == [c EXCEPT ![b + 1] = n]
  <1> DEFINE s == Seg(c, a, b)
  <1> DEFINE r == Seg(d, a, b + 1)
  <1>1. s \in Seq(Nodes) /\ Len(s) = b - a + 1 /\ \A i \in 1..(b - a + 1) : s[i] = c[a + i - 1]
    BY SegIs
  <1>2. d \in [Nat -> Nodes] /\ d[b + 1] = n /\ \A i \in Nat : i # b + 1 => d[i] = c[i]
    OBVIOUS
  <1> HIDE DEF d
  <1>3. r \in Seq(Nodes) /\ Len(r) = b - a + 2 /\ \A i \in 1..(b - a + 2) : r[i] = d[a + i - 1]
    <2>1. b + 1 \in Nat /\ a <= (b + 1) + 1 /\ (b + 1) - a + 1 = b - a + 2
      OBVIOUS
    <2> HIDE DEF r
    <2>2. r \in Seq(Nodes) /\ Len(r) = (b + 1) - a + 1 /\ \A i \in 1..((b + 1) - a + 1) : r[i] = d[a + i - 1]
      BY <1>2, <2>1, SegIs DEF r
    <2> QED BY <2>1, <2>2
  <1> HIDE DEF s, r
  <1>4. ASSUME NEW i \in 1..(b - a + 2) PROVE r[i] = Append(s, n)[i]
    <2>1. CASE i = b - a + 2
      BY <1>1, <1>2, <1>3, <2>1
    <2>2. CASE i # b - a + 2
      <3>1. i \in 1..(b - a + 1) /\ a + i - 1 \in Nat /\ a + i - 1 # b + 1
        BY <2>2
      <3> QED BY <1>1, <1>2, <1>3, <3>1
    <2> QED BY <2>1, <2>2
  <1>5. Append(s, n) \in Seq(Nodes) /\ Len(Append(s, n)) = b - a + 2
    BY <1>1
  <1>6. r = Append(s, n)
    <2> DEFINE l == Append(s, n)
    <2>1. l \in Seq(Nodes) /\ Len(l) = Len(r) /\ \A i \in 1..(b - a + 2) : r[i] = l[i]
      BY <1>3, <1>4, <1>5
    <2> HIDE DEF l
    <2>2. r = l
      BY <1>3, <2>1, SameSeq
    <2> QED BY <2>2 DEF l
  <1> QED BY <1>6 DEF r, s, d

LEMMA WalkIs ==
    ASSUME NEW k \in Nat, NEW w, Walks(w, k), NEW i \in 0..k, NEW n \in Nodes \cup {Null}
    PROVE  w[<<i, n>>] = IF i = 0 \/ n = Null THEN <<>> ELSE <<n>> \o w[<<i - 1, After(n)>>]
  BY DEF Walks

LEMMA NodeWalk ==
    ASSUME NEW k \in Nat, NEW w, Walks(w, k), NEW i \in 0..k, i # 0, NEW n \in Nodes
    PROVE  w[<<i, n>>] = <<n>> \o w[<<i - 1, After(n)>>]
  <1>1. n \in Nodes \cup {Null} /\ n # Null
    BY Constants
  <1>2. w[<<i, n>>] = IF i = 0 \/ n = Null THEN <<>> ELSE <<n>> \o w[<<i - 1, After(n)>>]
    BY <1>1, WalkIs
  <1> QED BY <1>1, <1>2

\* On the chain, what follows a node is the next one.
LEMMA AfterChain ==
    ASSUME TypeOK, NEW c, NEW lo, NEW hi, Chain(c, lo, hi), NEW i \in lo..hi
    PROVE  After(c[i]) = IF i = hi THEN Null ELSE c[i + 1]
  <1>1. /\ c \in [Nat -> Nodes] /\ lo \in Nat /\ hi \in Nat /\ lo <= hi /\ c[hi] = tail /\ next[tail] = Null
        /\ \A j, k \in lo..hi : c[j] = c[k] => j = k
        /\ \A j \in lo..(hi - 1) : Joined(c[j], c[j + 1])
        /\ \A t \in Threads : thr[t].pc = "link" => \E j \in lo..(hi - 1) : Linking(t, c[j], c[j + 1])
    BY DEF Chain, ChainAt
  <1>2. ASSUME NEW t \in Threads, thr[t].pc = "link", thr[t].prev = c[i] PROVE i # hi /\ thr[t].node = c[i + 1]
    <2>1. PICK j \in lo..(hi - 1) : Linking(t, c[j], c[j + 1])
      BY <1>1, <1>2
    <2>2. j \in lo..hi /\ j # hi
      BY <1>1, <2>1
    <2>3. j = i
      BY <1>1, <1>2, <2>1, <2>2 DEF Linking
    <2> QED BY <2>1, <2>2, <2>3 DEF Linking
  <1>3. CASE \E t \in Threads : thr[t].pc = "link" /\ thr[t].prev = c[i]
    <2> DEFINE u == CHOOSE t \in Threads : thr[t].pc = "link" /\ thr[t].prev = c[i]
    <2>1. u \in Threads /\ thr[u].pc = "link" /\ thr[u].prev = c[i]
      BY <1>3
    <2>2. After(c[i]) = thr[u].node
      BY <1>3 DEF After
    <2> HIDE DEF u
    <2> QED BY <1>2, <2>1, <2>2
  <1>4. CASE ~\E t \in Threads : thr[t].pc = "link" /\ thr[t].prev = c[i]
    <2>1. After(c[i]) = next[c[i]]
      BY <1>4 DEF After
    <2>2. CASE i = hi
      BY <1>1, <2>1, <2>2
    <2>3. CASE i # hi
      <3>1. i \in lo..(hi - 1)
        BY <1>1, <2>3
      <3> QED BY <1>1, <1>4, <2>1, <2>3, <3>1 DEF Joined, Linking
    <2> QED BY <2>2, <2>3
  <1> QED BY <1>3, <1>4

\* The chain is no longer than the memory.
LEMMA ChainFits ==
    ASSUME NEW c, NEW lo, NEW hi, Chain(c, lo, hi)
    PROVE  Room \in Nat /\ hi - lo + 1 <= Room
  <1>1. c \in [Nat -> Nodes] /\ lo \in Nat /\ hi \in Nat /\ lo <= hi /\ \A i, j \in lo..hi : c[i] = c[j] => i = j
    BY DEF Chain, ChainAt
  <1>2. IsFiniteSet(Nodes) /\ Room \in Nat
    BY QueueAssumption, FS_CardinalityType DEF Room
  <1> DEFINE f == [i \in lo..hi |-> c[i]]
  <1>3. f \in [lo..hi -> Nodes] /\ \A i, j \in lo..hi : f[i] = f[j] => i = j
    BY <1>1
  <1> HIDE DEF f
  <1>4. f \in Injection(lo..hi, Nodes)
    BY <1>3 DEF Injection, IsInjective
  <1>5. Cardinality(lo..hi) <= Cardinality(Nodes)
    BY <1>2, <1>4, FS_Injection
  <1>6. Cardinality(lo..hi) = hi - lo + 1
    <2>1. lo \in Int /\ hi \in Int /\ ~(lo > hi)
      BY <1>1
    <2> QED BY <2>1, FS_Interval
  <1> QED BY <1>2, <1>5, <1>6 DEF Room

\* A walk that starts on the chain follows it to the tail.
LEMMA WalkChain ==
    ASSUME TypeOK, NEW c, NEW lo, NEW hi, Chain(c, lo, hi), NEW w, Walks(w, Room),
           NEW i \in lo..hi, NEW k \in 0..Room, hi - i < k
    PROVE  w[<<k, c[i]>>] = Seg(c, i, hi)
  <1>1. c \in [Nat -> Nodes] /\ lo \in Nat /\ hi \in Nat /\ lo <= hi
    BY DEF Chain, ChainAt
  <1>2. Room \in Nat
    BY ChainFits
  <1> DEFINE T == {j \in Nat : j <= hi - lo => \A m \in 0..Room : j < m => w[<<m, c[hi - j]>>] = Seg(c, hi - j, hi)}
  <1>3. 0 \in T
    <2>1. hi \in lo..hi /\ After(c[hi]) = Null /\ c[hi] \in Nodes /\ c[hi] # Null
      BY <1>1, AfterChain, Constants
    <2> SUFFICES ASSUME NEW m \in 0..Room, 0 < m PROVE w[<<m, c[hi]>>] = Seg(c, hi, hi)
      BY <1>1
    <2>2. m - 1 \in 0..Room
      BY <1>2
    <2>3. w[<<m - 1, Null>>] = <<>>
      BY <1>2, <2>2, WalkIs
    <2>4. w[<<m, c[hi]>>] = <<c[hi]>> \o w[<<m - 1, Null>>]
      <3>1. w[<<m, c[hi]>>] = <<c[hi]>> \o w[<<m - 1, After(c[hi])>>]
        <4>1. m # 0 /\ c[hi] \in Nodes
          BY <2>1
        <4> QED BY <1>2, <4>1, NodeWalk
      <3> QED BY <2>1, <3>1
    <2>5. Seg(c, hi + 1, hi) = <<>>
      <3>1. hi + 1 \in Nat /\ hi + 1 <= hi + 1
        BY <1>1
      <3> QED BY <1>1, <3>1, SegIs
    <2>6. Seg(c, hi, hi) = <<c[hi]>> \o Seg(c, hi + 1, hi)
      BY <1>1, SegCons
    <2> QED BY <2>3, <2>4, <2>5, <2>6
  <1>4. ASSUME NEW j \in T PROVE j + 1 \in T
    <2>0. j \in Nat /\ (j <= hi - lo => \A m \in 0..Room : j < m => w[<<m, c[hi - j]>>] = Seg(c, hi - j, hi))
      BY <1>4
    <2> SUFFICES ASSUME j + 1 <= hi - lo, NEW m \in 0..Room, j + 1 < m
                 PROVE  w[<<m, c[hi - (j + 1)]>>] = Seg(c, hi - (j + 1), hi)
      BY <2>0
    <2> DEFINE a == hi - (j + 1)
    <2>1. /\ a \in lo..hi /\ a # hi /\ a + 1 = hi - j /\ a \in Nat /\ a <= hi
          /\ m # 0 /\ m - 1 \in 0..Room /\ j < m - 1 /\ j <= hi - lo
      BY <1>1, <1>2, <2>0
    <2> HIDE DEF a
    <2>2. After(c[a]) = c[a + 1] /\ c[a] \in Nodes /\ c[a] # Null
      BY <1>1, <2>1, AfterChain, Constants
    <2>3. w[<<m, c[a]>>] = <<c[a]>> \o w[<<m - 1, c[a + 1]>>]
      <3>1. w[<<m, c[a]>>] = <<c[a]>> \o w[<<m - 1, After(c[a])>>]
        <4>1. m # 0 /\ c[a] \in Nodes
          BY <2>1, <2>2
        <4> QED BY <1>2, <4>1, NodeWalk
      <3> QED BY <2>2, <3>1
    <2>4. w[<<m - 1, c[a + 1]>>] = Seg(c, a + 1, hi)
      BY <2>0, <2>1
    <2>5. Seg(c, a, hi) = <<c[a]>> \o Seg(c, a + 1, hi)
      BY <1>1, <2>1, SegCons
    <2>6. w[<<m, c[a]>>] = Seg(c, a, hi)
      BY <2>3, <2>4, <2>5
    <2> QED BY <2>6 DEF a
  <1>5. T = Nat
    <2> HIDE DEF T
    <2>1. T \in SUBSET Nat
      BY DEF T
    <2> QED BY <1>3, <1>4, <2>1, Induct
  <1>6. hi - i \in T /\ hi - i <= hi - lo /\ hi - (hi - i) = i
    BY <1>1, <1>5
  <1> QED BY <1>6

\* The elements of the queue are the head and what follows the sentinel.
El(c, lo, hi) == IF head = Null THEN Seg(c, lo + 1, hi) ELSE <<head>> \o Seg(c, lo + 1, hi)

LEMMA ElementsChain ==
    ASSUME TypeOK, NEW c, NEW lo, NEW hi, Chain(c, lo, hi)
    PROVE  Elements = El(c, lo, hi)
  <1>1. /\ c \in [Nat -> Nodes] /\ lo \in Nat /\ hi \in Nat /\ lo <= hi /\ c[lo] = sentinel
        /\ (~isExtra => head \in {Null, sentinel}) /\ (isExtra => head # Null) /\ isExtra \in BOOLEAN /\ Null # sentinel
    BY Constants DEF Chain, ChainAt, TypeOK
  <1>2. Room \in Nat /\ hi - lo + 1 <= Room
    BY ChainFits
  <1>3. PICK w : Walks(w, Room) /\ Elements = From(w)
    BY <1>2, WalkExists, ElementsWalk
  <1>4. lo \in lo..hi /\ Room \in 0..Room /\ hi - lo < Room
    BY <1>1, <1>2
  <1>5. w[<<Room, sentinel>>] = Seg(c, lo, hi)
    BY <1>1, <1>3, <1>4, WalkChain
  <1>6. Seg(c, lo, hi) = <<sentinel>> \o Seg(c, lo + 1, hi)
    BY <1>1, SegCons
  <1>7. w[<<Room, After(sentinel)>>] = Seg(c, lo + 1, hi)
    <2>1. CASE lo = hi
      <3>1. After(sentinel) = Null
        BY <1>1, <1>4, <2>1, AfterChain
      <3>2. w[<<Room, Null>>] = <<>>
        BY <1>2, <1>3, <1>4, WalkIs
      <3>3. Seg(c, lo + 1, hi) = <<>>
        BY <1>1, <2>1, SegIs
      <3> QED BY <3>1, <3>2, <3>3
    <2>2. CASE lo # hi
      <3>1. After(sentinel) = c[lo + 1]
        BY <1>1, <1>4, <2>2, AfterChain
      <3>2. lo + 1 \in lo..hi /\ hi - (lo + 1) < Room
        BY <1>1, <1>2, <2>2
      <3>3. w[<<Room, c[lo + 1]>>] = Seg(c, lo + 1, hi)
        BY <1>3, <1>4, <3>2, WalkChain
      <3> QED BY <3>1, <3>3
    <2> QED BY <2>1, <2>2
  <1> QED BY <1>1, <1>3, <1>5, <1>6, <1>7 DEF El, From

\* A node that is neither the head nor on the chain is no element.
LEMMA Absent ==
    ASSUME TypeOK, NEW c, NEW lo, NEW hi, Chain(c, lo, hi), NEW n \in Nodes, n # head, \A i \in lo..hi : c[i] # n
    PROVE  \A i \in 1..Len(Elements) : Elements[i] # n
  <1> DEFINE s == Seg(c, lo + 1, hi)
  <1>1. c \in [Nat -> Nodes] /\ lo \in Nat /\ hi \in Nat /\ lo <= hi /\ head \in Refs
    BY DEF Chain, ChainAt, TypeOK
  <1>2. s \in Seq(Nodes) /\ Len(s) = hi - lo /\ \A i \in 1..(hi - lo) : s[i] = c[lo + i]
    BY <1>1, SegBehind
  <1>3. Elements = IF head = Null THEN s ELSE <<head>> \o s
    BY ElementsChain DEF El
  <1> HIDE DEF s
  <1>4. \A i \in 1..Len(s) : s[i] # n
    <2>1. \A i \in 1..(hi - lo) : lo + i \in lo..hi
      BY <1>1
    <2> QED BY <1>2, <2>1
  <1>5. CASE head = Null
    BY <1>3, <1>4, <1>5
  <1>6. CASE head # Null
    <2>1. Elements = <<head>> \o s /\ Len(Elements) = Len(s) + 1
      BY <1>2, <1>3, <1>6
    <2>2. ASSUME NEW i \in 1..Len(Elements) PROVE Elements[i] # n
      <3>1. CASE i = 1
        BY <1>2, <2>1, <3>1
      <3>2. CASE i # 1
        <4>1. i - 1 \in 1..Len(s)
          BY <1>2, <2>1, <3>2
        <4>2. Elements[i] = s[i - 1]
          BY <1>2, <2>1, <3>2, <4>1
        <4> QED BY <1>4, <4>1, <4>2
      <3> QED BY <3>1, <3>2
    <2> QED BY <2>2
  <1> QED BY <1>5, <1>6

\* The same of the next state.
LEMMA ElementsChainNext ==
    ASSUME TypeOK', NEW CONSTANT c, NEW CONSTANT lo, NEW CONSTANT hi, Chain(c, lo, hi)'
    PROVE  Elements' = El(c, lo, hi)'
  <1>1. (TypeOK /\ Chain(c, lo, hi))' => (Elements = El(c, lo, hi))'
    BY ElementsChain, PTL
  <1> QED BY <1>1

\* The exchange of the tail puts the node, links or no links.
LEMMA ExchangePuts ==
    ASSUME TypeOK, TypeOK', NEW CONSTANT c, NEW CONSTANT lo, NEW CONSTANT hi, Chain(c, lo, hi),
           NEW t \in Threads, Exchange(t)
    PROVE  \E n \in Nodes : Fifo!Put(n)
  <1>1. PICK n : n = thr[t].node
    OBVIOUS
  <1>2. PICK d : d = [c EXCEPT ![hi + 1] = n]
    OBVIOUS
  <1>3. Chain(d, lo, hi + 1)'
    BY <1>1, <1>2, ExchangeChain
  <1>4. thr[t].pc = "exchange" /\ n \in Nodes /\ head' = head
    BY <1>1, ExchangeDoes
  <1>5. /\ c \in [Nat -> Nodes] /\ lo \in Nat /\ hi \in Nat /\ lo <= hi /\ ChainAt(c, lo, hi) /\ c[lo] = sentinel
    BY DEF Chain, ChainAt
  <1>6. (\A i \in lo..hi : c[i] # n) /\ n # head
    <2>1. Apart(n)
      BY <1>1, <1>4 DEF Apart
    <2>2. \A i \in lo..hi : c[i] # n
      BY <1>4, <1>5, <2>1 DEF ChainAt, Chained
    <2>3. lo \in lo..hi
      BY <1>5
    <2> QED BY <1>1, <1>4, <1>5, <2>2, <2>3, Constants DEF ChainAt
  <1>7. \A i \in 1..Len(Elements) : Elements[i] # n
    BY <1>4, <1>6, Absent
  <1>8. Elements = El(c, lo, hi) /\ Elements' = El(d, lo, hi + 1)'
    BY <1>3, ElementsChain, ElementsChainNext
  <1>9. Seg(d, lo + 1, hi + 1) = Append(Seg(c, lo + 1, hi), n)
    <2>1. lo + 1 \in Nat /\ lo + 1 <= hi + 1
      BY <1>5
    <2> QED BY <1>2, <1>4, <1>5, <2>1, SegAppend
  <1>10. Elements' = Append(Elements, n)
    <2> DEFINE s == Seg(c, lo + 1, hi)
    <2> DEFINE r == Seg(d, lo + 1, hi + 1)
    <2>1. s \in Seq(Nodes)
      <3>1. lo + 1 \in Nat /\ lo + 1 <= hi + 1
        BY <1>5
      <3> QED BY <1>5, <3>1, SegIs
    <2>2. Elements = IF head = Null THEN s ELSE <<head>> \o s
      BY <1>8 DEF El
    <2>3. Elements' = IF head = Null THEN r ELSE <<head>> \o r
      BY <1>4, <1>8 DEF El, Seg
    <2> HIDE DEF s, r
    <2>4. r = Append(s, n)
      BY <1>9 DEF r, s
    <2>5. head # Null => <<head>> \o Append(s, n) = Append(<<head>> \o s, n)
      <3>1. head \in Nodes \cup {Null}
        BY DEF TypeOK, Refs
      <3> QED BY <1>4, <2>1, <3>1
    <2> QED BY <2>2, <2>3, <2>4, <2>5
  <1> QED BY <1>4, <1>7, <1>10 DEF Fifo!Put

\* peek_or_build puts its node before all others.
LEMMA BuildBuilds ==
    ASSUME TypeOK, TypeOK', manager = "general", NEW CONSTANT c, NEW CONSTANT lo, NEW CONSTANT hi, OwnChain(c, lo, hi),
           NEW n \in Nodes, PeekOrBuild(n)
    PROVE  Fifo!Build(n)
  <1>1. thr[Consumer].pc = "idle" /\ head = Null /\ n \notin live /\ head' = n
    BY BuildDoes
  <1>2. Chain(c, lo, hi) /\ Chain(c, lo, hi)'
    BY BuildChain DEF OwnChain
  <1>3. Elements = El(c, lo, hi) /\ Elements' = El(c, lo, hi)'
    BY <1>2, ElementsChain, ElementsChainNext
  <1>4. \A i \in lo..hi : c[i] # n
    BY <1>1, PushedIsLive
  <1>5. n # Null
    BY Constants
  <1>6. \A i \in 1..Len(Elements) : Elements[i] # n
    BY <1>1, <1>2, <1>4, <1>5, Absent
  <1>7. Elements' = <<n>> \o Elements
    BY <1>1, <1>3, <1>5 DEF El, Seg
  <1> QED BY <1>6, <1>7 DEF Fifo!Build

\* A pop takes the oldest element, or makes it visible when there is no head.
LEMMA PopTakes ==
    ASSUME TypeOK, TypeOK', NEW CONSTANT c, NEW CONSTANT lo, NEW CONSTANT hi, Chain(c, lo, hi),
           NEW cand \in Refs, NEW after \in {"idle", "drain"}, Popping(cand, after)
    PROVE  Fifo!Take \/ Elements' = Elements
  <1> DEFINE s == Seg(c, lo + 1, hi)
  <1>1. c \in [Nat -> Nodes] /\ lo \in Nat /\ hi \in Nat /\ lo <= hi /\ head \in Nodes \cup {Null}
    BY DEF Chain, ChainAt, TypeOK, Refs
  <1>2. s \in Seq(Nodes)
    <2>1. lo + 1 \in Nat /\ lo + 1 <= hi + 1
      BY <1>1
    <2> QED BY <1>1, <2>1, SegIs
  <1>3. Elements = IF head = Null THEN s ELSE <<head>> \o s
    BY ElementsChain DEF El
  <1>4. Elements' = s
    <2>1. CASE next[sentinel] = Null
      <3>1. Chain(c, lo, hi)' /\ head' = Null
        BY <2>1, PopLastChain, PoppingDoes
      <3>2. Elements' = El(c, lo, hi)'
        BY <3>1, ElementsChainNext
      <3> QED BY <3>1, <3>2 DEF El, Seg
    <2>2. CASE next[sentinel] # Null
      <3>1. Chain(c, lo + 1, hi)' /\ lo < hi /\ head' = c[lo + 1]
        BY <2>2, PopNextChain
      <3>2. Elements' = El(c, lo + 1, hi)'
        BY <3>1, ElementsChainNext
      <3>3. c[lo + 1] \in Nodes /\ c[lo + 1] # Null /\ lo + 1 \in Nat /\ lo + 1 <= hi
        BY <1>1, <3>1, Constants
      <3>4. s = <<c[lo + 1]>> \o Seg(c, (lo + 1) + 1, hi)
        BY <1>1, <3>3, SegCons
      <3>5. El(c, lo + 1, hi)' = <<c[lo + 1]>> \o Seg(c, (lo + 1) + 1, hi)
        BY <3>1, <3>3 DEF El, Seg
      <3> HIDE DEF s
      <3> QED BY <3>2, <3>4, <3>5
    <2> QED BY <2>1, <2>2
  <1> HIDE DEF s
  <1>5. CASE head = Null
    BY <1>3, <1>4, <1>5
  <1>6. CASE head # Null
    <2>1. Elements = <<head>> \o s /\ head \in Nodes
      BY <1>1, <1>3, <1>6
    <2>2. <<head>> \o s # <<>> /\ Tail(<<head>> \o s) = s
      BY <1>2, <2>1
    <2> QED BY <1>4, <2>1, <2>2 DEF Fifo!Take
  <1> QED BY <1>5, <1>6

LEMMA StillElements ==
    ASSUME TypeOK, TypeOK', NEW CONSTANT c, NEW CONSTANT lo, NEW CONSTANT hi,
           Chain(c, lo, hi), Chain(c, lo, hi)', head' = head
    PROVE  Elements' = Elements
  <1>1. Elements = El(c, lo, hi) /\ Elements' = El(c, lo, hi)'
    BY ElementsChain, ElementsChainNext
  <1> QED BY <1>1 DEF El, Seg

\* A step of the deleting queue does to its elements what FifoQueue allows.
LEMMA FifoStep ==
    ASSUME TypeOK, TypeOK', manager = "general", NEW CONSTANT c, NEW CONSTANT lo, NEW CONSTANT hi, OwnChain(c, lo, hi),
           [Next]_vars
    PROVE  [Fifo!Next]_Elements
  <1>0. Chain(c, lo, hi)
    BY DEF OwnChain
  <1>1. ASSUME NEW t \in Threads, Exchange(t) PROVE Fifo!Next
    <2>1. \E n \in Nodes : Fifo!Put(n)
      BY <1>0, <1>1, ExchangePuts
    <2> QED BY <2>1 DEF Fifo!Next
  <1>2. ASSUME NEW t \in Threads, Link(t) PROVE Elements' = Elements
    <2>1. Chain(c, lo, hi)' /\ head' = head
      BY <1>2, <1>0, LinkChain, LinkDoes
    <2> QED BY <1>0, <2>1, StillElements
  <1>3. ASSUME NEW t \in Pushers, NEW n \in Nodes, PushNew(t, n) PROVE Elements' = Elements
    <2>1. Chain(c, lo, hi)' /\ head' = head
      BY <1>3, PushNewChain, PushNewDoes DEF OwnChain
    <2> QED BY <1>0, <2>1, StillElements
  <1>4. ASSUME Closing PROVE Elements' = Elements
    <2>1. Chain(c, lo, hi)' /\ head' = head
      BY <1>4, ClosingChain, ClosingDoes DEF OwnChain
    <2> QED BY <1>0, <2>1, StillElements
  <1>5. ASSUME NEW cand \in Refs, NEW after \in {"idle", "drain"}, Popping(cand, after)
        PROVE  Fifo!Next \/ Elements' = Elements
    <2>1. Fifo!Take \/ Elements' = Elements
      BY <1>0, <1>5, PopTakes
    <2> QED BY <2>1 DEF Fifo!Next
  <1>6. ASSUME NEW n \in Nodes, PeekOrBuild(n) PROVE Fifo!Next
    <2>1. Fifo!Build(n)
      BY <1>6, BuildBuilds
    <2> QED BY <2>1 DEF Fifo!Next
  <1>7. ASSUME UNCHANGED <<next, tail, head, isExtra, sentinel, live, thr>> PROVE Elements' = Elements
    <2>1. Chain(c, lo, hi)' /\ head' = head
      BY <1>0, <1>7, StillChain
    <2> QED BY <1>0, <2>1, StillElements
  <1> QED BY <1>1, <1>2, <1>3, <1>4, <1>5, <1>6, <1>7, GeneralSteps

\* At first the stub is the only element.
LEMMA FifoInit == Init => Fifo!Init
  <1> SUFFICES ASSUME Init PROVE \E n \in Nodes : Elements = <<n>>
    BY DEF Fifo!Init
  <1>1. PICK stub \in Nodes :
        /\ next = [n \in Nodes |-> Null] /\ tail = stub /\ sentinel = stub /\ head = stub
        /\ isExtra = FALSE /\ live = {stub} /\ thr = [t \in Threads |-> Idle]
    BY DEF Init
  <1>2. TypeOK /\ stub # Null
    BY TypeInit, Constants
  <1>3. PICK w : Walks(w, Room) /\ Elements = From(w)
    BY <1>2, FS_CardinalityType, QueueAssumption, WalkExists, ElementsWalk DEF Room
  <1>4. Room \in Nat /\ Room # 0
    BY QueueAssumption, FS_CardinalityType, FS_EmptySet DEF Room
  <1>5. \A t \in Threads : thr[t].pc = "idle"
    BY <1>1, IdleFrame
  <1>6. After(stub) = Null
    BY <1>1, <1>5 DEF After
  <1>7. Room \in 0..Room /\ Room - 1 \in 0..Room
    BY <1>4
  <1>8. w[<<Room, stub>>] = <<stub>> \o w[<<Room - 1, After(stub)>>]
    BY <1>3, <1>4, <1>7, NodeWalk
  <1>9. w[<<Room - 1, Null>>] = <<>>
    BY <1>3, <1>4, <1>7, WalkIs
  <1>10. Elements = <<stub>>
    BY <1>1, <1>2, <1>3, <1>6, <1>8, <1>9 DEF From
  <1> QED BY <1>10

\* The deleting queue is first-in first-out for any number of threads and nodes:
\* the exchange of the tail puts an element, whatever links are still missing,
\* pop takes the oldest one, and no other step changes what is queued.
THEOREM PushedOrderIsTaken == Spec /\ General => FirstInFirstOut
  <1>1. QueueInv /\ QueueInv' /\ General /\ [Next]_vars
          => General' /\ [Fifo!Next]_Elements
    <2> SUFFICES ASSUME QueueInv, QueueInv', manager = "general", [Next]_vars
                 PROVE  manager' = "general" /\ [Fifo!Next]_Elements
      BY DEF General
    <2>1. TypeOK /\ TypeOK' /\ ChainInv
      BY DEF QueueInv
    <2>2. PICK c, lo, hi : OwnChain(c, lo, hi)
      BY <2>1 DEF ChainInv, OwnChain, Chain
    <2>3. [Fifo!Next]_Elements
      BY <2>1, <2>2, FifoStep
    <2>4. manager' = "general"
      BY <2>1, GeneralSteps
    <2> QED BY <2>3, <2>4
  <1> QED BY <1>1, FifoInit, QueueAlways, PTL DEF Spec, FirstInFirstOut, Fifo!Spec
---------------------------------------------------------------------------
(* The returning queue with one user *)

\* At most one thread shares a ReturningQueue with the consumer: it pushes nodes, is
\* given them and returns them.  With two, a return_me that is late with its
\* compare-and-swap pushes a node that is in use again.
OneUser == \A s, t \in Users : s = t

InBuffer(field, n) == \E b \in buffered : b.field = field /\ b.node = n
Returned(n) == n \in ready \/ InBuffer("ready", n)
Outside(n) == location[n] = "outside" \/ InBuffer("location", n)

\* A node that nobody holds, has returned or has left the queue with.
Clean(n) == ~Outside(n) /\ ~Returned(n) /\ held[n] = 0

\* A thread that won a node, or made it, and has not linked it yet.
Taking(t, n) == thr[t].node = n /\ thr[t].pc \in {"inuse", "exchange", "link"}

\* A buffered store is the user's or the consumer's and has not been made yet.
BufferInv ==
    /\ \A b \in buffered : IF b.field = "ready" THEN b.thread \in Users ELSE b.thread = Consumer
    /\ \A n \in ready : ~InBuffer("ready", n)
    /\ \A n \in Nodes : InBuffer("location", n) => location[n] = "queue"
    /\ \A n \in Nodes \ live : Clean(n)

\* The nodes of the chain C are in nobody's hands, but for the sentinel once it
\* was popped; a user who holds a node has not returned it.
NodeInv(C) ==
    /\ C \subseteq live /\ ~isExtra
    /\ \A n \in C : ~Outside(n) /\ (n # sentinel \/ head # Null => Clean(n))
    /\ \A n \in Nodes : held[n] <= 1 /\ (held[n] = 1 => ~Returned(n))

\* Whoever swapped outside for queue is the only one to push the node.
TakeInv(C) ==
    /\ \A t \in Threads : thr[t].pc = "inuse" =>
         /\ thr[t].node \notin C /\ ~Outside(thr[t].node)
         /\ ~InBuffer("ready", thr[t].node) /\ held[thr[t].node] = 0
    /\ \A t \in Threads : thr[t].pc = "exchange" => Clean(thr[t].node)
    /\ \A t, u \in Threads, n \in Nodes : Taking(t, n) /\ Taking(u, n) => t = u

\* In release_node the consumer has moved the sentinel, and what it is about to
\* give to a user nobody else has.
ConsumerInv(C) ==
    /\ thr[Consumer].pc # "returning"
    /\ thr[Consumer].pc # "idle" => head = sentinel
    /\ thr[Consumer].pc \notin {"release", "released"} => thr[Consumer].cand = Null
    /\ thr[Consumer].cand # Null => /\ thr[Consumer].cand = thr[Consumer].node
                                    /\ ~Returned(thr[Consumer].node) /\ held[thr[Consumer].node] = 0
    /\ thr[Consumer].pc = "release" =>
         /\ thr[Consumer].node \notin C /\ ~Outside(thr[Consumer].node)
         /\ \A t \in Threads : ~Taking(t, thr[Consumer].node)
    /\ thr[Consumer].pc = "released" /\ thr[Consumer].cand # Null => Outside(thr[Consumer].node)
    /\ thr[Consumer].pc = "cas" /\ Outside(thr[Consumer].node) => thr[Consumer].node \in ready

\* The consumer pushed n back while its user was still in return_me: until it
\* leaves, nothing behind n is given out.
Stale(C, n) ==
    /\ n = tail /\ \A m \in C : ~Returned(m)
    /\ \/ thr[Consumer].pc = "idle"
       \/ thr[Consumer].pc \in {"release", "released"} /\ ~Returned(thr[Consumer].node)

\* The user in return_me has returned its node, or the consumer took it since.
UserInv(C) ==
    \A t \in Pushers :
      /\ thr[t].pc # "idle" => t \in Users
      /\ thr[t].cand = Null
      /\ thr[t].pc \in {"returning", "cas"} =>
           \/ Returned(thr[t].node)
           \/ Taking(Consumer, thr[t].node) /\ (thr[Consumer].pc = "link" => tail = thr[t].node)
           \/ Stale(C, thr[t].node)

Apiece(C) == BufferInv /\ NodeInv(C) /\ TakeInv(C) /\ ConsumerInv(C) /\ UserInv(C)

UseInv ==
    manager = "returning" => \E c, lo, hi : Chain(c, lo, hi) /\ Apiece(Chained(c, lo, hi))

---------------------------------------------------------------------------

\* A thread that is not in a push before or after its step.
LEMMA QuietChain ==
    ASSUME NEW c, NEW lo, NEW hi, Chain(c, lo, hi), NEW t \in Threads, Moved(t), ~Pushing(t), ~Pushing(t)',
           UNCHANGED <<next, tail, head, isExtra, sentinel>>
    PROVE  Chain(c, lo, hi)'
  <1>1. c \in [Nat -> Nodes] /\ lo \in Nat /\ hi \in Nat /\ ChainAt(c, lo, hi)
    BY DEF Chain
  <1>2. \A u \in Threads : Pushing(u) \/ Pushing(u)' => thr'[u] = thr[u]
    BY DEF Moved
  <1>3. \A x, y : Joined(x, y) => Joined(x, y)'
    BY <1>2 DEF Joined, Linking, Pushing
  <1>4. \A u \in Threads : thr'[u].pc = "link" => \E i \in lo..(hi - 1) : Linking(u, c[i], c[i + 1])'
    BY <1>1, <1>2 DEF ChainAt, Linking, Pushing
  <1>5. \A m : Apart(m)' <=> Apart(m)
    BY <1>2 DEF Apart, Pushing
  <1>6. \A u, w \in Threads : Pushing(u)' /\ Pushing(w)' /\ thr'[u].node = thr'[w].node => u = w
    BY <1>1, <1>2 DEF ChainAt, Pushing
  <1>7. isExtra => \A u \in Threads : thr'[u].pc = "exchange" => thr'[u].node # head
    BY <1>1, <1>2 DEF ChainAt, Pushing
  <1>8. ChainAt(c, lo, hi)'
    BY <1>1, <1>3, <1>4, <1>5, <1>6, <1>7 DEF ChainAt, Chained
  <1> QED BY <1>1, <1>8 DEF Chain

\* A node that is being linked is on the chain behind the sentinel.
LEMMA LinkedIsChained ==
    ASSUME NEW c, NEW lo, NEW hi, Chain(c, lo, hi), NEW t \in Threads, thr[t].pc = "link"
    PROVE  thr[t].node \in Chained(c, lo, hi) /\ thr[t].node # sentinel
  <1>1. c \in [Nat -> Nodes] /\ lo \in Nat /\ hi \in Nat /\ ChainAt(c, lo, hi) /\ lo <= hi
    BY DEF Chain, ChainAt
  <1>2. PICK i \in lo..(hi - 1) : Linking(t, c[i], c[i + 1])
    BY <1>1 DEF ChainAt
  <1>3. i + 1 \in lo..hi /\ lo \in lo..hi /\ i + 1 # lo
    BY <1>1
  <1>4. c[i + 1] # c[lo]
    BY <1>1, <1>3 DEF ChainAt
  <1> QED BY <1>1, <1>2, <1>3, <1>4 DEF ChainAt, Chained, Linking

\* What holds of the chain and of the threads that are about to join it.
LEMMA ChainFacts ==
    ASSUME TypeOK, NEW c, NEW lo, NEW hi, Chain(c, lo, hi)
    PROVE  /\ sentinel \in Chained(c, lo, hi) /\ tail \in Chained(c, lo, hi) /\ Chained(c, lo, hi) \subseteq Nodes
           /\ sentinel \in Nodes /\ tail \in Nodes /\ Null \notin Nodes
           /\ \A t \in Threads : thr[t].pc = "exchange" => thr[t].node \notin Chained(c, lo, hi)
           /\ ~isExtra => head \in {Null, sentinel}
  <1>1. c \in [Nat -> Nodes] /\ lo \in Nat /\ hi \in Nat /\ ChainAt(c, lo, hi) /\ lo <= hi
    BY DEF Chain, ChainAt
  <1>2. lo \in lo..hi /\ hi \in lo..hi
    BY <1>1
  <1>3. sentinel \in Nodes /\ tail \in Nodes /\ \A t \in Threads : thr[t].pc = "exchange" => thr[t].node \in Nodes
    BY DEF TypeOK, ThreadOf
  <1> QED BY <1>1, <1>2, <1>3, Constants DEF ChainAt, Chained, Apart

\* Threads of the returning queue.
LEMMA ReturningThreads ==
    ASSUME TypeOK, manager = "returning"
    PROVE  /\ \A t \in Threads : thr[t].pc # "idle" => thr[t].node \in Nodes
           /\ \A t \in Pushers : thr[t].pc \in PusherPcs
           /\ \A t \in Threads : thr[t].pc \notin {"drain", "closed"}
           /\ held \in [Nodes -> Nat] /\ location \in [Nodes -> {"queue", "outside"}] /\ ready \subseteq Nodes
           /\ Consumer \in Threads /\ Consumer \notin Pushers /\ Users \subseteq Pushers /\ Pushers \subseteq Threads
           /\ \A t \in Threads : t # Consumer => t \in Pushers
  BY Constants DEF TypeOK, ThreadOf

\* With one user, all other pushers are idle.
LEMMA OthersIdle ==
    ASSUME OneUser, NEW C, UserInv(C), NEW t \in Users
    PROVE  \A u \in Pushers : u # t => thr[u].pc = "idle"
  BY DEF OneUser, UserInv

\* A step that leaves the flags alone.
LEMMA SameFlags ==
    ASSUME UNCHANGED <<location, ready, buffered>>
    PROVE  /\ \A n : Returned(n)' <=> Returned(n)
           /\ \A n : Outside(n)' <=> Outside(n)
           /\ \A f, n : InBuffer(f, n)' <=> InBuffer(f, n)
  BY DEF Returned, Outside, InBuffer

\* A consumer that has nothing to give leaves the users' counts alone.
LEMMA GiveNone ==
    ASSUME TypeOK, held' = Given(Null)
    PROVE  held' = held
  <1>1. held \in [Nodes -> Nat] /\ Null \notin Nodes
    BY Constants DEF TypeOK
  <1> QED BY <1>1 DEF Given

---------------------------------------------------------------------------
(* The returning queue with one user, step by step *)

\* A new node is nobody's: it was not allocated.
LEMMA PushNewApiece ==
    ASSUME OneUser, TypeOK, KeptInv, manager = "returning", NEW CONSTANT c, NEW CONSTANT lo, NEW CONSTANT hi,
           NEW CONSTANT C, C = Chained(c, lo, hi), Chain(c, lo, hi), Apiece(C),
           NEW t \in Pushers, NEW n \in Nodes, PushNew(t, n)
    PROVE  Chain(c, lo, hi)' /\ Apiece(C)'
  <1>1. /\ Moved(t) /\ thr[t].pc = "idle" /\ thr'[t].pc = "exchange" /\ thr'[t].node = n /\ thr'[t].cand = Null
        /\ t \in Users /\ n \notin live /\ live' = live \cup {n}
        /\ UNCHANGED <<next, tail, head, isExtra, sentinel, location, ready, buffered, held>>
    BY PushNewDoes DEF Framed
  <1>2. BufferInv /\ NodeInv(C) /\ TakeInv(C) /\ ConsumerInv(C) /\ UserInv(C)
    BY DEF Apiece
  <1>3. /\ \A m : Returned(m)' <=> Returned(m)
        /\ \A m : Outside(m)' <=> Outside(m)
        /\ \A f, m : InBuffer(f, m)' <=> InBuffer(f, m)
        /\ \A m : Clean(m)' <=> Clean(m)
    BY <1>1, SameFlags DEF Clean
  <1>4. /\ t \in Threads /\ t # Consumer /\ Consumer \in Threads /\ Consumer \notin Pushers
        /\ \A u \in Threads : u # t => thr'[u] = thr[u]
        /\ \A u \in Pushers : u # t => thr[u].pc = "idle"
        /\ Pushers \subseteq Threads
    BY <1>1, <1>2, OthersIdle, Constants DEF Moved
  <1>5. /\ \A u \in Threads : thr[u].node # n
        /\ \A m \in C : m # n
    BY <1>1, <1>2, Constants DEF KeptInv, NodeInv
  <1>6. \A u \in Threads : \A m : Taking(u, m)' <=> Taking(u, m) \/ (u = t /\ m = n)
    BY <1>1, <1>4 DEF Taking
  <1>7. Chain(c, lo, hi)'
    <2>1. ~Pushing(t) /\ ~isExtra /\ n \notin C /\ \A u \in Threads : Pushing(u) => thr[u].node # n
      BY <1>1, <1>2, <1>5 DEF Pushing, NodeInv
    <2> QED BY <1>1, <1>4, <2>1, StartChain
  <1>8. BufferInv'
    BY <1>1, <1>2, <1>3 DEF BufferInv
  <1>9. NodeInv(C)'
    BY <1>1, <1>2, <1>3 DEF NodeInv
  <1>10. TakeInv(C)'
    <2>1. Clean(n)
      BY <1>1, <1>2 DEF BufferInv
    <2>2. \A u, w \in Threads, m \in Nodes : Taking(u, m)' /\ Taking(w, m)' => u = w
      BY <1>2, <1>5, <1>6 DEF TakeInv, Taking
    <2>3. \A u \in Threads : u # t => thr'[u].pc = thr[u].pc /\ thr'[u].node = thr[u].node
      BY <1>4
    <2> QED BY <1>1, <1>2, <1>3, <2>1, <2>2, <2>3 DEF TakeInv
  <1>11. ConsumerInv(C)'
    BY <1>1, <1>2, <1>3, <1>4, <1>5, <1>6 DEF ConsumerInv
  <1>12. UserInv(C)'
    BY <1>1, <1>2, <1>4 DEF UserInv
  <1> QED BY <1>7, <1>8, <1>9, <1>10, <1>11, <1>12 DEF Apiece

\* The exchange puts a clean node at the end of the chain, and only that one.
LEMMA ExchangeApiece ==
    ASSUME OneUser, TypeOK, KeptInv, manager = "returning", NEW CONSTANT c, NEW CONSTANT lo, NEW CONSTANT hi,
           NEW CONSTANT C, C = Chained(c, lo, hi), Chain(c, lo, hi), Apiece(C), NEW t \in Threads, Exchange(t),
           NEW CONSTANT n, n = thr[t].node
    PROVE  Apiece(C \cup {n})'
  <1>1. /\ Moved(t) /\ thr[t].pc = "exchange" /\ n \in Nodes /\ thr'[t].pc = "link" /\ thr'[t].node = n
        /\ thr'[t].cand = thr[t].cand /\ tail' = n
        /\ UNCHANGED <<head, isExtra, sentinel, live, location, ready, buffered, held>>
    BY ExchangeDoes DEF Framed
  <1>2. BufferInv /\ NodeInv(C) /\ TakeInv(C) /\ ConsumerInv(C) /\ UserInv(C)
    BY DEF Apiece
  <1>3. /\ \A m : Returned(m)' <=> Returned(m)
        /\ \A m : Outside(m)' <=> Outside(m)
        /\ \A f, m : InBuffer(f, m)' <=> InBuffer(f, m)
        /\ \A m : Clean(m)' <=> Clean(m)
    BY <1>1, SameFlags DEF Clean
  <1>4. /\ Consumer \in Threads /\ Consumer \notin Pushers /\ Pushers \subseteq Threads
        /\ t # Consumer => t \in Pushers
        /\ \A u \in Threads : u # t => thr'[u] = thr[u]
    BY <1>1, Constants DEF Moved
  <1>5. \A u \in Threads : \A m : Taking(u, m)' <=> Taking(u, m)
    BY <1>1, <1>4 DEF Taking
  <1>6. n \in live /\ Clean(n) /\ Taking(t, n)
    <2>1. n \in live
      BY <1>1, Constants DEF KeptInv
    <2> QED BY <1>1, <1>2, <2>1 DEF TakeInv, Taking
  <1>7. BufferInv'
    BY <1>1, <1>2, <1>3 DEF BufferInv
  <1>8. NodeInv(C \cup {n})'
    <2>1. (C \cup {n}) \subseteq live /\ ~isExtra /\ ~Outside(n)
      BY <1>2, <1>6 DEF NodeInv, Clean
    <2>2. \A m \in C \cup {n} : ~Outside(m) /\ (m # sentinel \/ head # Null => Clean(m))
      BY <1>2, <1>6, <2>1 DEF NodeInv
    <2> QED BY <1>1, <1>2, <1>3, <2>1, <2>2 DEF NodeInv
  <1>9. TakeInv(C \cup {n})'
    <2>1. \A u \in Threads : thr'[u].pc = "inuse" => u # t /\ thr[u].pc = "inuse" /\ thr[u].node # n /\ thr'[u].node = thr[u].node
      BY <1>1, <1>2, <1>4, <1>6 DEF TakeInv, Taking
    <2>2. \A u \in Threads : thr'[u].pc = "exchange" => thr[u].pc = "exchange" /\ thr'[u].node = thr[u].node
      BY <1>1, <1>4
    <2> QED BY <1>1, <1>2, <1>3, <1>5, <2>1, <2>2 DEF TakeInv
  <1>10. ConsumerInv(C \cup {n})'
    <2>1. CASE t = Consumer
      BY <1>1, <1>2, <1>3, <2>1 DEF ConsumerInv
    <2>2. CASE t # Consumer
      <3>1. thr'[Consumer] = thr[Consumer]
        BY <1>4, <2>2
      <3>2. thr[Consumer].pc = "release" => thr[Consumer].node # n
        BY <1>2, <1>6 DEF ConsumerInv
      <3> QED BY <1>1, <1>2, <1>3, <1>5, <3>1, <3>2 DEF ConsumerInv
    <2> QED BY <2>1, <2>2
  <1>11. UserInv(C \cup {n})'
    <2>1. CASE t = Consumer
      <3>1. \A u \in Pushers : thr'[u] = thr[u]
        BY <1>4, <2>1
      <3>2. \A m : ~Stale(C, m)
        BY <1>1, <2>1 DEF Stale
      <3>3. \A m : Taking(Consumer, m) => m = n
        BY <2>1 DEF Taking
      <3> QED BY <1>1, <1>2, <1>3, <1>4, <1>5, <3>1, <3>2, <3>3 DEF UserInv
    <2>2. CASE t # Consumer
      <3>1. t \in Users /\ \A u \in Pushers : u # t => thr[u].pc = "idle"
        BY <1>1, <1>2, <1>4, <2>2, OthersIdle DEF UserInv
      <3> QED BY <1>1, <1>2, <1>4, <3>1 DEF UserInv
    <2> QED BY <2>1, <2>2
  <1> QED BY <1>7, <1>8, <1>9, <1>10, <1>11 DEF Apiece

\* A link takes no node from anybody.
LEMMA LinkApiece ==
    ASSUME OneUser, TypeOK, KeptInv, manager = "returning", NEW CONSTANT c, NEW CONSTANT lo, NEW CONSTANT hi,
           NEW CONSTANT C, C = Chained(c, lo, hi), Chain(c, lo, hi), Apiece(C), NEW t \in Threads, Link(t)
    PROVE  Apiece(C)'
  <1>1. /\ Moved(t) /\ thr[t].pc = "link" /\ thr'[t].pc = "idle" /\ thr'[t].node = Null /\ thr'[t].cand = Null
        /\ held' = Given(thr[t].cand)
        /\ UNCHANGED <<tail, head, isExtra, sentinel, live, location, ready, buffered>>
    BY LinkDoes DEF Framed
  <1>2. BufferInv /\ NodeInv(C) /\ TakeInv(C) /\ ConsumerInv(C) /\ UserInv(C)
    BY DEF Apiece
  <1>3. /\ Consumer \in Threads /\ Consumer \notin Pushers /\ Pushers \subseteq Threads
        /\ t # Consumer => t \in Pushers
        /\ \A u \in Threads : u # t => thr'[u] = thr[u]
    BY <1>1, Constants DEF Moved
  <1>4. held' = held
    <2>1. thr[t].cand = Null
      BY <1>1, <1>2, <1>3 DEF ConsumerInv, UserInv
    <2> QED BY <1>1, <2>1, GiveNone
  <1>5. /\ \A m : Returned(m)' <=> Returned(m)
        /\ \A m : Outside(m)' <=> Outside(m)
        /\ \A f, m : InBuffer(f, m)' <=> InBuffer(f, m)
        /\ \A m : Clean(m)' <=> Clean(m)
    BY <1>1, <1>4, SameFlags DEF Clean
  <1>6. \A u \in Threads : \A m : Taking(u, m)' <=> Taking(u, m) /\ u # t
    BY <1>1, <1>3 DEF Taking
  <1>7. BufferInv'
    BY <1>1, <1>2, <1>5 DEF BufferInv
  <1>8. NodeInv(C)'
    BY <1>1, <1>2, <1>4, <1>5 DEF NodeInv
  <1>9. TakeInv(C)'
    <2>1. \A u \in Threads : thr'[u].pc # "idle" => thr'[u] = thr[u]
      BY <1>1, <1>3
    <2> QED BY <1>2, <1>4, <1>5, <1>6, <2>1 DEF TakeInv
  <1>10. ConsumerInv(C)'
    <2>1. CASE t = Consumer
      BY <1>1, <1>2, <2>1 DEF ConsumerInv
    <2>2. CASE t # Consumer
      <3>1. thr'[Consumer] = thr[Consumer]
        BY <1>3, <2>2
      <3> QED BY <1>1, <1>2, <1>4, <1>5, <1>6, <3>1 DEF ConsumerInv
    <2> QED BY <2>1, <2>2
  <1>11. UserInv(C)'
    <2>1. CASE t = Consumer
      <3>1. \A u \in Pushers : thr'[u] = thr[u]
        BY <1>3, <2>1
      <3>2. \A m \in C : ~Returned(m)
        BY <1>1, <1>2, <2>1, ChainFacts DEF ConsumerInv, NodeInv, Clean
      <3>3. Stale(C, tail)'
        BY <1>1, <1>5, <2>1, <3>2 DEF Stale
      <3>4. \A m : ~Stale(C, m)
        BY <1>1, <2>1 DEF Stale
      <3> QED BY <1>1, <1>2, <1>5, <2>1, <3>1, <3>3, <3>4 DEF UserInv
    <2>2. CASE t # Consumer
      <3>1. t \in Users /\ \A u \in Pushers : u # t => thr[u].pc = "idle"
        BY <1>1, <1>2, <1>3, <2>2, OthersIdle DEF UserInv
      <3> QED BY <1>1, <1>2, <1>3, <3>1 DEF UserInv
    <2> QED BY <2>1, <2>2
  <1> QED BY <1>7, <1>8, <1>9, <1>10, <1>11 DEF Apiece

\* A pop that finds nothing behind the sentinel: the sentinel stays, and is
\* given to the user.
LEMMA PopLastApiece ==
    ASSUME OneUser, TypeOK, KeptInv, manager = "returning", NEW CONSTANT c, NEW CONSTANT lo, NEW CONSTANT hi,
           NEW CONSTANT C, C = Chained(c, lo, hi), Chain(c, lo, hi), Apiece(C),
           NEW cand \in Refs, NEW after \in {"idle", "drain"}, Popping(cand, after), next[sentinel] = Null
    PROVE  Apiece(C)'
  <1>1. /\ Moved(Consumer) /\ head # Null /\ head' = Null /\ sentinel' = sentinel /\ ~isExtra'
        /\ cand # Null => cand = head
        /\ thr'[Consumer].pc = "idle" /\ thr'[Consumer].node = thr[Consumer].node
        /\ thr'[Consumer].cand = thr[Consumer].cand /\ held' = Given(cand)
        /\ UNCHANGED <<tail, live, location, ready, buffered>>
    <2>1. "general" # "returning"
      OBVIOUS
    <2> QED BY <2>1, PoppingDoes DEF Framed
  <1>2. BufferInv /\ NodeInv(C) /\ TakeInv(C) /\ ConsumerInv(C) /\ UserInv(C)
    BY DEF Apiece
  <1>3. /\ \A m : Returned(m)' <=> Returned(m)
        /\ \A m : Outside(m)' <=> Outside(m)
        /\ \A f, m : InBuffer(f, m)' <=> InBuffer(f, m)
    BY <1>1, SameFlags
  <1>4. /\ Consumer \in Threads /\ Consumer \notin Pushers /\ Pushers \subseteq Threads /\ Null \notin Nodes
        /\ \A u \in Threads : u # Consumer => thr'[u] = thr[u]
    BY <1>1, Constants DEF Moved
  <1>5. thr[Consumer].pc = "idle"
    BY <1>4, PoppingDoes, ReturningThreads
  <1>6. /\ sentinel \in C /\ sentinel \in live /\ head = sentinel /\ Clean(sentinel)
        /\ \A m \in Nodes : m # sentinel => held'[m] = held[m]
        /\ held[sentinel] = 0 /\ held'[sentinel] \in {0, 1} /\ held \in [Nodes -> Nat]
    <2>1. sentinel \in C /\ head = sentinel /\ sentinel \in Nodes /\ held \in [Nodes -> Nat]
      BY <1>1, <1>2, ChainFacts DEF NodeInv, TypeOK
    <2>2. Clean(sentinel) /\ sentinel \in live
      BY <1>1, <1>2, <2>1 DEF NodeInv
    <2> QED BY <1>1, <1>4, <2>1, <2>2 DEF Given, Clean
  <1>7. C \subseteq Nodes /\ \A m \in Nodes : m # sentinel => (Clean(m)' <=> Clean(m))
    BY <1>3, <1>6, ChainFacts DEF Clean
  <1>8. \A u \in Threads : \A m : Taking(u, m)' <=> Taking(u, m)
    BY <1>1, <1>4, <1>5 DEF Taking
  <1>9. BufferInv'
    BY <1>1, <1>2, <1>3, <1>6, <1>7 DEF BufferInv
  <1>10. NodeInv(C)'
    <2>1. ~Returned(sentinel)
      BY <1>6 DEF Clean
    <2>2. \A m \in Nodes : held'[m] <= 1 /\ (held'[m] = 1 => ~Returned(m))
      BY <1>2, <1>6, <2>1 DEF NodeInv
    <2> QED BY <1>1, <1>2, <1>3, <1>7, <2>2 DEF NodeInv
  <1>11. TakeInv(C)'
    <2>1. \A u \in Threads : thr'[u].pc \in {"inuse", "exchange"} => thr'[u] = thr[u] /\ thr[u].node \in Nodes /\ thr[u].node \notin C
      BY <1>1, <1>2, <1>4, ChainFacts, ReturningThreads DEF TakeInv
    <2>2. \A u \in Threads : thr'[u].pc = "exchange" => Clean(thr[u].node)'
      BY <1>2, <1>6, <1>7, <2>1 DEF TakeInv
    <2> QED BY <1>2, <1>3, <1>6, <1>8, <2>1, <2>2 DEF TakeInv
  <1>12. ConsumerInv(C)'
    BY <1>1, <1>2, <1>5 DEF ConsumerInv
  <1>13. UserInv(C)'
    <2>1. \A u \in Pushers : thr'[u] = thr[u]
      BY <1>4
    <2>2. \A m : ~Taking(Consumer, m)
      BY <1>5 DEF Taking
    <2>3. \A m : Stale(C, m)' <=> Stale(C, m)
      BY <1>1, <1>3, <1>5 DEF Stale
    <2> QED BY <1>2, <1>3, <2>1, <2>2, <2>3 DEF UserInv
  <1> QED BY <1>9, <1>10, <1>11, <1>12, <1>13 DEF Apiece

\* A pop that moves the sentinel: the consumer goes on to release the old one.
LEMMA PopNextApiece ==
    ASSUME OneUser, TypeOK, KeptInv, manager = "returning", NEW CONSTANT c, NEW CONSTANT lo, NEW CONSTANT hi,
           NEW CONSTANT C, C = Chained(c, lo, hi), Chain(c, lo, hi), Apiece(C),
           NEW cand \in Refs, NEW after \in {"idle", "drain"}, Popping(cand, after), next[sentinel] # Null,
           NEW CONSTANT D, C = D \cup {sentinel}, sentinel \notin D
    PROVE  Apiece(D)'
  <1>1. /\ Moved(Consumer) /\ head' = sentinel' /\ ~isExtra' /\ (cand # Null => cand = head)
        /\ thr'[Consumer].pc = "release" /\ thr'[Consumer].node = sentinel /\ thr'[Consumer].cand = cand
        /\ UNCHANGED <<tail, live, location, ready, buffered, held>>
    BY PoppingDoes DEF Framed
  <1>2. BufferInv /\ NodeInv(C) /\ TakeInv(C) /\ ConsumerInv(C) /\ UserInv(C)
    BY DEF Apiece
  <1>3. /\ \A m : Returned(m)' <=> Returned(m)
        /\ \A m : Outside(m)' <=> Outside(m)
        /\ \A f, m : InBuffer(f, m)' <=> InBuffer(f, m)
        /\ \A m : Clean(m)' <=> Clean(m)
    BY <1>1, SameFlags DEF Clean
  <1>4. /\ Consumer \in Threads /\ Consumer \notin Pushers /\ Pushers \subseteq Threads
        /\ \A u \in Threads : u # Consumer => thr'[u] = thr[u]
    BY <1>1, Constants DEF Moved
  <1>5. thr[Consumer].pc = "idle"
    BY <1>4, PoppingDoes, ReturningThreads
  <1>6. \A u \in Threads : \A m : Taking(u, m)' <=> Taking(u, m)
    BY <1>1, <1>4, <1>5 DEF Taking
  <1>7. \A u \in Threads : ~Taking(u, sentinel)
    BY <1>2, ChainFacts, LinkedIsChained DEF TakeInv, Taking
  <1>8. BufferInv'
    BY <1>1, <1>2, <1>3 DEF BufferInv
  <1>9. NodeInv(D)'
    BY <1>1, <1>2, <1>3 DEF NodeInv
  <1>10. TakeInv(D)'
    <2>1. \A u \in Threads : thr'[u].pc \in {"inuse", "exchange"} => thr'[u] = thr[u]
      BY <1>1, <1>4
    <2> QED BY <1>1, <1>2, <1>3, <1>6, <2>1 DEF TakeInv
  <1>11. ConsumerInv(D)'
    <2>1. cand # Null => cand = sentinel /\ ~Returned(sentinel) /\ held[sentinel] = 0
      BY <1>1, <1>2, ChainFacts DEF NodeInv, Clean
    <2>2. ~Outside(sentinel)
      BY <1>2 DEF NodeInv
    <2>3. PICK s : s = sentinel
      OBVIOUS
    <2>4. ~Outside(s)' /\ (\A u \in Threads : ~Taking(u, s)') /\ (cand # Null => ~Returned(s)')
      BY <1>3, <1>6, <1>7, <2>1, <2>2, <2>3
    <2>5. thr'[Consumer].node = s /\ s \notin D
      BY <1>1, <2>3
    <2> QED BY <1>1, <2>1, <2>3, <2>4, <2>5 DEF ConsumerInv
  <1>12. UserInv(D)'
    <2>1. \A u \in Pushers : thr'[u] = thr[u]
      BY <1>4
    <2>2. \A m : ~Taking(Consumer, m)
      BY <1>5 DEF Taking
    <2>3. \A m : Stale(C, m) => Stale(D, m)'
      BY <1>1, <1>3, <1>5 DEF Stale
    <2> QED BY <1>2, <1>3, <2>1, <2>2, <2>3 DEF UserInv
  <1> QED BY <1>8, <1>9, <1>10, <1>11, <1>12 DEF Apiece

\* A store of a flag, at once or through the buffer.
LEMMA ReadyStored ==
    ASSUME TypeOK, BufferInv, NEW t \in Users, NEW n \in Nodes, Store(t, "ready", n), ~Returned(n), n \in live,
           UNCHANGED <<live>>, \A m \in Nodes : m # n => held'[m] = held[m]
    PROVE  /\ \A m : Returned(m)' <=> Returned(m) \/ m = n
           /\ \A m : Outside(m)' <=> Outside(m)
           /\ \A m : m # n => (InBuffer("ready", m)' <=> InBuffer("ready", m))
           /\ ready \subseteq ready' /\ BufferInv'
  <1> DEFINE e == [thread |-> t, field |-> "ready", node |-> n]
  <1>1. e.field = "ready" /\ e.node = n /\ e.thread = t /\ "ready" # "location" /\ t \in Threads
    BY Constants
  <1>2. \/ ready' = ready \cup {n} /\ location' = location /\ buffered' = buffered
        \/ buffered' = buffered \cup {e} /\ location' = location /\ ready' = ready
    BY <1>1, StoreDoes
  <1> HIDE DEF e
  <1>3. location' = location /\ ready \subseteq ready'
    BY <1>2
  <1>4. \A m : InBuffer("location", m)' <=> InBuffer("location", m)
    BY <1>1, <1>2 DEF InBuffer
  <1>5. \A m : Outside(m)' <=> Outside(m)
    BY <1>3, <1>4 DEF Outside
  <1>6. \A m : Returned(m)' <=> Returned(m) \/ m = n
    BY <1>1, <1>2 DEF Returned, InBuffer
  <1>7. \A m : m # n => (InBuffer("ready", m)' <=> InBuffer("ready", m))
    BY <1>1, <1>2 DEF InBuffer
  <1>8. BufferInv'
    <2>1. \A b \in buffered' : IF b.field = "ready" THEN b.thread \in Users ELSE b.thread = Consumer
      BY <1>1, <1>2 DEF BufferInv
    <2>2. \A m \in ready' : ~InBuffer("ready", m)'
      BY <1>1, <1>2 DEF BufferInv, InBuffer, Returned
    <2>3. \A m \in Nodes : InBuffer("location", m)' => location'[m] = "queue"
      BY <1>3, <1>4 DEF BufferInv
    <2>4. \A m \in Nodes \ live : Clean(m)'
      BY <1>5, <1>6 DEF BufferInv, Clean
    <2> QED BY <2>1, <2>2, <2>3, <2>4 DEF BufferInv
  <1> QED BY <1>3, <1>5, <1>6, <1>7, <1>8

\* release_node's store of outside, made at once or buffered, is about its node alone.
LEMMA OutsideStored ==
    ASSUME TypeOK, BufferInv, NEW n \in Nodes, Store(Consumer, "location", n), ~Outside(n), n \in live,
           UNCHANGED <<live, held>>
    PROVE  /\ \A m : Returned(m)' <=> Returned(m)
           /\ \A m \in Nodes : Outside(m)' <=> Outside(m) \/ m = n
           /\ \A m : InBuffer("ready", m)' <=> InBuffer("ready", m)
           /\ ready' = ready /\ BufferInv'
  <1> DEFINE e == [thread |-> Consumer, field |-> "location", node |-> n]
  <1>1. /\ e.field = "location" /\ e.node = n /\ e.thread = Consumer /\ "ready" # "location" /\ Consumer \in Threads
        /\ location \in [Nodes -> {"queue", "outside"}]
    BY Constants DEF TypeOK
  <1>2. \/ location' = [location EXCEPT ![n] = "outside"] /\ ready' = ready /\ buffered' = buffered
        \/ buffered' = buffered \cup {e} /\ location' = location /\ ready' = ready
    BY <1>1, StoreDoes
  <1> HIDE DEF e
  <1>3. \A m : InBuffer("ready", m)' <=> InBuffer("ready", m)
    BY <1>1, <1>2 DEF InBuffer
  <1>4. \A m : Returned(m)' <=> Returned(m)
    BY <1>2, <1>3 DEF Returned
  <1>5. \A m \in Nodes : m # n => location'[m] = location[m]
    BY <1>1, <1>2
  <1>6. \/ location'[n] = "outside" /\ \A m : InBuffer("location", m)' <=> InBuffer("location", m)
        \/ location' = location /\ \A m : InBuffer("location", m)' <=> InBuffer("location", m) \/ m = n
    BY <1>1, <1>2 DEF InBuffer
  <1>7. \A m \in Nodes : Outside(m)' <=> Outside(m) \/ m = n
    BY <1>5, <1>6 DEF Outside
  <1>8. BufferInv'
    <2>1. \A b \in buffered' : IF b.field = "ready" THEN b.thread \in Users ELSE b.thread = Consumer
      BY <1>1, <1>2 DEF BufferInv
    <2>2. \A m \in Nodes : InBuffer("location", m)' => location'[m] = "queue"
      <3>1. ~InBuffer("location", n) /\ location[n] = "queue"
        BY <1>1 DEF Outside
      <3> QED BY <1>5, <1>6, <3>1 DEF BufferInv
    <2>3. \A m \in Nodes \ live : Clean(m)'
      BY <1>4, <1>7 DEF BufferInv, Clean
    <2> QED BY <1>2, <1>3, <2>1, <2>2, <2>3 DEF BufferInv
  <1> QED BY <1>2, <1>3, <1>4, <1>7, <1>8

\* return_me takes the node from its user, who held it alone.
LEMMA ReturnMeApiece ==
    ASSUME OneUser, TypeOK, KeptInv, manager = "returning", NEW CONSTANT c, NEW CONSTANT lo, NEW CONSTANT hi,
           NEW CONSTANT C, C = Chained(c, lo, hi), Chain(c, lo, hi), Apiece(C),
           NEW t \in Pushers, NEW n \in Nodes, ReturnMe(t, n)
    PROVE  Chain(c, lo, hi)' /\ Apiece(C)'
  <1>1. /\ Moved(t) /\ thr[t].pc = "idle" /\ thr'[t].pc = "returning" /\ thr'[t].node = n /\ thr'[t].cand = Null
        /\ t \in Users /\ held[n] > 0 /\ held' = [held EXCEPT ![n] = @ - 1] /\ Store(t, "ready", n)
        /\ UNCHANGED <<next, tail, head, isExtra, sentinel, live>>
    BY ReturnMeDoes DEF Framed, Queue
  <1>2. BufferInv /\ NodeInv(C) /\ TakeInv(C) /\ ConsumerInv(C) /\ UserInv(C)
    BY DEF Apiece
  <1>3. /\ held[n] = 1 /\ held'[n] = 0 /\ ~Returned(n) /\ n \in live /\ held \in [Nodes -> Nat]
        /\ \A m \in Nodes : m # n => held'[m] = held[m]
    <2>1. held \in [Nodes -> Nat] /\ held[n] = 1 /\ n \in live
      BY <1>1, <1>2 DEF TypeOK, NodeInv, KeptInv
    <2> QED BY <1>1, <1>2, <2>1 DEF NodeInv
  <1>4. /\ \A m : Returned(m)' <=> Returned(m) \/ m = n
        /\ \A m : Outside(m)' <=> Outside(m)
        /\ \A m : m # n => (InBuffer("ready", m)' <=> InBuffer("ready", m))
        /\ ready \subseteq ready' /\ BufferInv'
    BY <1>1, <1>2, <1>3, ReadyStored
  <1>5. /\ t \in Threads /\ t # Consumer /\ Consumer \in Threads /\ Consumer \notin Pushers
        /\ \A u \in Threads : u # t => thr'[u] = thr[u]
        /\ \A u \in Pushers : u # t => thr[u].pc = "idle"
        /\ Pushers \subseteq Threads
    BY <1>1, <1>2, OthersIdle, Constants DEF Moved
  <1>6. \A m \in Nodes : m # n => (Clean(m)' <=> Clean(m))
    BY <1>3, <1>4 DEF Clean
  <1>7. ~Clean(n)
    BY <1>3 DEF Clean
  <1>8. \A u \in Threads : \A m : Taking(u, m)' <=> Taking(u, m)
    BY <1>1, <1>5 DEF Taking
  <1>9. Chain(c, lo, hi)'
    BY <1>1, <1>5, QuietChain DEF Pushing
  <1>10. NodeInv(C)'
    <2>1. \A m \in C : m \in Nodes
      BY ChainFacts
    <2>2. \A m \in Nodes : held'[m] <= 1 /\ (held'[m] = 1 => ~Returned(m)')
      BY <1>2, <1>3, <1>4 DEF NodeInv
    <2>3. \A m \in C : ~Outside(m)' /\ (m # sentinel \/ head # Null => Clean(m)')
      BY <1>2, <1>4, <1>6, <1>7, <2>1 DEF NodeInv
    <2> QED BY <1>1, <1>2, <2>2, <2>3 DEF NodeInv
  <1>11. TakeInv(C)'
    <2>1. \A u \in Threads : thr'[u].pc \in {"inuse", "exchange"} =>
            thr'[u] = thr[u] /\ thr[u].node \in Nodes /\ thr[u].node # n
      BY <1>1, <1>2, <1>3, <1>5, <1>7, ReturningThreads DEF TakeInv
    <2>2. \A u \in Threads : thr'[u].pc = "exchange" => Clean(thr[u].node)'
      BY <1>2, <1>6, <2>1 DEF TakeInv
    <2> QED BY <1>2, <1>3, <1>4, <1>8, <2>1, <2>2 DEF TakeInv
  <1>12. ConsumerInv(C)'
    <2>1. thr'[Consumer] = thr[Consumer]
      BY <1>5
    <2>2. thr[Consumer].cand # Null => thr[Consumer].node # n /\ thr[Consumer].node \in Nodes
      BY <1>2, <1>3, <1>5, ReturningThreads DEF ConsumerInv
    <2> QED BY <1>1, <1>2, <1>3, <1>4, <1>8, <2>1, <2>2 DEF ConsumerInv
  <1>13. UserInv(C)'
    BY <1>1, <1>2, <1>4, <1>5 DEF UserInv
  <1> QED BY <1>4, <1>9, <1>10, <1>11, <1>12, <1>13 DEF Apiece

\* release_node takes outside a node that the chain has let go.
LEMMA ReleaseApiece ==
    ASSUME OneUser, TypeOK, KeptInv, manager = "returning", NEW CONSTANT c, NEW CONSTANT lo, NEW CONSTANT hi,
           NEW CONSTANT C, C = Chained(c, lo, hi), Chain(c, lo, hi), Apiece(C), ReleaseNode
    PROVE  Chain(c, lo, hi)' /\ Apiece(C)'
  <1>0. PICK n : n = thr[Consumer].node
    OBVIOUS
  <1>1. /\ Moved(Consumer) /\ thr[Consumer].pc = "release" /\ thr'[Consumer].pc = "released"
        /\ thr'[Consumer].node = n /\ thr'[Consumer].cand = thr[Consumer].cand
        /\ n \in Nodes /\ Store(Consumer, "location", n)
        /\ UNCHANGED <<next, tail, head, isExtra, sentinel, live, held>>
    BY <1>0, ReleaseDoes DEF Framed, Queue
  <1>2. BufferInv /\ NodeInv(C) /\ TakeInv(C) /\ ConsumerInv(C) /\ UserInv(C)
    BY DEF Apiece
  <1>3. /\ n \notin C /\ ~Outside(n) /\ (\A u \in Threads : ~Taking(u, n)) /\ n \in live
        /\ C \subseteq Nodes
    <2>1. n \in live
      BY <1>0, <1>1, Constants DEF KeptInv
    <2> QED BY <1>0, <1>1, <1>2, <2>1, ChainFacts DEF ConsumerInv
  <1>4. /\ \A m : Returned(m)' <=> Returned(m)
        /\ \A m \in Nodes : Outside(m)' <=> Outside(m) \/ m = n
        /\ \A m : InBuffer("ready", m)' <=> InBuffer("ready", m)
        /\ ready' = ready /\ BufferInv'
    BY <1>1, <1>2, <1>3, OutsideStored
  <1>5. /\ Consumer \in Threads /\ Consumer \notin Pushers /\ Pushers \subseteq Threads
        /\ \A u \in Threads : u # Consumer => thr'[u] = thr[u]
    BY <1>1, Constants DEF Moved
  <1>6. \A m \in Nodes : m # n => (Clean(m)' <=> Clean(m))
    BY <1>1, <1>4 DEF Clean
  <1>7. \A u \in Threads : \A m : Taking(u, m)' <=> Taking(u, m)
    BY <1>1, <1>5 DEF Taking
  <1>8. Chain(c, lo, hi)'
    BY <1>1, <1>5, QuietChain DEF Pushing
  <1>9. NodeInv(C)'
    <2>1. \A m \in C : ~Outside(m)' /\ (m # sentinel \/ head # Null => Clean(m)')
      BY <1>2, <1>3, <1>4, <1>6 DEF NodeInv
    <2> QED BY <1>1, <1>2, <1>4, <2>1 DEF NodeInv
  <1>10. TakeInv(C)'
    <2>1. \A u \in Threads : thr'[u].pc \in {"inuse", "exchange"} =>
            thr'[u] = thr[u] /\ thr[u].node \in Nodes /\ thr[u].node # n
      BY <1>1, <1>3, <1>5, ReturningThreads DEF Taking
    <2>2. \A u \in Threads : thr'[u].pc = "exchange" => Clean(thr[u].node)'
      BY <1>2, <1>6, <2>1 DEF TakeInv
    <2> QED BY <1>1, <1>2, <1>4, <1>7, <2>1, <2>2 DEF TakeInv
  <1>11. ConsumerInv(C)'
    <2>1. Outside(n)' /\ Outside(thr[Consumer].node)'
      BY <1>1, <1>4
    <2>2. /\ thr[Consumer].cand # Null => thr[Consumer].cand = n /\ ~Returned(n) /\ held[n] = 0
          /\ head = sentinel
      BY <1>0, <1>1, <1>2 DEF ConsumerInv
    <2>3. thr'[Consumer].cand # Null => ~Returned(n)'
      BY <1>1, <1>4, <2>2
    <2> QED BY <1>1, <2>1, <2>2, <2>3 DEF ConsumerInv
  <1>12. UserInv(C)'
    <2>1. \A u \in Pushers : thr'[u] = thr[u]
      BY <1>5
    <2>2. \A m : ~Taking(Consumer, m)
      BY <1>1 DEF Taking
    <2>3. \A m : Stale(C, m) => Stale(C, m)'
      BY <1>0, <1>1, <1>4 DEF Stale
    <2> QED BY <1>2, <1>4, <2>1, <2>2, <2>3 DEF UserInv
  <1> QED BY <1>4, <1>8, <1>9, <1>10, <1>11, <1>12 DEF Apiece

\* A thread that leaves return_me, or goes on in it, with the flags as they are.
LEMMA LookLocationApiece ==
    ASSUME OneUser, TypeOK, KeptInv, manager = "returning", NEW CONSTANT c, NEW CONSTANT lo, NEW CONSTANT hi,
           NEW CONSTANT C, C = Chained(c, lo, hi), Chain(c, lo, hi), Apiece(C), NEW t \in Threads, LookLocation(t)
    PROVE  Chain(c, lo, hi)' /\ Apiece(C)'
  <1>1. /\ Moved(t) /\ thr[t].pc = "returning"
        /\ \/ /\ thr'[t].pc = "cas" /\ thr'[t].node = thr[t].node /\ thr'[t].cand = thr[t].cand
              /\ held' = held
           \/ thr'[t].pc = "idle" /\ thr'[t].cand = Null /\ held' = Given(thr[t].cand)
        /\ UNCHANGED <<next, tail, head, isExtra, sentinel, live, location, ready, buffered>>
    BY LookLocationDoes DEF Framed, Looked, Queue
  <1>2. BufferInv /\ NodeInv(C) /\ TakeInv(C) /\ ConsumerInv(C) /\ UserInv(C)
    BY DEF Apiece
  <1>3. /\ t # Consumer /\ t \in Pushers /\ t \in Users /\ thr[t].cand = Null
        /\ Consumer \in Threads /\ Consumer \notin Pushers /\ Pushers \subseteq Threads
        /\ \A u \in Threads : u # t => thr'[u] = thr[u]
    <2>1. t # Consumer /\ t \in Pushers
      BY <1>1, <1>2, Constants DEF ConsumerInv
    <2> QED BY <1>1, <1>2, <2>1, Constants DEF UserInv, Moved
  <1>4. held' = held /\ \A u \in Pushers : u # t => thr[u].pc = "idle"
    BY <1>1, <1>2, <1>3, GiveNone, OthersIdle
  <1>5. /\ \A m : Returned(m)' <=> Returned(m)
        /\ \A m : Outside(m)' <=> Outside(m)
        /\ \A f, m : InBuffer(f, m)' <=> InBuffer(f, m)
        /\ \A m : Clean(m)' <=> Clean(m)
    BY <1>1, <1>4, SameFlags DEF Clean
  <1>6. \A u \in Threads : \A m : Taking(u, m)' <=> Taking(u, m)
    BY <1>1, <1>3 DEF Taking
  <1>7. Chain(c, lo, hi)'
    BY <1>1, <1>3, QuietChain DEF Pushing
  <1>8. BufferInv'
    BY <1>1, <1>2, <1>5 DEF BufferInv
  <1>9. NodeInv(C)'
    BY <1>1, <1>2, <1>4, <1>5 DEF NodeInv
  <1>10. TakeInv(C)'
    <2>1. \A u \in Threads : thr'[u].pc \in {"inuse", "exchange"} => thr'[u] = thr[u]
      BY <1>1, <1>3
    <2> QED BY <1>2, <1>4, <1>5, <1>6, <2>1 DEF TakeInv
  <1>11. thr'[Consumer] = thr[Consumer]
    BY <1>3
  <1>12. ConsumerInv(C)'
    BY <1>1, <1>2, <1>4, <1>5, <1>6, <1>11 DEF ConsumerInv
  <1>13. UserInv(C)'
    <2>1. \A m : Stale(C, m)' <=> Stale(C, m)
      BY <1>1, <1>5, <1>11 DEF Stale
    <2> QED BY <1>1, <1>2, <1>3, <1>4, <1>5, <1>6, <1>11, <2>1 DEF UserInv
  <1> QED BY <1>7, <1>8, <1>9, <1>10, <1>12, <1>13 DEF Apiece

\* release_node leaves the node to whoever is given it, or goes on to swap.
LEMMA LookReadyApiece ==
    ASSUME OneUser, TypeOK, KeptInv, manager = "returning", NEW CONSTANT c, NEW CONSTANT lo, NEW CONSTANT hi,
           NEW CONSTANT C, C = Chained(c, lo, hi), Chain(c, lo, hi), Apiece(C), LookReady
    PROVE  Chain(c, lo, hi)' /\ Apiece(C)'
  <1>0. PICK n, cand : n = thr[Consumer].node /\ cand = thr[Consumer].cand
    OBVIOUS
  <1>1. /\ Moved(Consumer) /\ thr[Consumer].pc = "released"
        /\ \/ /\ thr'[Consumer].pc = "cas" /\ thr'[Consumer].node = n /\ thr'[Consumer].cand = cand
              /\ held' = held /\ n \in ready
           \/ thr'[Consumer].pc = "idle" /\ thr'[Consumer].cand = Null /\ held' = Given(cand)
        /\ UNCHANGED <<next, tail, head, isExtra, sentinel, live, location, ready, buffered>>
    BY <1>0, LookReadyDoes DEF Framed, Looked, Queue
  <1>2. BufferInv /\ NodeInv(C) /\ TakeInv(C) /\ ConsumerInv(C) /\ UserInv(C)
    BY DEF Apiece
  <1>3. /\ Consumer \in Threads /\ Consumer \notin Pushers /\ Pushers \subseteq Threads /\ Null \notin Nodes
        /\ \A u \in Threads : u # Consumer => thr'[u] = thr[u]
    BY <1>1, Constants DEF Moved
  <1>4. /\ \A m : Returned(m)' <=> Returned(m)
        /\ \A m : Outside(m)' <=> Outside(m)
        /\ \A f, m : InBuffer(f, m)' <=> InBuffer(f, m)
    BY <1>1, SameFlags
  <1>5. \A u \in Threads : \A m : Taking(u, m)' <=> Taking(u, m)
    BY <1>1, <1>3 DEF Taking
  <1>6. Chain(c, lo, hi)'
    BY <1>1, <1>3, QuietChain DEF Pushing
  <1>7. /\ cand # Null => cand = n /\ ~Returned(n) /\ held[n] = 0 /\ Outside(n) /\ n \notin C /\ n \in live
        /\ n \in Nodes /\ C \subseteq Nodes /\ head = sentinel
    <2>1. n \in Nodes /\ n \in live
      BY <1>0, <1>1, <1>3, ReturningThreads DEF KeptInv
    <2> QED BY <1>0, <1>1, <1>2, <2>1, ChainFacts DEF ConsumerInv, NodeInv
  <1>8. CASE held' = held /\ thr'[Consumer].pc = "cas" /\ thr'[Consumer].node = n /\ thr'[Consumer].cand = cand /\ n \in ready
    <2>1. cand = Null /\ Returned(n)
      BY <1>7, <1>8 DEF Returned
    <2>2. \A m : Clean(m)' <=> Clean(m)
      BY <1>4, <1>8 DEF Clean
    <2>3. BufferInv'
      BY <1>1, <1>2, <1>4, <2>2 DEF BufferInv
    <2>4. NodeInv(C)'
      BY <1>1, <1>2, <1>4, <1>8, <2>2 DEF NodeInv
    <2>5. TakeInv(C)'
      <3>1. \A u \in Threads : thr'[u].pc \in {"inuse", "exchange"} => thr'[u] = thr[u]
        BY <1>1, <1>3
      <3> QED BY <1>2, <1>4, <1>5, <1>8, <2>2, <3>1 DEF TakeInv
    <2>6. ConsumerInv(C)'
      BY <1>1, <1>7, <1>8, <2>1 DEF ConsumerInv
    <2>7. UserInv(C)'
      <3>1. \A u \in Pushers : thr'[u] = thr[u]
        BY <1>3
      <3>2. \A m : ~Taking(Consumer, m) /\ ~Stale(C, m)
        BY <1>0, <1>1, <2>1 DEF Taking, Stale
      <3> QED BY <1>2, <1>4, <3>1, <3>2 DEF UserInv
    <2> QED BY <1>6, <2>3, <2>4, <2>5, <2>6, <2>7 DEF Apiece
  <1>9. CASE thr'[Consumer].pc = "idle" /\ thr'[Consumer].cand = Null /\ held' = Given(cand)
    <2>1. /\ \A m \in Nodes : m # cand => held'[m] = held[m]
          /\ cand # Null => held'[n] = 1
          /\ held \in [Nodes -> Nat]
      BY <1>7, <1>9 DEF Given, TypeOK
    <2>2. \A m \in Nodes : m # cand => (Clean(m)' <=> Clean(m))
      BY <1>4, <2>1 DEF Clean
    <2>3. cand # Null => ~Clean(n)
      BY <1>7 DEF Clean
    <2>4. BufferInv'
      BY <1>1, <1>2, <1>3, <1>4, <1>7, <2>2 DEF BufferInv
    <2>5. NodeInv(C)'
      <3>1. \A m \in Nodes : held'[m] <= 1 /\ (held'[m] = 1 => ~Returned(m))
        BY <1>2, <1>3, <1>7, <2>1 DEF NodeInv
      <3>2. \A m \in C : m # cand
        BY <1>3, <1>7
      <3> QED BY <1>1, <1>2, <1>4, <1>7, <2>2, <3>1, <3>2 DEF NodeInv
    <2>6. TakeInv(C)'
      <3>1. \A u \in Threads : thr'[u].pc \in {"inuse", "exchange"} =>
              thr'[u] = thr[u] /\ thr[u].node \in Nodes /\ thr[u].node # cand
        BY <1>2, <1>3, <1>7, <1>9, <2>3, ReturningThreads DEF TakeInv
      <3>2. \A u \in Threads : thr'[u].pc = "exchange" => Clean(thr[u].node)'
        BY <1>2, <2>2, <3>1 DEF TakeInv
      <3> QED BY <1>2, <1>4, <1>5, <2>1, <3>1, <3>2 DEF TakeInv
    <2>7. ConsumerInv(C)'
      BY <1>9 DEF ConsumerInv
    <2>8. UserInv(C)'
      <3>1. \A u \in Pushers : thr'[u] = thr[u]
        BY <1>3
      <3>2. \A m : ~Taking(Consumer, m)
        BY <1>1 DEF Taking
      <3>3. \A m : Stale(C, m) => Stale(C, m)'
        BY <1>1, <1>4, <1>9 DEF Stale
      <3> QED BY <1>2, <1>4, <3>1, <3>2, <3>3 DEF UserInv
    <2> QED BY <1>6, <2>4, <2>5, <2>6, <2>7, <2>8 DEF Apiece
  <1> QED BY <1>1, <1>8, <1>9

\* A swap that is lost.
LEMMA LostApiece ==
    ASSUME OneUser, TypeOK, KeptInv, manager = "returning", NEW CONSTANT c, NEW CONSTANT lo, NEW CONSTANT hi,
           NEW CONSTANT C, C = Chained(c, lo, hi), Chain(c, lo, hi), Apiece(C), NEW t \in Threads, CompareExchange(t),
           location[thr[t].node] # "outside"
    PROVE  Chain(c, lo, hi)' /\ Apiece(C)'
  <1>1. /\ Moved(t) /\ thr[t].pc = "cas" /\ thr'[t].pc = "idle" /\ thr'[t].cand = Null /\ held' = Given(thr[t].cand)
        /\ UNCHANGED <<next, tail, head, isExtra, sentinel, live, location, ready, buffered>>
    BY SwapDoes DEF Framed, Queue
  <1>2. BufferInv /\ NodeInv(C) /\ TakeInv(C) /\ ConsumerInv(C) /\ UserInv(C)
    BY DEF Apiece
  <1>3. /\ Consumer \in Threads /\ Consumer \notin Pushers /\ Pushers \subseteq Threads
        /\ t # Consumer => t \in Pushers
        /\ \A u \in Threads : u # t => thr'[u] = thr[u]
    BY <1>1, Constants DEF Moved
  <1>4. held' = held
    <2>1. thr[t].cand = Null
      BY <1>1, <1>2, <1>3 DEF ConsumerInv, UserInv
    <2> QED BY <1>1, <2>1, GiveNone
  <1>5. /\ \A m : Returned(m)' <=> Returned(m)
        /\ \A m : Outside(m)' <=> Outside(m)
        /\ \A f, m : InBuffer(f, m)' <=> InBuffer(f, m)
        /\ \A m : Clean(m)' <=> Clean(m)
    BY <1>1, <1>4, SameFlags DEF Clean
  <1>6. \A u \in Threads : \A m : Taking(u, m)' <=> Taking(u, m)
    BY <1>1, <1>3 DEF Taking
  <1>7. Chain(c, lo, hi)'
    BY <1>1, <1>3, QuietChain DEF Pushing
  <1>8. BufferInv'
    BY <1>1, <1>2, <1>5 DEF BufferInv
  <1>9. NodeInv(C)'
    BY <1>1, <1>2, <1>4, <1>5 DEF NodeInv
  <1>10. TakeInv(C)'
    <2>1. \A u \in Threads : thr'[u].pc \in {"inuse", "exchange"} => thr'[u] = thr[u]
      BY <1>1, <1>3
    <2> QED BY <1>2, <1>4, <1>5, <1>6, <2>1 DEF TakeInv
  <1>11. ConsumerInv(C)'
    <2>1. CASE t = Consumer
      BY <1>1, <2>1 DEF ConsumerInv
    <2>2. CASE t # Consumer
      <3>1. thr'[Consumer] = thr[Consumer]
        BY <1>3, <2>2
      <3> QED BY <1>1, <1>2, <1>4, <1>5, <1>6, <3>1 DEF ConsumerInv
    <2> QED BY <2>1, <2>2
  <1>12. UserInv(C)'
    <2>1. CASE t = Consumer
      <3>1. \A u \in Pushers : thr'[u] = thr[u]
        BY <1>3, <2>1
      <3>2. \A m : ~Taking(Consumer, m) /\ ~Stale(C, m)
        BY <1>1, <2>1 DEF Taking, Stale
      <3> QED BY <1>2, <1>5, <3>1, <3>2 DEF UserInv
    <2>2. CASE t # Consumer
      <3>1. t \in Users /\ \A u \in Pushers : u # t => thr[u].pc = "idle"
        BY <1>1, <1>2, <1>3, <2>2, OthersIdle DEF UserInv
      <3> QED BY <1>1, <1>2, <1>3, <3>1 DEF UserInv
    <2> QED BY <2>1, <2>2
  <1> QED BY <1>7, <1>8, <1>9, <1>10, <1>11, <1>12 DEF Apiece

\* Who wins the swap wins a node that was returned and that nobody else has.
LEMMA WonNode ==
    ASSUME OneUser, TypeOK, manager = "returning", NEW c, NEW lo, NEW hi,
           NEW C, C = Chained(c, lo, hi), Chain(c, lo, hi), Apiece(C), NEW t \in Threads, CompareExchange(t),
           NEW n, n = thr[t].node, location[n] = "outside"
    PROVE  /\ n \in Nodes /\ n \notin C /\ Outside(n) /\ Returned(n) /\ ~InBuffer("ready", n) /\ held[n] = 0
           /\ ~InBuffer("location", n) /\ \A u \in Threads : ~Taking(u, n)
  <1>1. n \in Nodes /\ thr[t].pc = "cas" /\ Flushed(t) /\ Outside(n)
    BY SwapDoes DEF Outside
  <1>2. BufferInv /\ NodeInv(C) /\ TakeInv(C) /\ ConsumerInv(C) /\ UserInv(C)
    BY DEF Apiece
  <1>3. n \notin C
    BY <1>1, <1>2 DEF NodeInv
  <1>4. \A u \in Threads : ~Taking(u, n)
    <2> SUFFICES ASSUME NEW u \in Threads, Taking(u, n) PROVE FALSE
      OBVIOUS
    <2>1. thr[u].pc \in {"inuse", "exchange"} => ~Outside(n)
      BY <1>2 DEF TakeInv, Taking, Clean
    <2>2. thr[u].pc = "link" => n \in C
      BY LinkedIsChained DEF Taking
    <2> QED BY <1>1, <1>3, <2>1, <2>2 DEF Taking
  <1>5. ~InBuffer("location", n)
    BY <1>1, <1>2 DEF BufferInv
  <1>6. Returned(n) /\ ~InBuffer("ready", n)
    <2>1. CASE t = Consumer
      <3>1. n \in ready
        BY <1>1, <1>2, <2>1 DEF ConsumerInv
      <3> QED BY <1>2, <3>1 DEF BufferInv, Returned
    <2>2. CASE t # Consumer
      <3>1. t \in Pushers /\ t \in Users
        BY <1>1, <1>2, <2>2, Constants DEF UserInv
      <3>2. ~Stale(C, n)
        BY <1>3, ChainFacts DEF Stale
      <3>3. ~Taking(Consumer, n)
        BY <1>4, Constants
      <3>4. Returned(n)
        BY <1>1, <1>2, <3>1, <3>2, <3>3 DEF UserInv
      <3>5. ~InBuffer("ready", n)
        BY <1>1, <1>2, <3>1 DEF BufferInv, InBuffer, Flushed, OneUser
      <3> QED BY <3>4, <3>5
    <2> QED BY <2>1, <2>2
  <1>7. held[n] = 0
    BY <1>1, <1>2, <1>6, ReturningThreads DEF NodeInv
  <1> QED BY <1>1, <1>3, <1>4, <1>5, <1>6, <1>7

\* Who swaps outside for queue takes the node: the chain has it not, and no other
\* thread can swap it again.
LEMMA WonApiece ==
    ASSUME OneUser, TypeOK, KeptInv, manager = "returning", NEW CONSTANT c, NEW CONSTANT lo, NEW CONSTANT hi,
           NEW CONSTANT C, C = Chained(c, lo, hi), Chain(c, lo, hi), Apiece(C), NEW t \in Threads, CompareExchange(t),
           location[thr[t].node] = "outside"
    PROVE  Chain(c, lo, hi)' /\ Apiece(C)'
  <1>0. PICK n : n = thr[t].node
    OBVIOUS
  <1>1. /\ Moved(t) /\ thr[t].pc = "cas" /\ thr'[t].pc = "inuse" /\ thr'[t].node = n /\ thr'[t].cand = thr[t].cand
        /\ location' = [location EXCEPT ![n] = "queue"]
        /\ UNCHANGED <<next, tail, head, isExtra, sentinel, live, ready, buffered, held>>
    BY <1>0, SwapDoes DEF Framed, Queue
  <1>2. BufferInv /\ NodeInv(C) /\ TakeInv(C) /\ ConsumerInv(C) /\ UserInv(C)
    BY DEF Apiece
  <1>3. /\ n \in Nodes /\ n \notin C /\ Outside(n) /\ Returned(n) /\ ~InBuffer("ready", n) /\ held[n] = 0
        /\ ~InBuffer("location", n) /\ \A u \in Threads : ~Taking(u, n)
    BY <1>0, WonNode
  <1>4. /\ Consumer \in Threads /\ Consumer \notin Pushers /\ Pushers \subseteq Threads
        /\ t # Consumer => t \in Pushers
        /\ \A u \in Threads : u # t => thr'[u] = thr[u]
    BY <1>1, Constants DEF Moved
  <1>5. \A f, m : InBuffer(f, m)' <=> InBuffer(f, m)
    BY <1>1 DEF InBuffer
  <1>6. \A m : Returned(m)' <=> Returned(m)
    BY <1>1, <1>5 DEF Returned
  <1>7. location'[n] = "queue" /\ \A m \in Nodes : m # n => location'[m] = location[m]
    BY <1>1, <1>3 DEF TypeOK
  <1>8. \A m \in Nodes : Outside(m)' <=> Outside(m) /\ m # n
    BY <1>3, <1>5, <1>7 DEF Outside
  <1>9. \A m \in Nodes : Clean(m)' <=> Clean(m)
    BY <1>1, <1>3, <1>6, <1>8 DEF Clean
  <1>10. \A u \in Threads : \A m : Taking(u, m)' <=> Taking(u, m) \/ (u = t /\ m = n)
    BY <1>1, <1>4 DEF Taking
  <1>11. Chain(c, lo, hi)'
    BY <1>1, <1>4, QuietChain DEF Pushing
  <1>12. BufferInv'
    <2>1. \A m \in Nodes : InBuffer("location", m)' => location'[m] = "queue"
      BY <1>2, <1>5, <1>7 DEF BufferInv
    <2> QED BY <1>1, <1>2, <1>5, <1>9, <2>1 DEF BufferInv
  <1>13. NodeInv(C)'
    <2>1. C \subseteq Nodes
      BY ChainFacts
    <2> QED BY <1>1, <1>2, <1>6, <1>8, <1>9, <2>1 DEF NodeInv
  <1>14. TakeInv(C)'
    <2>1. \A u \in Threads : thr'[u].pc \in {"inuse", "exchange"} =>
            u = t \/ (thr'[u] = thr[u] /\ thr[u].node \in Nodes)
      BY <1>4, ReturningThreads
    <2>2. \A u \in Threads : thr'[u].pc = "exchange" => Clean(thr[u].node)'
      BY <1>1, <1>2, <1>9, <2>1 DEF TakeInv
    <2>3. \A u \in Threads : thr'[u].pc = "inuse" => thr'[u].node \in Nodes /\ thr'[u].node \notin C
                               /\ ~InBuffer("ready", thr[u].node)' /\ held'[thr'[u].node] = 0
      BY <1>1, <1>2, <1>3, <1>5, <2>1 DEF TakeInv
    <2>4. \A u \in Threads : thr'[u].pc = "inuse" => ~Outside(thr[u].node)'
      BY <1>1, <1>2, <1>3, <1>8, <2>1 DEF TakeInv
    <2>5. \A u, w \in Threads, m \in Nodes : Taking(u, m)' /\ Taking(w, m)' => u = w
      BY <1>2, <1>3, <1>10 DEF TakeInv
    <2> QED BY <2>2, <2>3, <2>4, <2>5 DEF TakeInv
  <1>15. ConsumerInv(C)'
    <2>1. CASE t = Consumer
      BY <1>1, <1>2, <2>1 DEF ConsumerInv
    <2>2. CASE t # Consumer
      <3>1. thr'[Consumer] = thr[Consumer] /\ (thr[Consumer].pc # "idle" => thr[Consumer].node \in Nodes)
        BY <1>4, <2>2, ReturningThreads
      <3>2. thr[Consumer].pc = "release" => thr[Consumer].node # n
        BY <1>2, <1>3 DEF ConsumerInv
      <3>3. thr[Consumer].cand # Null => thr[Consumer].node # n
        BY <1>2, <1>3 DEF ConsumerInv
      <3> QED BY <1>1, <1>2, <1>6, <1>8, <1>10, <3>1, <3>2, <3>3 DEF ConsumerInv
    <2> QED BY <2>1, <2>2
  <1>16. UserInv(C)'
    <2>1. CASE t = Consumer
      <3>1. \A u \in Pushers : thr'[u] = thr[u]
        BY <1>4, <2>1
      <3>2. \A m : ~Taking(Consumer, m) /\ ~Stale(C, m)
        BY <1>1, <2>1 DEF Taking, Stale
      <3> QED BY <1>2, <1>6, <3>1, <3>2 DEF UserInv
    <2>2. CASE t # Consumer
      <3>1. t \in Users /\ \A u \in Pushers : u # t => thr[u].pc = "idle"
        BY <1>1, <1>2, <1>4, <2>2, OthersIdle DEF UserInv
      <3> QED BY <1>1, <1>2, <1>4, <3>1 DEF UserInv
    <2> QED BY <2>1, <2>2
  <1> QED BY <1>11, <1>12, <1>13, <1>14, <1>15, <1>16 DEF Apiece

\* The store of in_use makes the node clean before it is pushed.
LEMMA InUseApiece ==
    ASSUME OneUser, TypeOK, KeptInv, manager = "returning", NEW CONSTANT c, NEW CONSTANT lo, NEW CONSTANT hi,
           NEW CONSTANT C, C = Chained(c, lo, hi), Chain(c, lo, hi), Apiece(C), NEW t \in Threads, InUse(t)
    PROVE  Chain(c, lo, hi)' /\ Apiece(C)'
  <1>0. PICK n : n = thr[t].node
    OBVIOUS
  <1>1. /\ Moved(t) /\ thr[t].pc = "inuse" /\ thr'[t].pc = "exchange" /\ thr'[t].node = n /\ thr'[t].cand = thr[t].cand
        /\ ready' = ready \ {n} /\ n \in Nodes
        /\ UNCHANGED <<next, tail, head, isExtra, sentinel, live, location, buffered, held>>
    BY <1>0, InUseDoes DEF Framed, Queue
  <1>2. BufferInv /\ NodeInv(C) /\ TakeInv(C) /\ ConsumerInv(C) /\ UserInv(C)
    BY DEF Apiece
  <1>3. n \notin C /\ ~Outside(n) /\ ~InBuffer("ready", n) /\ held[n] = 0 /\ Taking(t, n)
    BY <1>0, <1>1, <1>2 DEF TakeInv, Taking
  <1>4. /\ Consumer \in Threads /\ Consumer \notin Pushers /\ Pushers \subseteq Threads
        /\ t # Consumer => t \in Pushers
        /\ \A u \in Threads : u # t => thr'[u] = thr[u]
    BY <1>1, Constants DEF Moved
  <1>5. \A f, m : InBuffer(f, m)' <=> InBuffer(f, m)
    BY <1>1 DEF InBuffer
  <1>6. \A m : Outside(m)' <=> Outside(m)
    BY <1>1, <1>5 DEF Outside
  <1>7. \A m : Returned(m)' <=> Returned(m) /\ m # n
    BY <1>1, <1>3, <1>5 DEF Returned
  <1>8. Clean(n)' /\ \A m : Clean(m) => Clean(m)'
    BY <1>1, <1>3, <1>6, <1>7 DEF Clean
  <1>9. \A u \in Threads : \A m : Taking(u, m)' <=> Taking(u, m)
    BY <1>0, <1>1, <1>4 DEF Taking
  <1>10. Chain(c, lo, hi)'
    <2>1. ~isExtra /\ ~Pushing(t) /\ \A u \in Threads : Pushing(u) => thr[u].node # n
      BY <1>1, <1>2, <1>3 DEF NodeInv, Pushing, TakeInv, Taking
    <2> QED BY <1>1, <1>3, <2>1, StartChain
  <1>11. BufferInv'
    BY <1>1, <1>2, <1>5, <1>8 DEF BufferInv
  <1>12. NodeInv(C)'
    BY <1>1, <1>2, <1>6, <1>7, <1>8 DEF NodeInv
  <1>13. TakeInv(C)'
    <2>1. \A u \in Threads : u # t => thr'[u] = thr[u]
      BY <1>4
    <2>2. \A u \in Threads : thr'[u].pc = "exchange" => Clean(thr[u].node)'
      BY <1>1, <1>2, <1>8, <2>1 DEF TakeInv
    <2> QED BY <1>1, <1>2, <1>5, <1>6, <1>9, <2>1, <2>2 DEF TakeInv
  <1>14. ConsumerInv(C)'
    <2>1. CASE t = Consumer
      BY <1>1, <1>2, <2>1 DEF ConsumerInv
    <2>2. CASE t # Consumer
      <3>1. thr'[Consumer] = thr[Consumer]
        BY <1>4, <2>2
      <3> QED BY <1>1, <1>2, <1>3, <1>6, <1>7, <1>9, <3>1 DEF ConsumerInv
    <2> QED BY <2>1, <2>2
  <1>15. UserInv(C)'
    <2>1. CASE t = Consumer
      <3>1. \A u \in Pushers : thr'[u] = thr[u]
        BY <1>4, <2>1
      <3>2. \A m : ~Stale(C, m)
        BY <1>1, <2>1 DEF Stale
      <3> QED BY <1>1, <1>2, <1>3, <1>4, <1>7, <1>9, <2>1, <3>1, <3>2 DEF UserInv
    <2>2. CASE t # Consumer
      <3>1. t \in Users /\ \A u \in Pushers : u # t => thr[u].pc = "idle"
        BY <1>1, <1>2, <1>4, <2>2, OthersIdle DEF UserInv
      <3> QED BY <1>1, <1>2, <1>4, <3>1 DEF UserInv
    <2> QED BY <2>1, <2>2
  <1> QED BY <1>10, <1>11, <1>12, <1>13, <1>14, <1>15 DEF Apiece

\* Returned and Outside count buffered stores, so making one changes neither.
LEMMA FlushApiece ==
    ASSUME OneUser, TypeOK, KeptInv, manager = "returning", NEW CONSTANT c, NEW CONSTANT lo, NEW CONSTANT hi,
           NEW CONSTANT C, C = Chained(c, lo, hi), Chain(c, lo, hi), Apiece(C), NEW b \in buffered, Flush(b)
    PROVE  Chain(c, lo, hi)' /\ Apiece(C)'
  <1>0. PICK n : n = b.node
    OBVIOUS
  <1>1. /\ buffered' = buffered \ {b}
        /\ b.field = "ready" => ready' = ready \cup {n} /\ location' = location
        /\ b.field # "ready" => location' = [location EXCEPT ![n] = "outside"] /\ ready' = ready
        /\ UNCHANGED <<next, tail, head, isExtra, sentinel, live, thr, held>>
    BY <1>0, FlushDoes DEF Queue
  <1>2. BufferInv /\ NodeInv(C) /\ TakeInv(C) /\ ConsumerInv(C) /\ UserInv(C)
    BY DEF Apiece
  <1>3. /\ b.field \in {"ready", "location"} /\ n \in Nodes /\ "ready" # "location"
        /\ location \in [Nodes -> {"queue", "outside"}]
    BY <1>0 DEF TypeOK
  <1>4. \A e \in buffered : e.field = b.field /\ e.node = n => e = b
    <2> SUFFICES ASSUME NEW e \in buffered, e.field = b.field, e.node = n PROVE e = b
      OBVIOUS
    <2>1. e.thread = b.thread
      BY <1>2 DEF BufferInv, OneUser
    <2>2. /\ e \in [thread : Threads, field : {"ready", "location"}, node : Nodes]
          /\ b \in [thread : Threads, field : {"ready", "location"}, node : Nodes]
      BY DEF TypeOK
    <2> QED BY <1>0, <2>1, <2>2
  <1>5. /\ \A f, m : InBuffer(f, m)' <=> InBuffer(f, m) /\ ~(f = b.field /\ m = n)
        /\ InBuffer(b.field, n)
    BY <1>0, <1>1, <1>4 DEF InBuffer
  <1>6. \A m : Returned(m)' <=> Returned(m)
    BY <1>1, <1>3, <1>5 DEF Returned
  <1>7. \A m \in Nodes : location'[m] = IF b.field # "ready" /\ m = n THEN "outside" ELSE location[m]
    BY <1>1, <1>3
  <1>8. \A m \in Nodes : Outside(m)' <=> Outside(m)
    BY <1>3, <1>5, <1>7 DEF Outside
  <1>9. \A m \in Nodes : Clean(m)' <=> Clean(m)
    BY <1>1, <1>6, <1>8 DEF Clean
  <1>10. \A u \in Threads : \A m : Taking(u, m)' <=> Taking(u, m)
    BY <1>1 DEF Taking
  <1>11. Chain(c, lo, hi)'
    BY <1>1, StillChain
  <1>12. BufferInv'
    <2>1. \A e \in buffered' : IF e.field = "ready" THEN e.thread \in Users ELSE e.thread = Consumer
      BY <1>1, <1>2 DEF BufferInv
    <2>2. \A m \in ready' : ~InBuffer("ready", m)'
      BY <1>1, <1>2, <1>3, <1>5 DEF BufferInv
    <2>3. \A m \in Nodes : InBuffer("location", m)' => location'[m] = "queue"
      BY <1>2, <1>3, <1>5, <1>7 DEF BufferInv
    <2> QED BY <1>1, <1>2, <1>9, <2>1, <2>2, <2>3 DEF BufferInv
  <1>13. NodeInv(C)'
    <2>1. C \subseteq Nodes
      BY ChainFacts
    <2> QED BY <1>1, <1>2, <1>6, <1>8, <1>9, <2>1 DEF NodeInv
  <1>14. TakeInv(C)'
    <2>1. \A u \in Threads : thr[u].pc \in {"inuse", "exchange"} => thr[u].node \in Nodes
      BY ReturningThreads
    <2>2. \A u \in Threads : thr[u].pc = "exchange" => Clean(thr[u].node)'
      BY <1>1, <1>2, <1>9, <2>1 DEF TakeInv
    <2>3. \A u \in Threads : thr[u].pc = "inuse" => ~Outside(thr[u].node)' /\ ~InBuffer("ready", thr[u].node)'
      BY <1>1, <1>2, <1>5, <1>8, <2>1 DEF TakeInv
    <2> QED BY <1>1, <1>2, <1>10, <2>2, <2>3 DEF TakeInv
  <1>15. ConsumerInv(C)'
    <2>1. (thr[Consumer].pc # "idle" => thr[Consumer].node \in Nodes) /\ ready \subseteq ready'
      BY <1>1, <1>3, ReturningThreads
    <2> QED BY <1>1, <1>2, <1>6, <1>8, <1>10, <2>1 DEF ConsumerInv
  <1>16. UserInv(C)'
    <2>1. \A m : Stale(C, m)' <=> Stale(C, m)
      BY <1>1, <1>6 DEF Stale
    <2> QED BY <1>1, <1>2, <1>6, <1>10, <2>1, Constants DEF UserInv
  <1> QED BY <1>11, <1>12, <1>13, <1>14, <1>15, <1>16 DEF Apiece

\* The chain with one more node.
LEMMA ChainedMore ==
    ASSUME NEW c, NEW lo, NEW hi, Chain(c, lo, hi), NEW n, NEW d, d[hi + 1] = n, \A i \in lo..hi : d[i] = c[i]
    PROVE  Chained(d, lo, hi + 1) = Chained(c, lo, hi) \cup {n}
  <1>1. c \in [Nat -> Nodes] /\ lo \in Nat /\ hi \in Nat /\ lo <= hi
    BY DEF Chain, ChainAt
  <1>2. /\ \A i \in lo..(hi + 1) : i = hi + 1 \/ i \in lo..hi
        /\ lo..hi \subseteq lo..(hi + 1) /\ hi + 1 \in lo..(hi + 1)
    BY <1>1
  <1> QED BY <1>2 DEF Chained

\* Every step keeps the chain and who has its nodes.
LEMMA UseStep ==
    ASSUME OneUser, TypeOK, KeptInv, UseInv, [Next]_vars
    PROVE  UseInv'
  <1>0. manager' = manager /\ "general" # "returning"
    BY DEF Next, vars, Push, GiveBack, Exchange, Link, LookLocation, CompareExchange, InUse, PushNew, ReturnMe,
           Peek, Pop, BlockingPop, Drain, PeekOrBuild, ReleaseNode, LookReady, Flush, fixed
  <1> SUFFICES ASSUME manager = "returning" PROVE \E d, l, h : Chain(d, l, h)' /\ Apiece(Chained(d, l, h))'
    BY <1>0 DEF UseInv
  <1>1. PICK c, lo, hi : Chain(c, lo, hi) /\ Apiece(Chained(c, lo, hi))
    BY DEF UseInv
  <1>2. PICK C : C = Chained(c, lo, hi)
    OBVIOUS
  <1>3. Chain(c, lo, hi) /\ Apiece(C)
    BY <1>1, <1>2
  <1>4. ASSUME Chain(c, lo, hi)' /\ Apiece(C)' PROVE \E d, l, h : Chain(d, l, h)' /\ Apiece(Chained(d, l, h))'
    BY <1>2, <1>4
  <1>5. ASSUME NEW t \in Threads, Exchange(t) PROVE \E d, l, h : Chain(d, l, h)' /\ Apiece(Chained(d, l, h))'
    <2>1. PICK n : n = thr[t].node
      OBVIOUS
    <2>2. PICK d : d = [c EXCEPT ![hi + 1] = n]
      OBVIOUS
    <2>3. Chain(d, lo, hi + 1)' /\ Chained(d, lo, hi + 1) = C \cup {n}
      <3>1. Chain(c, lo, hi) /\ n \in Nodes
        BY <1>3, <1>5, <2>1, ExchangeDoes
      <3>2. Chain(d, lo, hi + 1)'
        BY <1>5, <2>1, <2>2, <3>1, ExchangeChain
      <3>3. Chained(d, lo, hi + 1) = Chained(c, lo, hi) \cup {n}
        <4>1. c \in [Nat -> Nodes] /\ lo \in Nat /\ hi \in Nat
          BY <3>1 DEF Chain
        <4>2. d[hi + 1] = n /\ \A i \in lo..hi : d[i] = c[i]
          BY <2>2, <4>1
        <4> QED BY <3>1, <4>2, ChainedMore
      <3> QED BY <1>2, <3>2, <3>3
    <2>4. Apiece(C \cup {n})'
      BY <1>2, <1>3, <1>5, <2>1, ExchangeApiece
    <2> QED BY <2>3, <2>4
  <1>6. ASSUME NEW t \in Threads, Link(t) PROVE Chain(c, lo, hi)' /\ Apiece(C)'
    BY <1>2, <1>3, <1>6, LinkChain, LinkApiece
  <1>7. ASSUME NEW cand \in Refs, NEW after \in {"idle", "drain"}, Popping(cand, after)
        PROVE  \E d, l, h : Chain(d, l, h)' /\ Apiece(Chained(d, l, h))'
    <2>1. CASE next[sentinel] = Null
      <3>1. Chain(c, lo, hi)' /\ Apiece(C)'
        BY <1>2, <1>3, <1>7, <2>1, PopLastChain, PopLastApiece
      <3> QED BY <1>4, <3>1
    <2>2. CASE next[sentinel] # Null
      <3>1. PICK D : D = Chained(c, lo + 1, hi)
        OBVIOUS
      <3>2. Chain(c, lo + 1, hi)' /\ C = D \cup {sentinel} /\ sentinel \notin D
        BY <1>2, <1>3, <1>7, <2>2, <3>1, PopNextChain
      <3>3. Apiece(D)'
        BY <1>2, <1>3, <1>7, <2>2, <3>2, PopNextApiece
      <3> QED BY <3>1, <3>2, <3>3
    <2> QED BY <2>1, <2>2
  <1>8. ASSUME NEW t \in Pushers, NEW n \in Nodes, PushNew(t, n) \/ ReturnMe(t, n)
        PROVE  Chain(c, lo, hi)' /\ Apiece(C)'
    BY <1>2, <1>3, <1>8, PushNewApiece, ReturnMeApiece
  <1>9. ASSUME NEW t \in Threads, LookLocation(t) \/ CompareExchange(t) \/ InUse(t)
        PROVE  Chain(c, lo, hi)' /\ Apiece(C)'
    BY <1>2, <1>3, <1>9, LookLocationApiece, WonApiece, LostApiece, InUseApiece
  <1>10. ReleaseNode \/ LookReady => Chain(c, lo, hi)' /\ Apiece(C)'
    BY <1>2, <1>3, ReleaseApiece, LookReadyApiece
  <1>11. ASSUME NEW b \in buffered, Flush(b) PROVE Chain(c, lo, hi)' /\ Apiece(C)'
    BY <1>2, <1>3, <1>11, FlushApiece
  <1>12. CASE UNCHANGED vars
    <2>1. Chain(c, lo, hi)'
      BY <1>3, <1>12, StillChain DEF vars
    <2>2. Apiece(C)'
      BY <1>3, <1>12 DEF vars, Apiece, BufferInv, NodeInv, TakeInv, ConsumerInv, UserInv, Stale, Clean, Returned,
                         Outside, InBuffer, Taking
    <2> QED BY <1>4, <2>1, <2>2
  <1>13. ~Closing /\ \A n \in Nodes : ~PeekOrBuild(n)
    BY <1>0, ClosingDoes, BuildDoes
  <1> QED BY <1>4, <1>5, <1>6, <1>7, <1>8, <1>9, <1>10, <1>11, <1>12, <1>13, Steps

\* At first the chain is one node that nobody has.
LEMMA UseInit == Init => UseInv
  <1> SUFFICES ASSUME Init PROVE UseInv
    OBVIOUS
  <1>1. PICK stub \in Nodes :
          /\ next = [n \in Nodes |-> Null] /\ tail = stub /\ sentinel = stub /\ head = stub
          /\ isExtra = FALSE /\ live = {stub} /\ thr = [t \in Threads |-> Idle]
          /\ location = [n \in Nodes |-> "queue"] /\ ready = {} /\ buffered = {} /\ held = [n \in Nodes |-> 0]
    BY DEF Init
  <1>2. \A t \in Threads : thr[t].pc = "idle" /\ thr[t].cand = Null
    BY <1>1, IdleFrame
  <1>3. PICK c : c = [i \in Nat |-> stub]
    OBVIOUS
  <1>4. c \in [Nat -> Nodes] /\ Chained(c, 0, 0) = {stub} /\ c[0] = stub /\ \A i \in 0..(0 - 1) : FALSE
    BY <1>3 DEF Chained
  <1>5. \A m : ~Apart(m)
    BY <1>1, <1>2 DEF Apart
  <1>6. Chain(c, 0, 0)
    <2>1. ChainAt(c, 0, 0)
      BY <1>1, <1>2, <1>4, <1>5 DEF ChainAt, Pushing
    <2> QED BY <1>4, <2>1 DEF Chain
  <1>7. \A n \in Nodes : Clean(n)
    BY <1>1 DEF Clean, Outside, Returned, InBuffer
  <1>8. PICK C : C = Chained(c, 0, 0)
    OBVIOUS
  <1>9. Apiece(C)
    <2>1. BufferInv
      BY <1>1, <1>7 DEF BufferInv, InBuffer
    <2>2. NodeInv(C)
      BY <1>1, <1>4, <1>7, <1>8 DEF NodeInv, Clean
    <2>3. TakeInv(C) /\ ConsumerInv(C) /\ UserInv(C)
      BY <1>2, Constants DEF TakeInv, ConsumerInv, UserInv, Taking
    <2> QED BY <2>1, <2>2, <2>3 DEF Apiece
  <1> QED BY <1>6, <1>8, <1>9 DEF UseInv

---------------------------------------------------------------------------
(* What one user may rely on *)

\* The deleting queue gives its nodes to no user.
FreeInv == manager = "general" => /\ \A n \in Nodes : held[n] = 0
                                  /\ \A t \in Threads : thr[t].cand = Null

\* No step of the deleting queue gives a node to a user.
LEMMA FreeStep ==
    ASSUME TypeOK, FreeInv, [Next]_vars
    PROVE  FreeInv'
  <1>0. manager' = manager
    BY DEF Next, vars, Push, GiveBack, Exchange, Link, LookLocation, CompareExchange, InUse, PushNew, ReturnMe,
           Peek, Pop, BlockingPop, Drain, PeekOrBuild, ReleaseNode, LookReady, Flush, fixed
  <1> SUFFICES ASSUME manager = "general" PROVE FreeInv'
    BY <1>0 DEF FreeInv
  <1>1. "general" # "returning" /\ Null \notin Nodes /\ Consumer \in Threads /\ Pushers \subseteq Threads
    BY Constants
  <1>2. /\ \A n \in Nodes : held[n] = 0
        /\ \A t \in Threads : thr[t].cand = Null
    BY DEF FreeInv
  <1>3. ASSUME NEW t \in Threads, Moved(t), thr'[t].cand = Null, held' = held PROVE FreeInv'
    BY <1>2, <1>3 DEF FreeInv, Moved
  <1>4. ASSUME NEW t \in Threads, Exchange(t) PROVE FreeInv'
    BY <1>2, <1>3, <1>4, ExchangeDoes DEF Framed
  <1>5. ASSUME NEW t \in Threads, Link(t) PROVE FreeInv'
    BY <1>2, <1>3, <1>5, LinkDoes, GiveNone DEF Framed
  <1>6. ASSUME NEW t \in Pushers, NEW n \in Nodes, PushNew(t, n) PROVE FreeInv'
    BY <1>1, <1>3, <1>6, PushNewDoes DEF Framed
  <1>7. ASSUME NEW cand \in Refs, NEW after \in {"idle", "drain"}, Popping(cand, after) PROVE FreeInv'
    <2>1. Moved(Consumer) /\ cand = Null /\ held' = Given(cand) /\ thr'[Consumer].cand = thr[Consumer].cand
      BY <1>1, <1>7, PoppingDoes DEF Framed
    <2> QED BY <1>1, <1>2, <1>3, <2>1, GiveNone
  <1>8. CASE Closing
    <2>1. Goto(Consumer, "closed") /\ held' = held /\ "closed" \in Pcs
      BY <1>8 DEF Closing, Pcs
    <2>2. Moved(Consumer) /\ thr'[Consumer].cand = thr[Consumer].cand
      BY <1>1, <2>1, GotoDoes DEF Framed
    <2> QED BY <1>1, <1>2, <1>3, <2>1, <2>2
  <1>9. ASSUME NEW n \in Nodes, PeekOrBuild(n) PROVE FreeInv'
    BY <1>2, <1>9, BuildDoes DEF FreeInv
  <1>10. ASSUME NEW b \in buffered, Flush(b) PROVE FreeInv'
    BY <1>2, <1>10, FlushDoes DEF FreeInv
  <1>11. ASSUME NEW t \in Threads PROVE ~LookLocation(t) /\ ~CompareExchange(t) /\ ~InUse(t)
    BY <1>1, LookLocationDoes, SwapDoes, InUseDoes
  <1>12. ~LookReady /\ ~ReleaseNode /\ \A t \in Pushers, n \in Nodes : ~ReturnMe(t, n)
    BY <1>1, LookReadyDoes, ReleaseDoes, ReturnMeDoes
  <1>13. CASE UNCHANGED vars
    BY <1>13 DEF FreeInv, vars
  <1> QED BY <1>4, <1>5, <1>6, <1>7, <1>8, <1>9, <1>10, <1>11, <1>12, <1>13, Steps

\* At first no user has a node.
LEMMA FreeInit == Init => FreeInv
  <1> SUFFICES ASSUME Init PROVE FreeInv
    OBVIOUS
  <1>1. held = [n \in Nodes |-> 0] /\ thr = [t \in Threads |-> Idle]
    BY DEF Init
  <1> QED BY <1>1, IdleFrame DEF FreeInv

UsedInv == QueueInv /\ UseInv /\ FreeInv

\* The invariant of the queue with at most one user.
LEMMA UsedAlways ==
    ASSUME OneUser
    PROVE  Spec => []UsedInv
  <1>1. Init => UsedInv
    BY TypeInit, KeptInit, ChainInit, UseInit, FreeInit DEF UsedInv, QueueInv
  <1>2. UsedInv /\ [Next]_vars => UsedInv'
    BY TypeStep, KeptStep, ChainStep, UseStep, FreeStep DEF UsedInv, QueueInv
  <1> QED BY <1>1, <1>2, PTL DEF Spec

\* A node that is on the queue is in nobody's hands.
LEMMA QueuedIsClean ==
    ASSUME TypeOK, NEW c, NEW lo, NEW hi, Chain(c, lo, hi), NodeInv(Chained(c, lo, hi)), NEW n \in Nodes, held[n] # 0
    PROVE  n \notin Queued
  <1> DEFINE C == Chained(c, lo, hi)
  <1>1. /\ c \in [Nat -> Nodes] /\ lo \in Nat /\ hi \in Nat /\ lo <= hi /\ c[lo] = sentinel
        /\ \A i, j \in lo..hi : c[i] = c[j] => i = j
        /\ ~isExtra /\ head \in {Null, sentinel} /\ n # Null
    BY ChainFacts, Constants DEF Chain, ChainAt, NodeInv
  <1>2. ~Clean(n) /\ (n \in C => n = sentinel /\ head = Null)
    <2>1. ~Clean(n)
      BY DEF Clean
    <2> QED BY <2>1 DEF NodeInv
  <1>3. \A i \in (lo + 1)..hi : c[i] # n
    <2> SUFFICES ASSUME NEW i \in (lo + 1)..hi, c[i] = n PROVE FALSE
      OBVIOUS
    <2>1. i \in lo..hi /\ lo \in lo..hi /\ i # lo
      BY <1>1
    <2>2. n \in C
      BY <2>1 DEF Chained
    <2> QED BY <1>1, <1>2, <2>1, <2>2
  <1>4. head # n
    <2>1. lo \in lo..hi
      BY <1>1
    <2>2. sentinel \in C
      BY <1>1, <2>1 DEF Chained
    <2> QED BY <1>1, <1>2, <2>2
  <1> DEFINE s == Seg(c, lo + 1, hi)
  <1>5. s \in Seq(Nodes) /\ Len(s) = hi - lo /\ \A i \in 1..(hi - lo) : s[i] = c[lo + i]
    BY <1>1, SegBehind
  <1>6. Elements = IF head = Null THEN s ELSE <<head>> \o s
    BY ElementsChain DEF El
  <1> HIDE DEF s
  <1>7. \A i \in 1..Len(s) : s[i] # n
    <2>1. \A i \in 1..(hi - lo) : lo + i \in (lo + 1)..hi
      BY <1>1
    <2> QED BY <1>3, <1>5, <2>1
  <1>8. \A i \in 1..Len(Elements) : Elements[i] # n
    <2>1. CASE head = Null
      BY <1>6, <1>7, <2>1
    <2>2. CASE head # Null
      <3>1. Elements = <<head>> \o s /\ Len(Elements) = Len(s) + 1
        BY <1>5, <1>6, <2>2
      <3>2. ASSUME NEW i \in 1..Len(Elements), i # 1 PROVE Elements[i] = s[i - 1] /\ i - 1 \in 1..Len(s)
        BY <1>5, <3>1, <3>2
      <3>3. Elements[1] = head
        BY <1>5, <3>1
      <3> QED BY <1>4, <1>7, <3>2, <3>3
    <2> QED BY <2>1, <2>2
  <1> QED BY <1>8 DEF Queued

\* With one user, whatever of its stores is still in a buffer, a node that
\* blocking_pop gave it is given out once and is not on the queue until
\* return_me: of return_me and release_node only one pushes the node back.
THEOREM GivenToOneAlone ==
    ASSUME OneUser
    PROVE  Spec => []ExclusiveUse
  <1>1. UsedInv => ExclusiveUse
    <2> SUFFICES ASSUME UsedInv, NEW n \in Nodes PROVE held[n] <= 1 /\ (held[n] = 1 => n \notin Queued)
      BY DEF ExclusiveUse
    <2>1. TypeOK /\ UseInv /\ FreeInv
      BY DEF UsedInv, QueueInv
    <2>2. CASE manager = "general"
      BY <2>1, <2>2 DEF FreeInv
    <2>3. CASE manager = "returning"
      <3>1. PICK c, lo, hi : Chain(c, lo, hi) /\ NodeInv(Chained(c, lo, hi))
        BY <2>1, <2>3 DEF UseInv, Apiece
      <3>2. held[n] <= 1
        BY <3>1 DEF NodeInv
      <3>3. held[n] = 1 => n \notin Queued
        BY <2>1, <3>1, QueuedIsClean
      <3> QED BY <3>2, <3>3
    <2> QED BY <2>1, <2>2, <2>3, Constants DEF TypeOK
  <1> QED BY <1>1, UsedAlways, PTL

\* A step of the returning queue puts an element, takes the oldest or shows the
\* abstract queue nothing.
LEMMA UseFifo ==
    ASSUME OneUser, TypeOK, TypeOK', KeptInv, manager = "returning", NEW CONSTANT c, NEW CONSTANT lo, NEW CONSTANT hi,
           NEW CONSTANT C, C = Chained(c, lo, hi), Chain(c, lo, hi), Apiece(C), [Next]_vars
    PROVE  [Fifo!Next]_Elements
  <1>0. "general" # "returning"
    OBVIOUS
  <1>1. ASSUME Chain(c, lo, hi)', head' = head PROVE Elements' = Elements
    BY <1>1, StillElements
  <1>2. ASSUME NEW t \in Threads, Exchange(t) PROVE Fifo!Next
    <2>1. \E n \in Nodes : Fifo!Put(n)
      BY <1>2, ExchangePuts
    <2> QED BY <2>1 DEF Fifo!Next
  <1>3. ASSUME NEW cand \in Refs, NEW after \in {"idle", "drain"}, Popping(cand, after)
        PROVE  Fifo!Next \/ Elements' = Elements
    <2>1. Fifo!Take \/ Elements' = Elements
      BY <1>3, PopTakes
    <2> QED BY <2>1 DEF Fifo!Next
  <1>4. ASSUME NEW t \in Threads, Link(t) PROVE Elements' = Elements
    BY <1>1, <1>4, LinkChain, LinkDoes
  <1>5. ASSUME NEW t \in Pushers, NEW n \in Nodes, PushNew(t, n) \/ ReturnMe(t, n) PROVE Elements' = Elements
    BY <1>1, <1>5, PushNewApiece, ReturnMeApiece, PushNewDoes, ReturnMeDoes DEF Queue
  <1>6. ASSUME NEW t \in Threads, LookLocation(t) \/ CompareExchange(t) \/ InUse(t) PROVE Elements' = Elements
    <2>1. Chain(c, lo, hi)'
      BY <1>6, LookLocationApiece, WonApiece, LostApiece, InUseApiece
    <2>2. head' = head
      BY <1>6, LookLocationDoes, SwapDoes, InUseDoes DEF Queue
    <2> QED BY <1>1, <2>1, <2>2
  <1>7. ReleaseNode \/ LookReady => Elements' = Elements
    BY <1>1, ReleaseApiece, LookReadyApiece, ReleaseDoes, LookReadyDoes DEF Queue
  <1>8. ASSUME NEW b \in buffered, Flush(b) PROVE Elements' = Elements
    BY <1>1, <1>8, FlushApiece, FlushDoes DEF Queue
  <1>9. CASE UNCHANGED vars
    BY <1>1, <1>9, StillChain DEF vars
  <1>10. ~Closing /\ \A n \in Nodes : ~PeekOrBuild(n)
    BY <1>0, ClosingDoes, BuildDoes
  <1> QED BY <1>2, <1>3, <1>4, <1>5, <1>6, <1>7, <1>8, <1>9, <1>10, Steps

\* With one user, either queue is first-in first-out for any number of nodes:
\* a node that is pushed back counts as an element from the exchange of the
\* tail on, and until then return_me and release_node change nothing queued.
THEOREM OneUsersOrderIsTaken ==
    ASSUME OneUser
    PROVE  Spec => FirstInFirstOut
  <1>1. UsedInv /\ UsedInv' /\ [Next]_vars => [Fifo!Next]_Elements
    <2> SUFFICES ASSUME UsedInv, UsedInv', [Next]_vars PROVE [Fifo!Next]_Elements
      OBVIOUS
    <2>1. TypeOK /\ TypeOK' /\ KeptInv /\ ChainInv /\ UseInv
      BY DEF UsedInv, QueueInv
    <2>2. CASE manager = "general"
      <3>1. PICK c, lo, hi : OwnChain(c, lo, hi)
        BY <2>1, <2>2 DEF ChainInv, OwnChain, Chain
      <3> QED BY <2>1, <2>2, <3>1, FifoStep
    <2>3. CASE manager = "returning"
      <3>1. PICK c, lo, hi : Chain(c, lo, hi) /\ Apiece(Chained(c, lo, hi))
        BY <2>1, <2>3 DEF UseInv
      <3>2. PICK C : C = Chained(c, lo, hi)
        OBVIOUS
      <3>3. Chain(c, lo, hi) /\ Apiece(C)
        BY <3>1, <3>2
      <3> QED BY <2>1, <2>3, <3>2, <3>3, UseFifo
    <2> QED BY <2>1, <2>2, <2>3, Constants DEF TypeOK
  <1> QED BY <1>1, FifoInit, UsedAlways, PTL DEF Spec, FirstInFirstOut, Fifo!Spec
============================================================================
