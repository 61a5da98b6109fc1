------------------------------- MODULE PonyQ -------------------------------
(***************************************************************************)
(* The message queue of ponyq/ponyq.hpp: many threads push, one consumes.   *)
(* A push is two steps, the exchange of the tail and the link from the old  *)
(* tail, and between them the queue ends early for the consumer.  The node  *)
(* that was consumed last stays as the sentinel until another is linked     *)
(* behind it.                                                               *)
(*                                                                          *)
(* normalq.hpp gives the queue two memory managers.  GeneralQueue deletes   *)
(* a node that the sentinel leaves behind.  ReturningQueue lets the user of *)
(* a consumed node call return_me, on another thread, and has return_me and *)
(* release_node settle by a compare-and-swap which of the two pushes the    *)
(* node back.                                                               *)
(*                                                                          *)
(* Memory is that of the x86 build: exchanges and compare-and-swaps empty   *)
(* the store buffer of their thread, plain stores do not, so that the two   *)
(* stores that are followed by a load of the other thread's flag may still  *)
(* be buffered at that load.                                                *)
(***************************************************************************)
EXTENDS Naturals, FiniteSets, Sequences

CONSTANTS Nodes, Pushers, Consumer, Null,
          Users,          \* those of the pushers that share a ReturningQueue
          Managers        \* subset of {"general", "returning"}

ASSUME QueueAssumption == /\ Consumer \notin Pushers
                          /\ Null \notin Nodes /\ IsFiniteSet(Nodes)
                          /\ Users \subseteq Pushers
                          /\ Managers \subseteq {"general", "returning"}

VARIABLES manager,    \* the memory manager, and whether stores may wait in
          buffers,    \* a buffer: fixed in a behaviour
          next,       \* node::next
          tail,       \* PonyQ::tail
          head,       \* false_head::head
          isExtra,    \* false_head::is_extra
          sentinel,   \* PonyQ::sentinel
          live,       \* the nodes that are allocated
          location,   \* node::location, as the threads see it in memory
          ready,      \* node::return_ready = ready, likewise
          buffered,   \* stores that are still in their thread's store buffer
          thr,        \* where each thread is in push, pop and return_me
          held        \* how many users hold a node that blocking_pop gave out

vars == <<manager, buffers, next, tail, head, isExtra, sentinel, live, location, ready,
          buffered, thr, held>>
fixed == <<manager, buffers>>
flags == <<location, ready, buffered>>

Threads == Pushers \cup {Consumer}
Idle == [pc |-> "idle", node |-> Null, prev |-> Null, cand |-> Null]

\* The stub is the sentinel and the head: the queue starts with one element.
Init == \E stub \in Nodes :
          /\ manager \in Managers /\ buffers \in BOOLEAN
          /\ manager = "general" => ~buffers
          /\ next = [n \in Nodes |-> Null]
          /\ tail = stub /\ sentinel = stub /\ head = stub
          /\ isExtra = FALSE
          /\ live = {stub}
          /\ location = [n \in Nodes |-> "queue"]
          /\ ready = {}
          /\ buffered = {}
          /\ thr = [t \in Threads |-> Idle]
          /\ held = [n \in Nodes |-> 0]

\* The store buffer of t is empty; one of its entries is this store.
Flushed(t) == \A b \in buffered : b.thread # t
Mine(t, field, n) == [thread |-> t, field |-> field, node |-> n] \in buffered

Goto(t, pc) == thr' = [thr EXCEPT ![t].pc = pc]

\* The thread leaves push, pop or return_me; a node that blocking_pop was
\* about to return is given to a user.
Return(t) ==
  /\ thr' = [thr EXCEPT ![t] = Idle]
  /\ held' = [n \in Nodes |-> IF n = thr[t].cand THEN held[n] + 1 ELSE held[n]]

-----------------------------------------------------------------------------
(* Pushing *)

PushNew(t, n) ==
  /\ manager = "returning" => t \in Users
  /\ thr[t].pc = "idle" /\ thr[Consumer].pc # "closed"
  /\ n \notin live
  /\ live' = live \cup {n}
  /\ thr' = [thr EXCEPT ![t] = [Idle EXCEPT !.pc = "exchange", !.node = n]]
  /\ UNCHANGED <<fixed, next, tail, head, isExtra, sentinel, flags, held>>

Exchange(t) ==
  /\ thr[t].pc = "exchange" /\ Flushed(t)
  /\ next' = [next EXCEPT ![thr[t].node] = Null]
  /\ tail' = thr[t].node
  /\ thr' = [thr EXCEPT ![t].pc = "link", ![t].prev = tail]
  /\ UNCHANGED <<fixed, head, isExtra, sentinel, live, flags, held>>

Link(t) ==
  /\ thr[t].pc = "link"
  /\ next' = [next EXCEPT ![thr[t].prev] = thr[t].node]
  /\ Return(t)
  /\ UNCHANGED <<fixed, tail, head, isExtra, sentinel, live, flags>>

-----------------------------------------------------------------------------
(* Consuming *)

FreesLast(nx) == IF isExtra THEN {head} ELSE {sentinel}
KeepsExtra(nx) == IF nx = Null THEN {} ELSE {sentinel}

\* false_head::operator= releases an extra element that was the head, and pop
\* the sentinel that it leaves behind, once nx is linked.
LeftBehind(nx) == (IF isExtra THEN {head} ELSE {}) \cup
                  (IF nx = Null THEN {} ELSE {sentinel})

\* What a consumer finds behind the sentinel, and where the sentinel goes.
Linked == next[sentinel]

NextSentinel(nx) == IF nx = Null THEN sentinel ELSE nx

\* pop: the head is what is linked behind the sentinel.  The deleting manager
\* frees what is left behind; the returning one goes on in release_node.
pop(cand, after) ==
  LET nx == Linked IN
    /\ head' = nx
    /\ isExtra' = FALSE
    /\ sentinel' = NextSentinel(nx)
    /\ live' = IF manager = "returning" THEN live ELSE live \ LeftBehind(nx)
    /\ IF manager = "returning" /\ nx # Null
       THEN /\ thr' = [thr EXCEPT ![Consumer] =
                         [pc |-> "release", node |-> sentinel, prev |-> Null,
                          cand |-> cand]]
            /\ UNCHANGED held
       ELSE /\ held' = [n \in Nodes |-> IF n = cand THEN held[n] + 1 ELSE held[n]]
            /\ Goto(Consumer, after)

\* peek on an empty queue tries to pop.
PeekOnly == thr[Consumer].pc = "idle" /\ head = Null /\ UNCHANGED vars
Peek ==
  /\ thr[Consumer].pc = "idle" /\ head = Null
  /\ Linked # Null
  /\ pop(Null, "idle")
  /\ UNCHANGED <<fixed, next, tail, flags>>

Pop ==
  /\ manager = "general"
  /\ thr[Consumer].pc = "idle" /\ head # Null
  /\ pop(Null, "idle")
  /\ UNCHANGED <<fixed, next, tail, flags>>

\* blocking_pop, once its peek has found an element.
BlockingPop ==
  /\ manager = "returning"
  /\ thr[Consumer].pc = "idle" /\ head # Null
  /\ pop(head, "idle")
  /\ UNCHANGED <<fixed, next, tail, flags>>

\* peek_or_build when the queue ends at the sentinel.
PeekOrBuild(n) ==
  /\ manager = "general"
  /\ thr[Consumer].pc = "idle" /\ head = Null
  /\ Linked = Null
  /\ n \notin live
  /\ live' = live \cup {n}
  /\ head' = n /\ isExtra' = TRUE
  /\ UNCHANGED <<fixed, next, tail, sentinel, flags, thr, held>>

\* ~PonyQ, when no push is under way: while (peek()) pop(), then the sentinel.
Drain ==
  /\ manager = "general" /\ \A t \in Pushers : thr[t].pc = "idle"
  /\ thr[Consumer].pc \in {"idle", "drain"}
  /\ IF head # Null \/ Linked # Null
     THEN pop(Null, "drain")
     ELSE /\ Goto(Consumer, "closed")
          /\ live' = live \ {sentinel}
          /\ UNCHANGED <<head, isExtra, sentinel, held>>
  /\ UNCHANGED <<fixed, next, tail, flags>>

-----------------------------------------------------------------------------
(* ReturningQueue: return_me on a user's thread, release_node on the         *)
(* consumer's.  Each stores its own flag, then looks at the other's.         *)

\* A store that reaches memory now or stays in the buffer.
Store(t, field, n) ==
  \/ /\ IF field = "ready"
        THEN ready' = ready \cup {n} /\ UNCHANGED location
        ELSE location' = [location EXCEPT ![n] = "outside"] /\ UNCHANGED ready
     /\ UNCHANGED buffered
  \/ /\ buffers
     /\ buffered' = buffered \cup {[thread |-> t, field |-> field, node |-> n]}
     /\ UNCHANGED <<location, ready>>

Flush(b) ==
  /\ b \in buffered
  /\ buffered' = buffered \ {b}
  /\ IF b.field = "ready"
     THEN ready' = ready \cup {b.node} /\ UNCHANGED location
     ELSE location' = [location EXCEPT ![b.node] = "outside"] /\ UNCHANGED ready
  /\ UNCHANGED <<fixed, next, tail, head, isExtra, sentinel, live, thr, held>>

ReturnMe(t, n) ==
  /\ manager = "returning" /\ t \in Users
  /\ thr[t].pc = "idle" /\ Flushed(t)
  /\ held[n] > 0
  /\ held' = [held EXCEPT ![n] = @ - 1]
  /\ Store(t, "ready", n)
  /\ thr' = [thr EXCEPT ![t] = [Idle EXCEPT !.pc = "returning", !.node = n]]
  /\ UNCHANGED <<fixed, next, tail, head, isExtra, sentinel, live>>

NeverLooks(t) ==
  /\ thr[t].pc = "returning"
  /\ Return(t)
  /\ UNCHANGED <<fixed, next, tail, head, isExtra, sentinel, live, flags>>

LookLocation(t) ==
  /\ thr[t].pc = "returning"
  /\ IF location[thr[t].node] = "outside"
     THEN Goto(t, "cas") /\ UNCHANGED held
     ELSE Return(t)
  /\ UNCHANGED <<fixed, next, tail, head, isExtra, sentinel, live, flags>>

ReleaseNode ==
  /\ thr[Consumer].pc = "release" /\ Flushed(Consumer)
  /\ Store(Consumer, "location", thr[Consumer].node)
  /\ Goto(Consumer, "released")
  /\ UNCHANGED <<fixed, next, tail, head, isExtra, sentinel, live, held>>

\* Its second look, at location, finds its own store or a return's.  A node
\* that this pop gives to a user is seen outside by whoever is given it.
LookReady ==
  /\ thr[Consumer].pc = "released"
  /\ thr[Consumer].cand # Null => Flushed(Consumer)
  /\ LET n == thr[Consumer].node IN
       IF n \in ready /\ (location[n] = "outside" \/ Mine(Consumer, "location", n))
       THEN Goto(Consumer, "cas") /\ UNCHANGED held
       ELSE Return(Consumer)
  /\ UNCHANGED <<fixed, next, tail, head, isExtra, sentinel, live, flags>>

CheckThenStore(t) ==
  /\ thr[t].pc = "cas" /\ Flushed(t)
  /\ location' = [location EXCEPT ![thr[t].node] = "queue"]
  /\ Goto(t, "inuse")
  /\ UNCHANGED <<fixed, next, tail, head, isExtra, sentinel, live, ready, buffered, held>>

\* Whoever swaps outside for queue has the node to push.
CompareExchange(t) ==
  /\ thr[t].pc = "cas" /\ Flushed(t)
  /\ IF location[thr[t].node] = "outside"
     THEN /\ location' = [location EXCEPT ![thr[t].node] = "queue"]
          /\ Goto(t, "inuse") /\ UNCHANGED held
     ELSE Return(t) /\ UNCHANGED location
  /\ UNCHANGED <<fixed, next, tail, head, isExtra, sentinel, live, ready, buffered>>

StaysReady(t) ==
  /\ thr[t].pc = "inuse"
  /\ Goto(t, "exchange")
  /\ UNCHANGED <<fixed, next, tail, head, isExtra, sentinel, live, flags, held>>

InUse(t) ==
  /\ thr[t].pc = "inuse"
  /\ ready' = ready \ {thr[t].node}
  /\ Goto(t, "exchange")
  /\ UNCHANGED <<fixed, next, tail, head, isExtra, sentinel, live, location, buffered, held>>

-----------------------------------------------------------------------------
Push(t) == Exchange(t) \/ Link(t)
GiveBack(t) == LookLocation(t) \/ CompareExchange(t) \/ InUse(t)

Next == \/ \E t \in Threads : Push(t) \/ GiveBack(t)
        \/ \E t \in Pushers, n \in Nodes : PushNew(t, n) \/ ReturnMe(t, n)
        \/ Peek \/ Pop \/ BlockingPop \/ Drain
        \/ \E n \in Nodes : PeekOrBuild(n)
        \/ ReleaseNode \/ LookReady
        \/ \E b \in buffered : Flush(b)

\* Threads run until they leave the queue's code; store buffers empty by
\* themselves; a consumer in blocking_pop spins until it has an element; users
\* give back what they hold; and a program that fills the queue gets to do so.
Spec == /\ Init /\ [][Next]_vars
        /\ \A t \in Threads : WF_vars(Push(t) \/ GiveBack(t))
        /\ WF_vars(ReleaseNode \/ LookReady)
        /\ WF_vars(Peek \/ BlockingPop)
        /\ WF_vars(\E b \in buffered : Flush(b))
        /\ \A n \in Nodes : WF_vars(\E t \in Pushers : ReturnMe(t, n))
        /\ WF_vars(\E t \in Pushers, n \in Nodes : PushNew(t, n))

-----------------------------------------------------------------------------
(* Properties *)

\* The elements in the order of their exchanges: links that are still to be
\* made count.  At most every node is visited, so that the walk ends.
After(n) ==
  IF \E t \in Threads : thr[t].pc = "link" /\ thr[t].prev = n
  THEN thr[CHOOSE t \in Threads : thr[t].pc = "link" /\ thr[t].prev = n].node
  ELSE next[n]

Elements ==
  LET walk[p \in (0..Cardinality(Nodes)) \X (Nodes \cup {Null})] ==
        IF p[1] = 0 \/ p[2] = Null THEN <<>> ELSE <<p[2]>> \o walk[<<p[1] - 1, After(p[2])>>]
      from(n) == walk[<<Cardinality(Nodes), n>>] IN
    IF isExtra THEN <<head>> \o from(After(sentinel))
    ELSE IF head # Null THEN from(head) ELSE from(After(sentinel))

Queued == LET e == Elements IN {e[i] : i \in 1..Len(e)}

\* Pushes that overlap in any way, and a consumer that pops while links are
\* missing, still make a first-in first-out queue: nothing is lost, doubled or
\* overtaken.  (push, pop, peek, peek_or_build)
Fifo == INSTANCE FifoQueue WITH q <- Elements
FirstInFirstOut == Fifo!Spec

\* No thread writes to, and the queue never refers to, a node that pop or the
\* false head has deleted: in particular the old tail that a push still has to
\* link is never freed under it.  (push's prev->next, release_node)
NoDanglingNode ==
  /\ \A t \in Threads : thr[t].pc = "link" => thr[t].prev \in live
  /\ thr[Consumer].pc # "closed" =>
       {sentinel, tail} \cup ({head} \ {Null}) \subseteq live

\* The destructor frees whatever the queue still owned: the elements, the
\* sentinel and an extra head.  (~PonyQ)
NothingLeaks ==
  thr[Consumer].pc = "closed" => live = {}

\* A queue that has elements does not look empty for ever, although an element
\* whose push is complete is hidden while an earlier push has not linked.
HiddenElementsAppear ==
  Elements # <<>> ~> (head # Null \/ thr[Consumer].pc # "idle")

\* A node that blocking_pop gave to a user belongs to that user alone until
\* return_me: it is not given out again, and it is not in the queue.
ExclusiveUse ==
  \A n \in Nodes : held[n] <= 1 /\ (held[n] = 1 => n \notin Queued)

\* Unless both had their stores in a buffer when they looked, and when
\* return_me and release_node have both finished with a node, one of them
\* pushed it: no node is returned, outside the queue and nobody's to push.
NobodyForgets ==
  ~buffers => \A n \in ready : location[n] = "outside" =>
     \E t \in Threads : thr[t].node = n

\* A node that was returned goes back on the queue, while the queue is in use
\* and stores are not buffered.
ReturnedGoesBack == ~buffers => \A n \in Nodes : n \in ready ~> n \in Queued
=============================================================================
