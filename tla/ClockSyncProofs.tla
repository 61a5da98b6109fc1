-------------------------- MODULE ClockSyncProofs --------------------------
(***************************************************************************)
(* Proofs about ClockSync: types, and that until the handlers of two       *)
(* connections run at once a session's minimum never goes back and a       *)
(* client's is current, for any number of elements, sessions and           *)
(* connections.                                                            *)
(***************************************************************************)
EXTENDS ClockSync, TLAPS

\* Clocks on the way are in order, within a connection and between two.
ChannelsOrdered ==
    /\ \A c \in Conns : \A i \in 1 .. Len(chan[c]) : chan[c][i] <= stamp
    /\ \A c \in Conns : \A i, j \in 1 .. Len(chan[c]) : i <= j => chan[c][i] <= chan[c][j]
    /\ \A c, d \in Conns : c < d =>
         \A i \in 1 .. Len(chan[c]), j \in 1 .. Len(chan[d]) : chan[c][i] <= chan[d][j]
    /\ \A c \in Conns : c > conn => chan[c] = <<>>

\* One handler at a time, and what it writes is older than what is on the way.
HandlersOrdered ==
    /\ \A c \in Conns : handler[c].pc = "ended" => chan[c] = <<>> /\ ~ Up(c) /\ c <= conn
    /\ \A c \in Conns : handler[c].pc # "none" =>
         c <= conn /\ \A d \in Conns : d < c => handler[d].pc = "ended"
    /\ \A c \in Conns : handler[c].pc = "write" =>
         /\ handler[c].tmp <= stamp
         /\ \A d \in Conns : \A i \in 1 .. Len(chan[d]) : handler[c].tmp <= chan[d][i]

\* The clock is older than everything that is still to be written to it.
ClockIsOldest ==
    /\ stamp <= time
    /\ \A e \in Elements :
         /\ clock[e] <= stamp
         /\ \A c \in Conns : \A i \in 1 .. Len(chan[c]) : clock[e] <= chan[c][i]
         /\ \A c \in Conns : handler[c].pc = "write" => clock[e] <= handler[c].tmp

\* What a session has read so far lies between its minimum and the clock.
ReadersBetween ==
    \A s \in Sessions :
      /\ prec(global_min[s], clock)
      /\ reader[s].pc = "read" =>
           \A e \in Elements : e < reader[s].at =>
             global_min[s][e] <= reader[s].newc[e] /\ reader[s].newc[e] <= clock[e]

Serial == TypeOK /\ ChannelsOrdered /\ HandlersOrdered /\ ClockIsOldest /\ ReadersBetween

\* The inductive invariant: all of this until two handlers run at once.
IInv == TypeOK /\ (~ overlap => Serial)

\* Elements and connections are numbers.
LEMMA ElementsNat == Elements \subseteq Nat /\ Conns \subseteq Nat \ {0}
  BY ClockAssumption DEF Elements, Conns

\* Types hold in the first state.
LEMMA TypeInit == Init => TypeOK
<1> SUFFICES ASSUME Init PROVE TypeOK
  OBVIOUS
<1>1. Zero \in Clocks /\ 0 \in Elements /\ 0 \in 0 .. N /\ 0 \in 0 .. MaxConns
  BY ClockAssumption DEF Zero, Clocks, Elements
<1>2. chan \in [Conns -> Seq(Nat)] BY DEF Init
<1>3. handler \in [Conns -> [pc : {"none", "receive", "write", "ended"}, tmp : Nat, at : Elements]]
  BY <1>1 DEF Init
<1>4. reader \in [Sessions -> [pc : {"idle", "read"}, at : 0 .. N, newc : Clocks, began : Clocks]]
  BY <1>1 DEF Init
<1>5. global_min \in [Sessions -> Clocks] /\ clock \in Clocks /\ client_min \in Clocks
  BY <1>1 DEF Init
<1>6. valid \in BOOLEAN /\ (valid => conn # 0) BY DEF Init
<1> QED BY <1>1, <1>2, <1>3, <1>4, <1>5, <1>6 DEF Init, TypeOK

\* Every step keeps the types.
LEMMA TypeNext == TypeOK /\ [Next]_vars => TypeOK'
<1> SUFFICES ASSUME TypeOK, [Next]_vars PROVE TypeOK'
  OBVIOUS
<1> USE ClockAssumption DEF TypeOK, Conns
<1>1. CASE Tick BY <1>1 DEF Tick
<1>2. CASE SyncStep
  <2>1. CASE Select BY <2>1 DEF Select
  <2>2. CASE Connect BY <2>2 DEF Connect
  <2>3. CASE Send BY <2>3 DEF Send
  <2>4. CASE Skip BY <2>4 DEF Skip
  <2> QED BY <1>2, <2>1, <2>2, <2>3, <2>4 DEF SyncStep
<1>3. CASE Lose
  <2>1. PICK k \in 0 .. Len(chan[conn]) : chan' = [chan EXCEPT ![conn] = SubSeq(@, 1, k)]
    BY <1>3 DEF Lose
  <2>2. conn \in Conns /\ SubSeq(chan[conn], 1, k) \in Seq(Nat)
    BY <1>3 DEF Lose
  <2> QED BY <1>3, <2>1, <2>2 DEF Lose
<1>4. ASSUME NEW c \in Conns, HandlerStep(c) PROVE TypeOK'
  <2>1. CASE Accept(c) BY <2>1 DEF Accept
  <2>2. CASE Receive(c)
    <3>1. Head(chan[c]) \in Nat /\ Tail(chan[c]) \in Seq(Nat) BY <2>2 DEF Receive
    <3>2. 0 \in Elements BY DEF Elements
    <3> QED BY <2>2, <3>1, <3>2 DEF Receive
  <2>3. CASE WriteElement(c)
    <3> DEFINE h == handler[c]
    <3>0. h \in [pc : {"none", "receive", "write", "ended"}, tmp : Nat, at : Elements]
      OBVIOUS
    <3>a. (IF h.at = N - 1 THEN h.at ELSE h.at + 1) \in Elements BY <3>0 DEF Elements
    <3>1. handler' \in [Conns -> [pc : {"none", "receive", "write", "ended"}, tmp : Nat, at : Elements]]
      BY <2>3, <3>0, <3>a DEF WriteElement
    <3>2. clock' \in Clocks BY <2>3 DEF WriteElement, Clocks
    <3> QED BY <2>3, <3>1, <3>2 DEF WriteElement
  <2>4. CASE End(c) BY <2>4 DEF End
  <2> QED BY <1>4, <2>1, <2>2, <2>3, <2>4 DEF HandlerStep
<1>5. ASSUME NEW s \in Sessions, ReaderStep(s) PROVE TypeOK'
  <2>1. CASE BeginUpdate(s) BY <2>1 DEF BeginUpdate
  <2>2. CASE ReadElement(s)
    <3>1. reader[s].at \in Elements BY <2>2 DEF ReadElement, Elements
    <3>2. [reader[s].newc EXCEPT ![reader[s].at] = clock[reader[s].at]] \in Clocks BY <3>1 DEF Clocks
    <3>3. reader'[s].newc \in Clocks /\ reader'[s].at \in 0 .. N /\ reader'[s].pc = "read"
      BY <2>2, <3>2 DEF ReadElement
    <3> QED BY <2>2, <3>3 DEF ReadElement
  <2>3. CASE EndUpdate(s) BY <2>3 DEF EndUpdate
  <2>4. CASE update_clocks(s)
    <3>1. global_min[s] \in Clocks OBVIOUS
    <3>2. ends_max(global_min[s], client_min) \in Clocks BY <3>1 DEF ends_max, Clocks
    <3> QED BY <2>4, <3>2 DEF update_clocks
  <2> QED BY <1>5, <2>1, <2>2, <2>3, <2>4 DEF ReaderStep
<1>6. CASE UNCHANGED vars BY <1>6 DEF vars
<1> QED BY <1>1, <1>2, <1>3, <1>4, <1>5, <1>6 DEF Next

\* The sync process, the handlers and the sessions keep the types of
\* everything they share, whether or not handlers overlap.
THEOREM TypeCorrect == Spec => []TypeOK
<1>1. Init => TypeOK BY TypeInit
<1>2. TypeOK /\ [Next]_vars => TypeOK' BY TypeNext
<1> QED BY <1>1, <1>2, PTL DEF Spec

\* The strengthened invariant holds before the first connection of the clock server.
LEMMA InvInit == Init => Serial
<1> SUFFICES ASSUME Init PROVE Serial
  OBVIOUS
<1>1. TypeOK BY TypeInit
<1>2. \A c \in Conns : chan[c] = <<>> /\ Len(chan[c]) = 0 /\ handler[c].pc = "none" BY DEF Init
<1>3. ChannelsOrdered BY <1>2 DEF ChannelsOrdered
<1>4. HandlersOrdered BY <1>2 DEF HandlersOrdered
<1>5. ClockIsOldest BY <1>2 DEF Init, ClockIsOldest, Zero
<1>6. ReadersBetween BY DEF Init, ReadersBetween, Zero, prec
<1> QED BY <1>1, <1>3, <1>4, <1>5, <1>6 DEF Serial

\* Time, and the sync process: what it sends is the newest clock there is.
LEMMA SyncKeeps == ASSUME Serial, TypeOK', Tick \/ SyncStep PROVE Serial'
<1> USE ClockAssumption, ElementsNat DEF Serial
<1>1. CASE Tick
  BY <1>1 DEF Tick, ChannelsOrdered, HandlersOrdered, ClockIsOldest, ReadersBetween, TypeOK, Up
<1>2. CASE Select
  <2>1. \A c \in Conns : \A i \in 1 .. Len(chan[c]) : chan[c][i] \in Nat BY DEF TypeOK
  <2>2. stamp <= stamp' /\ stamp' = time /\ stamp' \in Nat BY <1>2 DEF Select, TypeOK, ClockIsOldest
  <2>3. ChannelsOrdered' BY <1>2, <2>1, <2>2 DEF Select, ChannelsOrdered, TypeOK
  <2>4. HandlersOrdered' BY <1>2, <2>1, <2>2 DEF Select, HandlersOrdered, TypeOK, Up
  <2>5. ClockIsOldest' BY <1>2, <2>1, <2>2 DEF Select, ClockIsOldest, TypeOK, Clocks
  <2> QED BY <1>2, <2>3, <2>4, <2>5 DEF Select, ReadersBetween
<1>3. CASE Connect
  <2>1. ChannelsOrdered' BY <1>3 DEF Connect, ChannelsOrdered, TypeOK
  <2>2. HandlersOrdered' BY <1>3 DEF Connect, HandlersOrdered, TypeOK, Up
  <2> QED BY <1>3, <2>1, <2>2 DEF Connect, ClockIsOldest, ReadersBetween
<1>4. CASE Send
  <2>1. conn \in Conns /\ Up(conn) BY <1>4 DEF Send, TypeOK, Conns, Up
  <2>2. handler[conn].pc # "ended" BY <2>1 DEF HandlersOrdered
  <2>3. /\ Len(chan'[conn]) = Len(chan[conn]) + 1
        /\ \A i \in 1 .. Len(chan[conn]) : chan'[conn][i] = chan[conn][i]
        /\ chan'[conn][Len(chan[conn]) + 1] = stamp
        /\ \A c \in Conns : c # conn => chan'[c] = chan[c]
    BY <1>4, <2>1 DEF Send, TypeOK
  <2>5. \A c \in Conns : Len(chan[c]) \in Nat /\ \A i \in 1 .. Len(chan[c]) : chan[c][i] \in Nat
    BY DEF TypeOK
  <2>4. ASSUME NEW c \in Conns, NEW i \in 1 .. Len(chan'[c])
        PROVE  \/ i \in 1 .. Len(chan[c]) /\ chan'[c][i] = chan[c][i]
               \/ c = conn /\ i = Len(chan[c]) + 1 /\ chan'[c][i] = stamp
    <3>1. CASE c # conn BY <3>1, <2>3
    <3>2. CASE c = conn
      <4>1. i \in 1 .. Len(chan[conn]) + 1 BY <3>2, <2>3
      <4> QED BY <3>2, <4>1, <2>1, <2>3, <2>5
    <3> QED BY <3>1, <3>2
  <2>a. stamp \in Nat /\ \A c \in Conns : \A i \in 1 .. Len(chan[c]) : chan[c][i] <= stamp
    BY DEF ChannelsOrdered, TypeOK
  <2>6. stamp' = stamp /\ conn' = conn /\ valid' = valid /\ handler' = handler /\ clock' = clock
        /\ time' = time /\ global_min' = global_min /\ reader' = reader
    BY <1>4 DEF Send
  <2>7. ChannelsOrdered'
    <3>1. ASSUME NEW c \in Conns, NEW i \in 1 .. Len(chan'[c]) PROVE chan'[c][i] <= stamp'
      <4>1. CASE i \in 1 .. Len(chan[c]) /\ chan'[c][i] = chan[c][i] BY <4>1, <2>6, <2>a
      <4>2. CASE chan'[c][i] = stamp BY <4>2, <2>6, <2>a
      <4> QED BY <4>1, <4>2, <2>4
    <3>2. ASSUME NEW c \in Conns, NEW i \in 1 .. Len(chan'[c]), NEW j \in 1 .. Len(chan'[c]), i <= j
          PROVE  chan'[c][i] <= chan'[c][j]
      <4>1. CASE j \in 1 .. Len(chan[c]) /\ chan'[c][j] = chan[c][j]
        <5>1. i \in 1 .. Len(chan[c]) BY <4>1, <3>2, <2>5
        <5>2. chan'[c][i] = chan[c][i] BY <5>1, <2>3
        <5> QED BY <4>1, <5>1, <5>2, <3>2 DEF ChannelsOrdered
      <4>2. CASE chan'[c][j] = stamp BY <4>2, <3>1, <2>6
      <4> QED BY <4>1, <4>2, <2>4
    <3>3. \A c, d \in Conns : c < d =>
            \A i \in 1 .. Len(chan'[c]), j \in 1 .. Len(chan'[d]) : chan'[c][i] <= chan'[d][j]
      <4> SUFFICES ASSUME NEW c \in Conns, NEW d \in Conns, c < d,
                          NEW i \in 1 .. Len(chan'[c]), NEW j \in 1 .. Len(chan'[d])
                   PROVE chan'[c][i] <= chan'[d][j]
        OBVIOUS
      <4>1. CASE c = conn
        <5>1. d > conn BY <4>1, <2>1
        <5>2. chan[d] = <<>> BY <5>1 DEF ChannelsOrdered
        <5>3. chan'[d] = <<>> BY <5>1, <5>2, <2>3, <2>1
        <5> QED BY <5>3
      <4>2. CASE c # conn
        <5>1. i \in 1 .. Len(chan[c]) /\ chan'[c][i] = chan[c][i] BY <4>2, <2>3
        <5>2. CASE j \in 1 .. Len(chan[d]) /\ chan'[d][j] = chan[d][j]
          BY <5>1, <5>2 DEF ChannelsOrdered
        <5>3. CASE chan'[d][j] = stamp BY <5>1, <5>3, <2>a
        <5> QED BY <5>2, <5>3, <2>4
      <4> QED BY <4>1, <4>2
    <3>4. \A c \in Conns : c > conn' => chan'[c] = <<>>
      BY <2>1, <2>3, <2>6 DEF ChannelsOrdered
    <3> QED BY <3>1, <3>2, <3>3, <3>4 DEF ChannelsOrdered
  <2>8. HandlersOrdered'
    <3>1. \A c \in Conns : handler'[c].pc = "ended" => chan'[c] = <<>> /\ ~ Up(c)' /\ c <= conn'
      BY <2>2, <2>3, <2>6 DEF HandlersOrdered, Up
    <3>2. ASSUME NEW c \in Conns, handler'[c].pc = "write", NEW d \in Conns, NEW i \in 1 .. Len(chan'[d])
          PROVE  handler'[c].tmp <= chan'[d][i]
      BY <2>4, <2>6, <3>2 DEF HandlersOrdered
    <3> QED BY <2>6, <3>1, <3>2 DEF HandlersOrdered
  <2>9. ClockIsOldest'
    <3>1. ASSUME NEW e \in Elements, NEW c \in Conns, NEW i \in 1 .. Len(chan'[c])
          PROVE  clock[e] <= chan'[c][i]
      BY <2>4, <3>1 DEF ClockIsOldest
    <3> QED BY <3>1, <2>6 DEF ClockIsOldest
  <2> QED BY <2>6, <2>7, <2>8, <2>9 DEF ReadersBetween
<1>5. CASE Skip
  BY <1>5 DEF Skip, ChannelsOrdered, HandlersOrdered, ClockIsOldest, ReadersBetween, Up
<1> QED BY <1>1, <1>2, <1>3, <1>4, <1>5 DEF SyncStep

\* A lost connection takes the newest clocks with it.
LEMMA LoseKeeps == ASSUME Serial, TypeOK', Lose PROVE Serial'
<1> USE ClockAssumption, ElementsNat DEF Serial
<1>1. PICK k \in 0 .. Len(chan[conn]) : chan' = [chan EXCEPT ![conn] = SubSeq(@, 1, k)]
  BY DEF Lose
<1>2. conn \in Conns BY DEF Lose, TypeOK, Conns
<1>3. \A c \in Conns : /\ Len(chan'[c]) \in Nat /\ Len(chan[c]) \in Nat /\ Len(chan'[c]) <= Len(chan[c])
                       /\ \A i \in 1 .. Len(chan'[c]) : chan'[c][i] = chan[c][i]
  BY <1>1, <1>2 DEF TypeOK
<1>4. \A c \in Conns : \A i \in 1 .. Len(chan'[c]) : i \in 1 .. Len(chan[c]) /\ chan'[c][i] = chan[c][i]
  BY <1>3
<1>5. \A c \in Conns : chan[c] = <<>> => chan'[c] = <<>>
  BY <1>1, <1>2 DEF TypeOK
<1>6. stamp' = stamp /\ conn' = conn /\ ~ valid' /\ handler' = handler /\ clock' = clock
      /\ time' = time /\ global_min' = global_min /\ reader' = reader
  BY DEF Lose
<1>7. ChannelsOrdered' BY <1>4, <1>5, <1>6 DEF ChannelsOrdered
<1>8. HandlersOrdered' BY <1>4, <1>5, <1>6 DEF HandlersOrdered, Up
<1>9. ClockIsOldest' BY <1>4, <1>6 DEF ClockIsOldest
<1> QED BY <1>6, <1>7, <1>8, <1>9 DEF ReadersBetween

\* The handlers, one after the other: each clock is newer than what it replaces.
LEMMA HandlerKeeps ==
    ASSUME ~ overlap', Serial, TypeOK', NEW c \in Conns, HandlerStep(c) PROVE Serial'
<1> USE ClockAssumption, ElementsNat DEF Serial
<1>0. \A d \in Conns : Len(chan[d]) \in Nat /\ \A i \in 1 .. Len(chan[d]) : chan[d][i] \in Nat
  <2>1. chan \in [Conns -> Seq(Nat)] BY DEF TypeOK
  <2> QED BY <2>1
<1>1. CASE Accept(c)
  <2>1. /\ handler'[c].pc = "receive"
        /\ \A d \in Conns : d # c => handler'[d] = handler[d]
    BY <1>1 DEF Accept, TypeOK
  <2>2. chan' = chan /\ stamp' = stamp /\ conn' = conn /\ valid' = valid /\ clock' = clock /\ time' = time
        /\ reader' = reader /\ global_min' = global_min
    BY <1>1 DEF Accept
  <2>3. c <= conn /\ \A d \in Conns : d < c => handler[d].pc = "ended"
    <3>1. \A d \in Conns : handler[d].pc \in {"none", "receive", "write", "ended"} BY DEF TypeOK
    <3>2. \A d \in Conns : d < c => handler[d].pc # "none" /\ ~ Running(d) BY <1>1 DEF Accept
    <3> QED BY <1>1, <3>1, <3>2 DEF Accept, Running
  <2>4. \A d \in Conns : d > c => handler[d].pc = "none"
    BY <1>1 DEF Accept, HandlersOrdered
  <2>5. HandlersOrdered' BY <2>1, <2>2, <2>3, <2>4 DEF HandlersOrdered, Up
  <2>6. ClockIsOldest' BY <2>1, <2>2 DEF ClockIsOldest
  <2> QED BY <2>2, <2>5, <2>6 DEF ChannelsOrdered, ReadersBetween
<1>2. CASE Receive(c)
  <2>1. /\ handler'[c].pc = "write" /\ handler'[c].tmp = chan[c][1]
        /\ \A d \in Conns : d # c => handler'[d] = handler[d] /\ chan'[d] = chan[d]
        /\ Len(chan[c]) >= 1 /\ Len(chan'[c]) = Len(chan[c]) - 1
        /\ \A i \in 1 .. Len(chan'[c]) : chan'[c][i] = chan[c][i + 1]
    BY <1>2 DEF Receive, TypeOK
  <2>2. stamp' = stamp /\ conn' = conn /\ valid' = valid /\ clock' = clock /\ time' = time
        /\ reader' = reader /\ global_min' = global_min
    BY <1>2 DEF Receive
  <2>3. ASSUME NEW d \in Conns, NEW i \in 1 .. Len(chan'[d])
        PROVE  \E j \in 1 .. Len(chan[d]) : chan'[d][i] = chan[d][j]
    <3>1. CASE d # c BY <3>1, <2>1
    <3>2. CASE d = c
      <4>1. i + 1 \in 1 .. Len(chan[c]) BY <3>2, <2>1, <1>0
      <4> QED BY <3>2, <4>1, <2>1
    <3> QED BY <3>1, <3>2
  <2>4. \A d \in Conns : /\ d < c => handler[d].pc = "ended" /\ chan[d] = <<>>
                         /\ d > c => handler[d].pc = "none"
    BY <1>2 DEF Receive, HandlersOrdered
  <2>5. ChannelsOrdered'
    <3>1. \A d \in Conns : \A i \in 1 .. Len(chan'[d]) : chan'[d][i] <= stamp'
      BY <2>2, <2>3 DEF ChannelsOrdered
    <3>2. ASSUME NEW d \in Conns, NEW i \in 1 .. Len(chan'[d]), NEW j \in 1 .. Len(chan'[d]), i <= j
          PROVE  chan'[d][i] <= chan'[d][j]
      <4>1. CASE d # c BY <4>1, <3>2, <2>1 DEF ChannelsOrdered
      <4>2. CASE d = c
        <5>1. i + 1 \in 1 .. Len(chan[c]) /\ j + 1 \in 1 .. Len(chan[c]) /\ i + 1 <= j + 1
          BY <4>2, <3>2, <2>1, <1>0
        <5>2. chan'[d][i] = chan[c][i + 1] /\ chan'[d][j] = chan[c][j + 1] BY <4>2, <2>1
        <5> QED BY <5>1, <5>2 DEF ChannelsOrdered
      <4> QED BY <4>1, <4>2
    <3>3. ASSUME NEW d \in Conns, NEW f \in Conns, d < f,
                 NEW i \in 1 .. Len(chan'[d]), NEW j \in 1 .. Len(chan'[f])
          PROVE  chan'[d][i] <= chan'[f][j]
      <4>1. PICK k \in 1 .. Len(chan[d]) : chan'[d][i] = chan[d][k] BY <2>3
      <4>2. PICK l \in 1 .. Len(chan[f]) : chan'[f][j] = chan[f][l] BY <2>3
      <4> QED BY <4>1, <4>2, <3>3 DEF ChannelsOrdered
    <3>4. \A d \in Conns : d > conn' => chan'[d] = <<>>
      <4>1. c <= conn BY <1>2 DEF Receive, HandlersOrdered
      <4> QED BY <4>1, <2>1, <2>2 DEF ChannelsOrdered, TypeOK
    <3> QED BY <3>1, <3>2, <3>3, <3>4 DEF ChannelsOrdered
  <2>6. ASSUME NEW d \in Conns, NEW i \in 1 .. Len(chan'[d]) PROVE chan[c][1] <= chan'[d][i]
    <3>1. PICK j \in 1 .. Len(chan[d]) : chan'[d][i] = chan[d][j] BY <2>3
    <3>2. d >= c
      <4>1. ~ (d < c) BY <2>4, <3>1
      <4> QED BY <4>1
    <3>3. 1 \in 1 .. Len(chan[c]) BY <2>1, <1>0
    <3>4. CASE d = c BY <3>1, <3>3, <3>4 DEF ChannelsOrdered
    <3>5. CASE d > c BY <3>1, <3>3, <3>5 DEF ChannelsOrdered
    <3>6. c \in Nat /\ d \in Nat BY DEF Conns
    <3> QED BY <3>2, <3>4, <3>5, <3>6
  <2>7. 1 \in 1 .. Len(chan[c]) BY <2>1, <1>0
  <2>8. HandlersOrdered'
    <3>1. \A d \in Conns : handler'[d].pc = "ended" => chan'[d] = <<>> /\ ~ Up(d)' /\ d <= conn'
      BY <2>1, <2>2 DEF HandlersOrdered, Up
    <3>2. \A d \in Conns : handler'[d].pc # "none" =>
             d <= conn' /\ \A f \in Conns : f < d => handler'[f].pc = "ended"
      BY <1>2, <2>1, <2>2, <2>4 DEF HandlersOrdered, Receive
    <3>3. ASSUME NEW d \in Conns, handler'[d].pc = "write"
          PROVE  /\ handler'[d].tmp <= stamp'
                 /\ \A f \in Conns : \A i \in 1 .. Len(chan'[f]) : handler'[d].tmp <= chan'[f][i]
      <4>1. d = c
        <5>1. d # c => handler[d].pc = "write" BY <3>3, <2>1
        <5>2. d # c => d < c \/ d > c OBVIOUS
        <5> QED BY <5>1, <5>2, <2>4
      <4>2. chan[c][1] <= stamp BY <2>7 DEF ChannelsOrdered
      <4> QED BY <4>1, <4>2, <2>1, <2>2, <2>6
    <3> QED BY <3>1, <3>2, <3>3 DEF HandlersOrdered
  <2>9. ClockIsOldest'
    <3>1. ASSUME NEW e \in Elements, NEW d \in Conns, NEW i \in 1 .. Len(chan'[d])
          PROVE  clock[e] <= chan'[d][i]
      <4>1. PICK j \in 1 .. Len(chan[d]) : chan'[d][i] = chan[d][j] BY <2>3
      <4> QED BY <4>1 DEF ClockIsOldest
    <3>2. ASSUME NEW e \in Elements, NEW d \in Conns, handler'[d].pc = "write"
          PROVE  clock[e] <= handler'[d].tmp
      <4>1. CASE d = c BY <4>1, <2>1, <2>7 DEF ClockIsOldest
      <4>2. CASE d # c BY <4>2, <3>2, <2>1 DEF ClockIsOldest
      <4> QED BY <4>1, <4>2
    <3> QED BY <2>2, <3>1, <3>2 DEF ClockIsOldest
  <2> QED BY <2>2, <2>5, <2>8, <2>9 DEF ReadersBetween
<1>3. CASE WriteElement(c)
  <2>1. /\ handler[c].pc = "write" /\ handler'[c].tmp = handler[c].tmp /\ handler'[c].pc \in {"receive", "write"}
        /\ \A d \in Conns : d # c => handler'[d] = handler[d]
    BY <1>3 DEF WriteElement, TypeOK
  <2>2. chan' = chan /\ stamp' = stamp /\ conn' = conn /\ valid' = valid /\ time' = time
        /\ reader' = reader /\ global_min' = global_min
    BY <1>3 DEF WriteElement
  <2>3. handler[c].tmp \in Nat /\ handler[c].at \in Elements /\ clock \in [Elements -> Nat] BY DEF TypeOK, Clocks
  <2>4. \A e \in Elements : clock'[e] = IF e = handler[c].at THEN handler[c].tmp ELSE clock[e]
    BY <1>3, <2>3 DEF WriteElement
  <2>5. \A e \in Elements : clock[e] <= handler[c].tmp /\ clock[e] \in Nat
    BY <2>1, <2>3 DEF ClockIsOldest
  <2>6. \A e \in Elements : clock[e] <= clock'[e] /\ clock'[e] \in Nat /\ clock'[e] <= handler[c].tmp
    <3> TAKE e \in Elements
    <3>1. CASE e = handler[c].at BY <3>1, <2>3, <2>4, <2>5
    <3>2. CASE e # handler[c].at BY <3>2, <2>4, <2>5
    <3> QED BY <3>1, <3>2
  <2>7. HandlersOrdered' BY <2>1, <2>2 DEF HandlersOrdered, Up
  <2>8. ClockIsOldest'
    <3>1. handler[c].tmp <= stamp /\ \A d \in Conns : \A i \in 1 .. Len(chan[d]) : handler[c].tmp <= chan[d][i]
      BY <2>1 DEF HandlersOrdered
    <3>2. stamp \in Nat BY DEF TypeOK
    <3>3. \A e \in Elements : clock'[e] <= stamp BY <3>1, <3>2, <2>3, <2>6
    <3>4. ASSUME NEW e \in Elements, NEW d \in Conns, NEW i \in 1 .. Len(chan[d]) PROVE clock'[e] <= chan[d][i]
      <4>1. chan[d][i] \in Nat /\ handler[c].tmp <= chan[d][i] BY <1>0, <3>1
      <4> QED BY <4>1, <2>3, <2>6
    <3>5. ASSUME NEW e \in Elements, NEW d \in Conns, handler'[d].pc = "write" PROVE clock'[e] <= handler'[d].tmp
      <4>1. d = c
        <5>1. handler[d].pc = "write" BY <3>5, <2>1
        <5>2. ~ (d < c) /\ ~ (c < d) BY <5>1, <2>1 DEF HandlersOrdered
        <5> QED BY <5>2
      <4> QED BY <4>1, <2>1, <2>6
    <3> QED BY <2>2, <3>3, <3>4, <3>5 DEF ClockIsOldest
  <2>9. ReadersBetween'
    <3> SUFFICES ASSUME NEW s \in Sessions PROVE
             /\ prec(global_min[s], clock')
             /\ reader[s].pc = "read" =>
                  \A e \in Elements : e < reader[s].at =>
                    global_min[s][e] <= reader[s].newc[e] /\ reader[s].newc[e] <= clock'[e]
      BY <2>2 DEF ReadersBetween, prec
    <3>1. global_min[s] \in [Elements -> Nat] /\ reader[s].newc \in [Elements -> Nat] BY DEF TypeOK, Clocks
    <3>2. ASSUME NEW e \in Elements PROVE global_min[s][e] <= clock'[e]
      <4>1. global_min[s][e] <= clock[e] BY DEF ReadersBetween, prec
      <4>2. global_min[s][e] \in Nat BY <3>1
      <4>3. clock[e] <= clock'[e] /\ clock[e] \in Nat /\ clock'[e] \in Nat BY <2>5, <2>6
      <4> QED BY <4>1, <4>2, <4>3
    <3>3. ASSUME reader[s].pc = "read", NEW e \in Elements, e < reader[s].at
          PROVE  global_min[s][e] <= reader[s].newc[e] /\ reader[s].newc[e] <= clock'[e]
      <4>1. global_min[s][e] <= reader[s].newc[e] /\ reader[s].newc[e] <= clock[e] BY <3>3 DEF ReadersBetween
      <4>2. reader[s].newc[e] \in Nat BY <3>1
      <4>3. clock[e] <= clock'[e] /\ clock[e] \in Nat /\ clock'[e] \in Nat BY <2>5, <2>6
      <4>4. reader[s].newc[e] <= clock'[e] BY <4>1, <4>2, <4>3
      <4> QED BY <4>1, <4>4
    <3> QED BY <3>2, <3>3 DEF prec
  <2> QED BY <2>2, <2>7, <2>8, <2>9 DEF ChannelsOrdered
<1>4. CASE End(c)
  <2>1. /\ handler[c].pc = "receive" /\ handler'[c].pc = "ended" /\ chan[c] = <<>> /\ ~ Up(c)
        /\ \A d \in Conns : d # c => handler'[d] = handler[d]
    BY <1>4 DEF End, TypeOK
  <2>2. chan' = chan /\ stamp' = stamp /\ conn' = conn /\ valid' = valid /\ clock' = clock /\ time' = time
        /\ reader' = reader /\ global_min' = global_min
    BY <1>4 DEF End
  <2>3. HandlersOrdered' BY <2>1, <2>2 DEF HandlersOrdered, Up
  <2>4. ClockIsOldest' BY <2>1, <2>2 DEF ClockIsOldest
  <2> QED BY <2>2, <2>3, <2>4 DEF ChannelsOrdered, ReadersBetween
<1> QED BY <1>1, <1>2, <1>3, <1>4 DEF HandlerStep

\* A session that reads while a handler writes stays between the two.
LEMMA ReaderKeeps == ASSUME Serial, TypeOK', NEW s \in Sessions, ReaderStep(s) PROVE Serial'
<1> USE ClockAssumption, ElementsNat DEF Serial
<1>0. \A r \in Sessions : /\ global_min[r] \in [Elements -> Nat] /\ reader[r].newc \in [Elements -> Nat]
                          /\ reader[r].at \in 0 .. N
  BY DEF TypeOK, Clocks
<1>a. clock \in [Elements -> Nat] BY DEF TypeOK, Clocks
<1>1. chan' = chan /\ stamp' = stamp /\ conn' = conn /\ valid' = valid /\ time' = time
      /\ handler' = handler /\ clock' = clock
  BY DEF ReaderStep, BeginUpdate, ReadElement, EndUpdate, update_clocks
<1>2. ChannelsOrdered' /\ HandlersOrdered' /\ ClockIsOldest'
  BY <1>1 DEF ChannelsOrdered, HandlersOrdered, ClockIsOldest, Up
<1>3. CASE BeginUpdate(s)
  <2>1. reader'[s].at = 0 /\ global_min' = global_min /\ \A r \in Sessions : r # s => reader'[r] = reader[r]
    BY <1>3 DEF BeginUpdate, TypeOK
  <2>2. \A e \in Elements : ~ (e < 0) BY DEF Elements
  <2>3. ReadersBetween' BY <1>1, <2>1, <2>2 DEF ReadersBetween, prec
  <2> QED BY <1>2, <2>3
<1>4. CASE ReadElement(s)
  <2>1. /\ reader[s].pc = "read" /\ reader'[s].at = reader[s].at + 1 /\ reader[s].at < N
        /\ reader'[s].newc = [reader[s].newc EXCEPT ![reader[s].at] = clock[reader[s].at]]
        /\ global_min' = global_min /\ \A r \in Sessions : r # s => reader'[r] = reader[r]
    BY <1>4 DEF ReadElement, TypeOK
  <2>2. ASSUME NEW e \in Elements, e < reader'[s].at
        PROVE  global_min[s][e] <= reader'[s].newc[e] /\ reader'[s].newc[e] <= clock[e]
    <3>1. CASE e = reader[s].at
      <4>1. reader'[s].newc[e] = clock[e] BY <2>1, <3>1, <1>0
      <4>2. global_min[s][e] <= clock[e] BY DEF ReadersBetween, prec
      <4> QED BY <4>1, <4>2, <1>a, <1>0
    <3>2. CASE e # reader[s].at
      <4>0. e \in Nat BY DEF Elements
      <4>1. e < reader[s].at BY <3>2, <2>1, <2>2, <1>0, <4>0
      <4>2. reader'[s].newc[e] = reader[s].newc[e] BY <2>1, <3>2, <1>0
      <4> QED BY <4>1, <4>2, <2>1 DEF ReadersBetween
    <3> QED BY <3>1, <3>2
  <2>3. ReadersBetween' BY <1>1, <2>1, <2>2 DEF ReadersBetween, prec
  <2> QED BY <1>2, <2>3
<1>5. CASE EndUpdate(s)
  <2>1. /\ reader[s].pc = "read" /\ reader[s].at = N /\ reader'[s].pc = "idle" /\ global_min'[s] = reader[s].newc
        /\ \A r \in Sessions : r # s => reader'[r] = reader[r] /\ global_min'[r] = global_min[r]
    BY <1>5 DEF EndUpdate, TypeOK
  <2>2. \A e \in Elements : e < N BY DEF Elements
  <2>3. prec(global_min'[s], clock) BY <2>1, <2>2 DEF ReadersBetween, prec
  <2>4. ReadersBetween' BY <1>1, <2>1, <2>3 DEF ReadersBetween, prec
  <2> QED BY <1>2, <2>4
<1>6. CASE update_clocks(s)
  BY <1>1, <1>2, <1>6 DEF update_clocks, ReadersBetween, prec
<1> QED BY <1>3, <1>4, <1>5, <1>6 DEF ReaderStep

\* No step clears the history, and every step of the sync process, a handler,
\* a session or a client keeps the order while handlers do not overlap.
LEMMA InvNext == ASSUME IInv, [Next]_vars PROVE IInv'
<1>1. TypeOK' BY TypeNext DEF IInv
<1>2. ~ overlap' => ~ overlap
  BY DEF IInv, TypeOK, Next, vars, Tick, SyncStep, Select, Connect, Send, Skip, Lose, HandlerStep, Accept, Receive,
         WriteElement, End, ReaderStep, BeginUpdate, ReadElement, EndUpdate, update_clocks
<1>3. ASSUME ~ overlap' PROVE Serial'
  <2>1. Serial BY <1>2, <1>3 DEF IInv
  <2>2. CASE UNCHANGED vars
    BY <2>1, <2>2 DEF vars, Serial, TypeOK, ChannelsOrdered, HandlersOrdered, ClockIsOldest, ReadersBetween, prec, Up
  <2>3. CASE Tick \/ SyncStep BY <1>1, <2>1, <2>3, SyncKeeps
  <2>4. CASE Lose BY <1>1, <2>1, <2>4, LoseKeeps
  <2>5. ASSUME NEW c \in Conns, HandlerStep(c) PROVE Serial' BY <1>1, <1>3, <2>1, <2>5, HandlerKeeps
  <2>6. ASSUME NEW s \in Sessions, ReaderStep(s) PROVE Serial' BY <1>1, <2>1, <2>6, ReaderKeeps
  <2> QED BY <2>2, <2>3, <2>4, <2>5, <2>6 DEF Next
<1> QED BY <1>1, <1>3 DEF IInv

\* Until two handlers run at once, updateClock's assertion holds: the minimum
\* of a session never goes back, torn reads and lost connections included.
THEOREM SessionMinGrows == Spec => GlobalMinGrows
<1>1. Init => IInv BY InvInit, TypeInit DEF IInv
<1>2. IInv /\ [Next]_vars => IInv' BY InvNext
<1>3. IInv /\ [Next]_vars => [~ overlap => \A s \in Sessions : prec(global_min[s], global_min'[s])]_vars
  <2> SUFFICES ASSUME Serial, Next, NEW s \in Sessions PROVE prec(global_min[s], global_min'[s])
    BY DEF IInv
  <2>0. global_min \in [Sessions -> [Elements -> Nat]] BY DEF Serial, TypeOK, Clocks
  <2>1. CASE global_min' = global_min BY <2>0, <2>1 DEF prec
  <2>2. CASE \E r \in Sessions : EndUpdate(r)
    <3>1. PICK r \in Sessions : EndUpdate(r) BY <2>2
    <3>2. CASE r = s
      <4>1. global_min'[s] = reader[s].newc /\ reader[s].pc = "read" /\ reader[s].at = N
        BY <2>0, <3>1, <3>2 DEF EndUpdate
      <4>2. \A e \in Elements : e < N BY ClockAssumption DEF Elements
      <4> QED BY <4>1, <4>2 DEF Serial, ReadersBetween, prec
    <3>3. CASE r # s
      <4>1. global_min'[s] = global_min[s] BY <2>0, <3>1, <3>3 DEF EndUpdate
      <4> QED BY <2>0, <4>1 DEF prec
    <3> QED BY <3>2, <3>3
  <2> QED BY <2>1, <2>2 DEF Next, Tick, SyncStep, Select, Connect, Send, Skip, Lose, HandlerStep, Accept, Receive,
                            WriteElement, End, ReaderStep, BeginUpdate, ReadElement, update_clocks
<1> QED BY <1>1, <1>2, <1>3, PTL DEF Spec, GlobalMinGrows

\* What a session reads is nowhere older than the clock it began with, and the
\* client is nowhere ahead of the clock.
ReadsCurrent ==
    /\ prec(client_min, clock)
    /\ \A s \in Sessions :
         /\ prec(reader[s].began, clock)
         /\ reader[s].pc = "idle" => prec(reader[s].began, global_min[s])
         /\ reader[s].pc = "read" =>
              \A e \in Elements : e < reader[s].at => reader[s].began[e] <= reader[s].newc[e]

CInv == IInv /\ (~ overlap => ReadsCurrent)

\* One handler after the other, the clock never goes back.
LEMMA ClockGrows == ASSUME Serial, Next PROVE clock' = clock \/ prec(clock, clock')
<1>1. CASE \E c \in Conns : WriteElement(c)
  <2>1. PICK c \in Conns : WriteElement(c) BY <1>1
  <2>2. handler[c].tmp \in Nat /\ handler[c].at \in Elements /\ clock \in [Elements -> Nat]
    BY DEF Serial, TypeOK, Clocks
  <2>3. \A e \in Elements : clock[e] <= handler[c].tmp BY <2>1 DEF WriteElement, Serial, ClockIsOldest
  <2>4. \A e \in Elements : clock'[e] = IF e = handler[c].at THEN handler[c].tmp ELSE clock[e]
    BY <2>1, <2>2 DEF WriteElement
  <2> QED BY <2>2, <2>3, <2>4 DEF prec
<1>2. CASE ~ \E c \in Conns : WriteElement(c)
  BY <1>2 DEF Next, Tick, SyncStep, Select, Connect, Send, Skip, Lose, HandlerStep, Accept, Receive, End,
              ReaderStep, BeginUpdate, ReadElement, EndUpdate, update_clocks
<1> QED BY <1>1, <1>2

\* The order of clocks is transitive.
LEMMA PrecTrans ==
    ASSUME NEW a \in Clocks, NEW b \in Clocks, NEW c \in Clocks, prec(a, b), prec(b, c) PROVE prec(a, c)
  BY DEF prec, Clocks

\* The client takes in what lies between the clock its session began with and
\* the clock as it is.
LEMMA AnswerIsCurrent ==
    ASSUME Serial, ReadsCurrent, NEW s \in Sessions, update_clocks(s)
    PROVE  prec(reader[s].began, client_min') /\ prec(client_min', clock)
<1>1. /\ clock \in [Elements -> Nat] /\ client_min \in [Elements -> Nat]
      /\ global_min[s] \in [Elements -> Nat] /\ reader[s].began \in [Elements -> Nat]
  BY DEF Serial, TypeOK, Clocks
<1>2. \A e \in Elements : client_min'[e] = IF global_min[s][e] > client_min[e] THEN global_min[s][e] ELSE client_min[e]
  BY DEF update_clocks, ends_max
<1>3. prec(reader[s].began, global_min[s]) /\ prec(global_min[s], clock) /\ prec(client_min, clock)
  BY DEF update_clocks, ReadsCurrent, Serial, ReadersBetween
<1> QED BY <1>1, <1>2, <1>3 DEF prec

\* Handlers move the clock forward only, and sessions and the client stay
\* between the clocks they have met.
LEMMA CurrentNext == ASSUME Serial, TypeOK', ReadsCurrent, Next PROVE ReadsCurrent'
<1>0. /\ clock \in Clocks /\ clock' \in Clocks /\ client_min \in Clocks
      /\ \A s \in Sessions : reader[s].began \in Clocks /\ global_min[s] \in Clocks
  BY DEF Serial, TypeOK
<1>1. CASE reader' = reader /\ global_min' = global_min /\ client_min' = client_min
  <2>1. prec(clock, clock') \/ clock' = clock BY ClockGrows
  <2>2. prec(client_min, clock') BY <1>0, <2>1, PrecTrans DEF ReadsCurrent
  <2>3. \A s \in Sessions : prec(reader[s].began, clock') BY <1>0, <2>1, PrecTrans DEF ReadsCurrent
  <2>4. \A s \in Sessions : reader'[s] = reader[s] /\ global_min'[s] = global_min[s] BY <1>1
  <2> QED BY <1>1, <2>2, <2>3, <2>4 DEF ReadsCurrent, prec
<1>2. ASSUME NEW s \in Sessions, BeginUpdate(s) PROVE ReadsCurrent'
  <2>1. /\ reader'[s].pc = "read" /\ reader'[s].at = 0 /\ reader'[s].began = clock
        /\ \A r \in Sessions : r # s => reader'[r] = reader[r]
        /\ clock' = clock /\ client_min' = client_min /\ global_min' = global_min
    BY <1>2 DEF BeginUpdate, Serial, TypeOK
  <2>2. \A e \in Elements : ~ (e < 0) /\ clock[e] <= clock[e] BY <1>0, ClockAssumption DEF Elements, Clocks
  <2> QED BY <2>1, <2>2 DEF ReadsCurrent, prec
<1>3. ASSUME NEW s \in Sessions, ReadElement(s) PROVE ReadsCurrent'
  <2>0. reader[s] \in [pc : {"idle", "read"}, at : 0 .. N, newc : [Elements -> Nat], began : [Elements -> Nat]]
    BY DEF Serial, TypeOK, Clocks
  <2>1. /\ reader[s].pc = "read" /\ reader'[s].pc = "read" /\ reader'[s].at = reader[s].at + 1
        /\ reader'[s].began = reader[s].began
        /\ reader'[s].newc = [reader[s].newc EXCEPT ![reader[s].at] = clock[reader[s].at]]
        /\ \A r \in Sessions : r # s => reader'[r] = reader[r]
        /\ clock' = clock /\ client_min' = client_min /\ global_min' = global_min
    BY <1>3, <2>0 DEF ReadElement, Serial, TypeOK
  <2>2. ASSUME NEW e \in Elements, e < reader'[s].at PROVE reader'[s].began[e] <= reader'[s].newc[e]
    <3>1. CASE e = reader[s].at BY <2>0, <2>1, <3>1 DEF ReadsCurrent, prec
    <3>2. CASE e # reader[s].at
      <4>1. e \in Nat /\ reader[s].at \in Nat BY <2>0, ElementsNat, ClockAssumption
      <4>2. e < reader[s].at BY <2>1, <2>2, <3>2, <4>1
      <4> QED BY <2>0, <2>1, <3>2, <4>2 DEF ReadsCurrent
    <3> QED BY <3>1, <3>2
  <2> QED BY <2>1, <2>2 DEF ReadsCurrent, prec
<1>4. ASSUME NEW s \in Sessions, EndUpdate(s) PROVE ReadsCurrent'
  <2>1. /\ reader[s].pc = "read" /\ reader[s].at = N /\ reader'[s].pc = "idle"
        /\ reader'[s].began = reader[s].began /\ global_min'[s] = reader[s].newc
        /\ \A r \in Sessions : r # s => reader'[r] = reader[r] /\ global_min'[r] = global_min[r]
        /\ clock' = clock /\ client_min' = client_min
    BY <1>4 DEF EndUpdate, Serial, TypeOK
  <2>2. \A e \in Elements : e < N BY ClockAssumption DEF Elements
  <2>3. prec(reader[s].began, global_min'[s]) BY <2>1, <2>2 DEF ReadsCurrent, prec
  <2> QED BY <2>1, <2>3 DEF ReadsCurrent, prec
<1>5. ASSUME NEW s \in Sessions, update_clocks(s) PROVE ReadsCurrent'
  <2>1. prec(client_min', clock) BY <1>5, AnswerIsCurrent
  <2> QED BY <1>5, <2>1 DEF update_clocks, ReadsCurrent, prec
<1> QED BY <1>1, <1>2, <1>3, <1>4, <1>5
        DEF Next, Tick, SyncStep, Select, Connect, Send, Skip, Lose, HandlerStep, Accept, Receive, WriteElement, End,
            ReaderStep

\* Until two handlers run at once, what a client takes as its minimum is nowhere
\* behind the clock that its session began to read and nowhere ahead of the
\* clock, torn reads of updateClock and lost connections included.
THEOREM ClientsAreCurrent == Spec => ClientMinIsCurrent
<1>1. Init => CInv
  <2>1. Init => IInv BY InvInit, TypeInit DEF IInv
  <2>2. Init => ReadsCurrent BY ClockAssumption DEF Init, ReadsCurrent, Zero, prec
  <2> QED BY <2>1, <2>2 DEF CInv
<1>2. CInv /\ [Next]_vars => CInv'
  <2> SUFFICES ASSUME CInv, [Next]_vars PROVE CInv'
    OBVIOUS
  <2>1. IInv' BY InvNext DEF CInv
  <2>2. ~ overlap' => ~ overlap
    BY DEF CInv, IInv, TypeOK, Next, vars, Tick, SyncStep, Select, Connect, Send, Skip, Lose, HandlerStep, Accept,
           Receive, WriteElement, End, ReaderStep, BeginUpdate, ReadElement, EndUpdate, update_clocks
  <2>3. ASSUME ~ overlap' PROVE ReadsCurrent'
    <3>1. Serial /\ ReadsCurrent BY <2>2, <2>3 DEF CInv, IInv
    <3>2. CASE UNCHANGED vars BY <3>1, <3>2 DEF vars, ReadsCurrent, prec
    <3>3. CASE Next BY <2>1, <3>1, <3>3, CurrentNext DEF IInv
    <3> QED BY <3>2, <3>3
  <2> QED BY <2>1, <2>3 DEF CInv
<1>3. CInv /\ [Next]_vars =>
        [~ overlap => \A s \in Sessions :
           update_clocks(s) => prec(reader[s].began, client_min') /\ prec(client_min', clock)]_vars
  BY AnswerIsCurrent DEF CInv, IInv
<1> QED BY <1>1, <1>2, <1>3, PTL DEF Spec, ClientMinIsCurrent
=============================================================================
