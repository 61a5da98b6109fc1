----------------------------- MODULE ClockSync -----------------------------
(***************************************************************************)
(* The clock of the causal store on its way to a client.  The sync process *)
(* asks the store for its time and sends it to a relay, connecting again   *)
(* when the connection was lost.  In the relay every connection has a      *)
(* handler that writes the one clock of the process element by element;    *)
(* sessions read it element by element, in Tracker::updateClock, without a *)
(* lock, and send the result to the client, which keeps the largest.       *)
(***************************************************************************)
EXTENDS Integers, Sequences

CONSTANTS N,           \* elements of a clock
          Sessions,    \* sessions of the relay, each with its Tracker
          MaxConns,    \* bound: connections ever made
          MaxBuffer,   \* bound: clocks on the way in one connection
          MaxTime      \* bound: time of the store
ASSUME ClockAssumption ==
    /\ N \in Nat \ {0} /\ MaxConns \in Nat \ {0} /\ MaxBuffer \in Nat \ {0} /\ MaxTime \in Nat

Elements == 0 .. N - 1
Conns == 1 .. MaxConns
Clocks == [Elements -> Nat]
Zero == [e \in Elements |-> 0]
prec(a, b) == \A e \in Elements : a[e] <= b[e]

\* The elementwise maximum.
ends_max(a, b) == [e \in Elements |-> IF a[e] > b[e] THEN a[e] ELSE b[e]]

VARIABLES time,        \* current_timestamp of the causal store
          sync,        \* "select" or "send"
          stamp,       \* tmp of the sync process: all elements have one value
          conn, valid, \* the connection made last, and whether it is up
          chan,        \* per connection: clocks on the way
          handler,     \* per connection: [pc, tmp, at]
          clock,       \* ClockManager::clock
          reader,      \* per session: [pc, at, newc], updateClock in progress; history:
                       \* began, the clock when it began
          global_min,  \* per session: Tracker::Internals::global_min
          client_min,  \* TombHolder::global_min_clock of a client
          overlap      \* history: a handler was started while an earlier one ran
vars == <<time, sync, stamp, conn, valid, chan, handler, clock, reader, global_min, client_min, overlap>>

Init ==
    /\ time = 0 /\ sync = "select" /\ stamp = 0
    /\ conn = 0 /\ valid = FALSE
    /\ chan = [c \in Conns |-> <<>>]
    /\ handler = [c \in Conns |-> [pc |-> "none", tmp |-> 0, at |-> 0]]
    /\ clock = Zero
    /\ reader = [s \in Sessions |-> [pc |-> "idle", at |-> 0, newc |-> Zero, began |-> Zero]]
    /\ global_min = [s \in Sessions |-> Zero]
    /\ client_min = Zero
    /\ overlap = FALSE

Tick == /\ time < MaxTime
        /\ time' = time + 1
        /\ UNCHANGED <<sync, stamp, conn, valid, chan, handler, clock, reader, global_min, client_min, overlap>>
---------------------------------------------------------------------------
(* The sync process. *)
Select == /\ sync = "select"
          /\ sync' = "send" /\ stamp' = time
          /\ UNCHANGED <<time, conn, valid, chan, handler, clock, reader, global_min, client_min, overlap>>

Connect == /\ sync = "send" /\ ~ valid /\ conn < MaxConns
           /\ conn' = conn + 1 /\ valid' = TRUE
           /\ UNCHANGED <<time, sync, stamp, chan, handler, clock, reader, global_min, client_min, overlap>>

Send == /\ sync = "send" /\ valid /\ Len(chan[conn]) < MaxBuffer
        /\ chan' = [chan EXCEPT ![conn] = Append(@, stamp)]
        /\ sync' = "select"
        /\ UNCHANGED <<time, stamp, conn, valid, handler, clock, reader, global_min, client_min, overlap>>

\* A SocketException: connecting failed.
Skip == /\ sync = "send" /\ ~ valid
        /\ sync' = "select"
        /\ UNCHANGED <<time, stamp, conn, valid, chan, handler, clock, reader, global_min, client_min, overlap>>

\* The connection goes down; what has arrived in the relay's buffer stays.
\* The last connection of an instance does not.
Lose == /\ valid /\ conn < MaxConns
        /\ valid' = FALSE
        /\ \E k \in 0 .. Len(chan[conn]) : chan' = [chan EXCEPT ![conn] = SubSeq(@, 1, k)]
        /\ UNCHANGED <<time, sync, stamp, conn, handler, clock, reader, global_min, client_min, overlap>>
---------------------------------------------------------------------------
(* The handlers of the relay. *)
Up(c) == c = conn /\ valid

Running(c) == handler[c].pc \in {"receive", "write"}

\* Connections are taken from the backlog in any order.
AcceptAnyOrder(c) ==
    /\ handler[c].pc = "none" /\ c <= conn
    /\ handler' = [handler EXCEPT ![c].pc = "receive"]
    /\ overlap' = (overlap \/ \E d \in Conns : d < c /\ Running(d))
    /\ UNCHANGED <<time, sync, stamp, conn, valid, chan, clock, reader, global_min, client_min>>

\* Connections are accepted in order; whether the loop waits for a handler to
\* end before it accepts again is its own affair.
Accept(c) ==
    /\ handler[c].pc = "none" /\ c <= conn
    /\ \A d \in Conns : d < c => handler[d].pc # "none"
    /\ handler' = [handler EXCEPT ![c].pc = "receive"]
    /\ overlap' = (overlap \/ \E d \in Conns : d < c /\ Running(d))
    /\ UNCHANGED <<time, sync, stamp, conn, valid, chan, clock, reader, global_min, client_min>>

Receive(c) == /\ handler[c].pc = "receive" /\ chan[c] # <<>>
              /\ handler' = [handler EXCEPT ![c] = [pc |-> "write", tmp |-> Head(chan[c]), at |-> 0]]
              /\ chan' = [chan EXCEPT ![c] = Tail(@)]
              /\ UNCHANGED <<time, sync, stamp, conn, valid, clock, reader, global_min, client_min, overlap>>

\* i <= size() for i < size().
WriteElementBeyond(c) ==
    /\ handler[c].pc = "write"
    /\ clock' = [clock EXCEPT ![handler[c].at] = handler[c].tmp]
    /\ LET h == handler[c] IN
       handler' = [handler EXCEPT ![c] = [pc |-> IF h.at = N THEN "receive" ELSE "write", tmp |-> h.tmp,
                                          at |-> IF h.at = N THEN h.at ELSE h.at + 1]]
    /\ UNCHANGED <<time, sync, stamp, conn, valid, chan, reader, global_min, client_min, overlap>>

\* i < size() - 1 for i < size().
WriteElementShort(c) ==
    /\ handler[c].pc = "write"
    /\ clock' = IF handler[c].at = N - 1 THEN clock ELSE [clock EXCEPT ![handler[c].at] = handler[c].tmp]
    /\ LET h == handler[c] IN
       handler' = [handler EXCEPT ![c] = [pc |-> IF h.at = N - 1 THEN "receive" ELSE "write", tmp |-> h.tmp,
                                          at |-> IF h.at = N - 1 THEN h.at ELSE h.at + 1]]
    /\ UNCHANGED <<time, sync, stamp, conn, valid, chan, reader, global_min, client_min, overlap>>

WriteElement(c) ==
    /\ handler[c].pc = "write"
    /\ clock' = [clock EXCEPT ![handler[c].at] = handler[c].tmp]
    /\ LET h == handler[c] IN
       handler' = [handler EXCEPT ![c] = [pc |-> IF h.at = N - 1 THEN "receive" ELSE "write", tmp |-> h.tmp,
                                          at |-> IF h.at = N - 1 THEN h.at ELSE h.at + 1]]
    /\ UNCHANGED <<time, sync, stamp, conn, valid, chan, reader, global_min, client_min, overlap>>

\* The socket is invalid, or receive throws a ProtocolException.
End(c) == /\ handler[c].pc = "receive" /\ chan[c] = <<>> /\ ~ Up(c)
          /\ handler' = [handler EXCEPT ![c].pc = "ended"]
          /\ UNCHANGED <<time, sync, stamp, conn, valid, chan, clock, reader, global_min, client_min, overlap>>
---------------------------------------------------------------------------
(* Tracker::updateClock of a session, and the answer to the client. *)
BeginUpdateLate(s) ==
    /\ reader[s].pc = "idle"
    /\ reader' = [reader EXCEPT ![s] = [pc |-> "read", at |-> 1, newc |-> reader[s].newc, began |-> clock]]
    /\ UNCHANGED <<time, sync, stamp, conn, valid, chan, handler, clock, global_min, client_min, overlap>>

BeginUpdate(s) ==
    /\ reader[s].pc = "idle"
    /\ reader' = [reader EXCEPT ![s] = [pc |-> "read", at |-> 0, newc |-> reader[s].newc, began |-> clock]]
    /\ UNCHANGED <<time, sync, stamp, conn, valid, chan, handler, clock, global_min, client_min, overlap>>

ReadElement(s) ==
    /\ reader[s].pc = "read" /\ reader[s].at < N
    /\ LET r == reader[s] IN
       reader' = [reader EXCEPT ![s] = [pc |-> "read", at |-> r.at + 1, began |-> r.began,
                                        newc |-> [r.newc EXCEPT ![r.at] = clock[r.at]]]]
    /\ UNCHANGED <<time, sync, stamp, conn, valid, chan, handler, clock, global_min, client_min, overlap>>

EndUpdate(s) ==
    /\ reader[s].pc = "read" /\ reader[s].at = N
    /\ global_min' = [global_min EXCEPT ![s] = reader[s].newc]
    /\ reader' = [reader EXCEPT ![s].pc = "idle"]
    /\ UNCHANGED <<time, sync, stamp, conn, valid, chan, handler, clock, client_min, overlap>>

update_clocks(s) ==
    /\ reader[s].pc = "idle"
    /\ client_min' = ends_max(global_min[s], client_min)
    /\ UNCHANGED <<time, sync, stamp, conn, valid, chan, handler, clock, reader, global_min, overlap>>
---------------------------------------------------------------------------
SyncStep == Select \/ Connect \/ Send \/ Skip
HandlerStep(c) == Accept(c) \/ Receive(c) \/ WriteElement(c) \/ End(c)
ReaderStep(s) == BeginUpdate(s) \/ ReadElement(s) \/ EndUpdate(s) \/ update_clocks(s)
Next == \/ Tick \/ SyncStep \/ Lose
        \/ \E c \in Conns : HandlerStep(c)
        \/ \E s \in Sessions : ReaderStep(s)

\* The processes run on, a connection that can be made is made sooner or
\* later, and a session goes on with the clock it is reading.  The store's
\* time passes.
Fairness == /\ WF_vars(Tick) /\ WF_vars(SyncStep) /\ SF_vars(Connect)
            /\ \A c \in Conns : WF_vars(HandlerStep(c))
            /\ \A s \in Sessions : WF_vars(ReadElement(s) \/ EndUpdate(s))
Spec == Init /\ [][Next]_vars /\ Fairness
---------------------------------------------------------------------------
\* Types of the variables.
TypeOK ==
    /\ time \in Nat /\ stamp \in Nat /\ sync \in {"select", "send"}
    /\ conn \in 0 .. MaxConns /\ valid \in BOOLEAN /\ (valid => conn # 0)
    /\ chan \in [Conns -> Seq(Nat)]
    /\ handler \in [Conns -> [pc : {"none", "receive", "write", "ended"}, tmp : Nat, at : Elements]]
    /\ clock \in Clocks
    /\ reader \in [Sessions -> [pc : {"idle", "read"}, at : 0 .. N, newc : Clocks, began : Clocks]]
    /\ global_min \in [Sessions -> Clocks]
    /\ client_min \in Clocks /\ overlap \in BOOLEAN

\* Unless the handlers of two connections ever ran at once, the minimum that a
\* session hands out never goes back: what updateClock asserts of the clock it
\* has read while a handler was writing it, across lost connections.
GlobalMinGrows == [][~ overlap => \A s \in Sessions : prec(global_min[s], global_min'[s])]_vars

\* However an answer's clock was torn between several clocks of the store, the
\* client that takes it in has a minimum that is nowhere behind the clock as it
\* was when the session began to read, and nowhere ahead of the clock as it is;
\* again unless two handlers ran at once.
ClientMinIsCurrent ==
    [][~ overlap => \A s \in Sessions :
         update_clocks(s) => prec(reader[s].began, client_min') /\ prec(client_min', clock)]_vars

\* Even handlers that overwrite newer clocks with older ones for a while leave
\* the relay with the time at which the store stands still.
ClockCatchesUp == <>[](\A e \in Elements : clock[e] = MaxTime)
=============================================================================
