----------------------------- MODULE ClientPool -----------------------------
(***************************************************************************)
(* The load generator of threaded_trial.hpp.  Launcher threads take clients *)
(* from a blocking queue and submit each to a thread pool; a client that    *)
(* ends its action goes back to the queue, one that fails is destroyed.     *)
(* number_enqueued_clients, an atomic size_t, is what launchers and the     *)
(* main thread compare with the intended number before they make more.      *)
(*                                                                          *)
(* Clients differ in nothing that matters here and are counted.  Time is    *)
(* two events: the intended number grows, and stop_time passes.             *)
(***************************************************************************)
EXTENDS Naturals, FiniteSets

CONSTANTS ParallelFactor,   \* params.parallel_factor: the number of launchers
          Starting,         \* params.starting_num_clients
          MaxClients,       \* params.max_clients(): where the intended number ends
          LogEvery,         \* params.log_every_n
          SizeT,            \* 2^w for the w-bit size_t of the counter
          FatalErrors,      \* how many client_actions fail otherwise than by a
                            \* ProtocolException
          SpawnErrors       \* how often push_client fails to make a client

Main == 0
Launchers == 1..ParallelFactor      \* the main thread joins them in this order

ASSUME PoolAssumption ==
  /\ {ParallelFactor, Starting, MaxClients, LogEvery, SizeT} \subseteq Nat \ {0}
  /\ Starting <= MaxClients /\ MaxClients + ParallelFactor < SizeT
  /\ FatalErrors \in Nat /\ SpawnErrors \in Nat

VARIABLES number,           \* number_enqueued_clients
          queue,            \* how many clients client_queue holds
          running,          \* how many clients act, by whether the run is logged
          failures,         \* logged futures that hold an exception
          intended,         \* params.total_clients_at(now)
          stopped,          \* now() >= stop_time
          pc,
          choose_logging,
          joining,          \* the launcher that run_test waits for
          fatals, spawns,   \* errors still to happen
          processed         \* history: failures that process_results has taken from number

vars == <<number, queue, running, failures, intended, stopped, pc, choose_logging,
          joining, fatals, spawns, processed>>
clock == <<intended, stopped>>
errors == <<fatals, spawns>>

Init == /\ number = Starting
        /\ queue = Starting
        /\ running = [log_this \in BOOLEAN |-> 0]
        /\ failures = 0
        /\ intended = Starting
        /\ stopped = FALSE
        /\ pc = [t \in {Main} \cup Launchers |-> "loop"]
        /\ choose_logging = [l \in Launchers |-> 0]
        /\ joining = 1
        /\ fatals = FatalErrors /\ spawns = SpawnErrors
        /\ processed = 0

Decrement == number' = (number + SizeT - 1) % SizeT
Increment == number' = (number + 1) % SizeT
Goto(t, p) == pc' = [pc EXCEPT ![t] = p]

\* Whether another client is wanted.
OneMore == number <= intended
TooFew == number < intended

-----------------------------------------------------------------------------
(* Time *)

Grow == /\ intended < MaxClients
        /\ intended' = intended + 1
        /\ UNCHANGED <<number, queue, running, failures, stopped, pc, choose_logging,
                       joining, errors, processed>>

StopTime == /\ ~stopped
            /\ stopped' = TRUE
            /\ UNCHANGED <<number, queue, running, failures, intended, pc, choose_logging,
                           joining, errors, processed>>

-----------------------------------------------------------------------------
(* push_client: the queue first, the counter after it *)

Enqueue(t) ==
  /\ pc[t] = "push"
  /\ queue' = queue + 1
  /\ Goto(t, "count")
  /\ UNCHANGED <<number, running, failures, clock, choose_logging, joining, errors, processed>>

Count(t) ==
  /\ pc[t] = "count"
  /\ Increment
  /\ Goto(t, IF t = Main THEN "loop" ELSE "wait")
  /\ UNCHANGED <<queue, running, failures, clock, choose_logging, joining, errors, processed>>

\* The exception ends the launcher, or run_test's loop.
SpawnFails(t) ==
  /\ pc[t] = "push" /\ spawns > 0
  /\ spawns' = spawns - 1
  /\ Goto(t, IF t = Main THEN "aborted" ELSE "failed")
  /\ UNCHANGED <<number, queue, running, failures, clock, choose_logging, joining, fatals, processed>>

-----------------------------------------------------------------------------
(* launcher_loop *)

Launch(l) ==
  /\ pc[l] = "loop"
  /\ IF stopped
     THEN Goto(l, "done") /\ UNCHANGED choose_logging
     ELSE /\ choose_logging' = [choose_logging EXCEPT ![l] = (@ + 1) % LogEvery]
          /\ Goto(l, IF TooFew THEN "push" ELSE "wait")
  /\ UNCHANGED <<number, queue, running, failures, clock, joining, errors, processed>>

\* wait_dequeue blocks without regard to stop_time.
Dequeue(l) ==
  /\ pc[l] = "wait" /\ queue > 0
  /\ queue' = queue - 1
  /\ running' = [running EXCEPT ![choose_logging[l] = 0] = @ + 1]
  /\ Goto(l, "loop")
  /\ UNCHANGED <<number, failures, clock, choose_logging, joining, errors, processed>>

-----------------------------------------------------------------------------
(* The task that runs a client: how client_action may end *)

Acts(log_this) ==
  /\ running[log_this] > 0
  /\ running' = [running EXCEPT ![log_this] = @ - 1]
  /\ queue' = queue + 1
  /\ UNCHANGED <<number, failures, clock, pc, choose_logging, joining, errors, processed>>

\* Caught in the task: Cleanup takes the client from the count.
ProtocolError(log_this) ==
  /\ running[log_this] > 0
  /\ running' = [running EXCEPT ![log_this] = @ - 1]
  /\ Decrement
  /\ UNCHANGED <<queue, failures, clock, pc, choose_logging, joining, errors, processed>>

Uncounted(log_this) ==
  /\ running[log_this] > 0 /\ fatals > 0
  /\ fatals' = fatals - 1
  /\ running' = [running EXCEPT ![log_this] = @ - 1]
  /\ failures' = IF log_this THEN failures + 1 ELSE failures
  /\ UNCHANGED <<number, queue, clock, pc, choose_logging, joining, spawns, processed>>

\* Not caught: Cleanup does the same, and the future of a logged run keeps the
\* exception.
FatalError(log_this) ==
  /\ running[log_this] > 0 /\ fatals > 0
  /\ fatals' = fatals - 1
  /\ running' = [running EXCEPT ![log_this] = @ - 1]
  /\ Decrement
  /\ failures' = IF log_this THEN failures + 1 ELSE failures
  /\ UNCHANGED <<queue, clock, pc, choose_logging, joining, spawns, processed>>

-----------------------------------------------------------------------------
(* run_test, on the main thread *)

NoRefill ==
  /\ pc[Main] = "loop" /\ joining \in Launchers
  /\ pc[joining] \notin {"done", "failed"}
  /\ Goto(Main, "log")
  /\ UNCHANGED <<number, queue, running, failures, clock, choose_logging, joining, errors, processed>>

\* The launcher is not done: make the clients that are missing, then the log.
AwaitLauncher ==
  /\ pc[Main] = "loop" /\ joining \in Launchers
  /\ pc[joining] \notin {"done", "failed"}
  /\ Goto(Main, IF TooFew THEN "push" ELSE "log")
  /\ UNCHANGED <<number, queue, running, failures, clock, choose_logging, joining, errors, processed>>

Join ==
  /\ pc[Main] = "loop" /\ joining \in Launchers
  /\ pc[joining] \in {"done", "failed"}
  /\ IF pc[joining] = "failed"
     THEN Goto(Main, "aborted") /\ UNCHANGED joining
     ELSE joining' = joining + 1 /\ UNCHANGED pc
  /\ UNCHANGED <<number, queue, running, failures, clock, choose_logging, errors, processed>>

\* Unwinding destroys the futures of all launchers, and each waits for its own.
Unwind ==
  /\ pc[Main] = "aborted"
  /\ \A l \in Launchers : pc[l] \in {"done", "failed"}
  /\ Goto(Main, "final")
  /\ UNCHANGED <<number, queue, running, failures, clock, choose_logging, joining, errors, processed>>

AllJoined ==
  /\ pc[Main] = "loop" /\ joining \notin Launchers
  /\ Goto(Main, "final")
  /\ UNCHANGED <<number, queue, running, failures, clock, choose_logging, joining, errors, processed>>

\* process_results finds an exception: it writes it to the log and takes the
\* client from the count.
ProcessFailure ==
  /\ pc[Main] \in {"log", "final"} /\ failures > 0
  /\ failures' = failures - 1
  /\ processed' = processed + 1
  /\ Decrement
  /\ UNCHANGED <<queue, running, clock, pc, choose_logging, joining, errors>>

LogWritten ==
  /\ pc[Main] \in {"log", "final"}
  /\ Goto(Main, IF pc[Main] = "log" THEN "loop" ELSE "end")
  /\ UNCHANGED <<number, queue, running, failures, clock, choose_logging, joining, errors, processed>>

-----------------------------------------------------------------------------
Client == \E log_this \in BOOLEAN :
            Acts(log_this) \/ ProtocolError(log_this) \/ FatalError(log_this)
PushClient(t) == Enqueue(t) \/ Count(t)
RunTest == AwaitLauncher \/ Join \/ Unwind \/ AllJoined \/ LogWritten

Next == \/ Grow \/ StopTime \/ Client \/ RunTest \/ ProcessFailure
        \/ \E l \in Launchers : Launch(l) \/ Dequeue(l)
        \/ \E t \in {Main} \cup Launchers : PushClient(t) \/ SpawnFails(t)

\* Every thread runs, client_action ends, stop_time comes.
Spec == /\ Init /\ [][Next]_vars
        /\ WF_vars(StopTime) /\ WF_vars(Client)
        /\ WF_vars(RunTest \/ PushClient(Main))
        /\ \A l \in Launchers : WF_vars(Launch(l) \/ Dequeue(l) \/ PushClient(l))

-----------------------------------------------------------------------------
(* Properties *)

Clients == queue + running[TRUE] + running[FALSE]
Counting == {t \in {Main} \cup Launchers : pc[t] = "count"}

\* The counter is the number of clients that exist, whoever is inside
\* push_client and however a client failed, but for one thing: a failure that
\* reaches the log was taken from it by Cleanup and is taken again.
DriftIsFailures ==
  Clients % SizeT = (number + Cardinality(Counting) + processed) % SizeT

\* The check and the push are two steps for every thread, so that more clients
\* than intended can be made; but never more than one for each other thread and
\* one for each failure that was taken from the counter twice.
FewTooMany ==
  Clients <= intended + Cardinality(Launchers) + processed

\* run_test comes to its end: no launcher waits for ever for a client, unless
\* the log has taken a failed client from the counter a second time or a
\* client could not be made.
TestEnds == <>(pc[Main] = "end" \/ processed > 0 \/ spawns < SpawnErrors)
=============================================================================
