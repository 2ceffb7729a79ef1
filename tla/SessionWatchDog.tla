-------------------------- MODULE SessionWatchDog --------------------------
(***************************************************************************)
(* The watch dog thread of the server process (session_watch_dog.cc).  It  *)
(* sleeps, samples the CPU load, and sends the server itself a CLEANUP     *)
(* command through a client of its own; if that fails and the server does  *)
(* not answer pings either, it kills the process.  The handler's side of   *)
(* CLEANUP is in SessionHandler.tla, the client's calls are those of       *)
(* Client.tla, reduced to what the thread uses: Cleanup is one Call,       *)
(* PingServer ignores the status, Reset clears it.  CPU loads are          *)
(* percentages.                                                            *)
(***************************************************************************)
EXTENDS Integers, Sequences, Sums

CONSTANTS
  interval,        \* interval_, seconds
  Loads,           \* CPU loads GetSystemCPULoad may report, the own part off
  Gaps             \* wall clock time between two decisions, seconds

ASSUME IntervalAssumption == interval \in 1 .. 600

ASSUME LoadAssumption == Loads \subseteq 0 .. 100 /\ Gaps \subseteq Int

VARIABLES
  pc,             \* where the thread is, between two waits or calls
  cpu_loads, trial,
  status,         \* the client's server_status_
  server,         \* the process's command loop
  stop            \* stop_, notified by the destructor

vars == <<pc, cpu_loads, trial, status, server, stop>>

kPingTrial == 3
kMinimumAllCPULoad == 33
kMinimumLatestCPULoad == 66
kLoadsSize == 16                        \* of the array cpu_loads

Smaller(a, b) == IF a < b THEN a ELSE b

\* The rounds of the sampling loop.
SampleCount ==
  LET check_interval == Smaller(60, interval)
      check_duration == Smaller(5, interval) IN
    (check_interval + check_duration - 1) \div check_duration

\* Mutant: only the average of the minute counts.
CanSendCleanupCommand_AllOnly(loads, gap) ==
  /\ gap > 0
  /\ Total(loads) <= kMinimumAllCPULoad * Len(loads)
  /\ gap <= 2 * interval

\* CanSendCleanupCommand, gap being current - last cleanup time.  The latest
\* average is the sum of all samples over two.
CanSendCleanupCommand(loads, gap) ==
  /\ gap > 0
  /\ Total(loads) <= kMinimumAllCPULoad * Len(loads)
  /\ Total(loads) <= kMinimumLatestCPULoad * Smaller(2, Len(loads))
  /\ gap <= 2 * interval

-----------------------------------------------------------------------------
Init ==
  /\ pc = "idle" /\ cpu_loads = << >> /\ trial = 0
  /\ status = "UNKNOWN" /\ server = "serving" /\ stop = FALSE

\* A wait on stop_ that ends by notification ends the thread.
Stopped ==
  /\ stop
  /\ pc' = "stopped"
  /\ UNCHANGED <<cpu_loads, trial, status, server, stop>>

\* The first interval - 60 seconds.
Sleep ==
  /\ pc = "idle"
  /\ \/ Stopped
     \/ /\ ~stop
        /\ pc' = "sample" /\ cpu_loads' = << >>
        /\ UNCHANGED <<trial, status, server, stop>>

Sample ==
  /\ pc = "sample" /\ Len(cpu_loads) < SampleCount
  /\ \/ Stopped
     \/ /\ ~stop
        /\ \E load \in Loads : cpu_loads' = Append(cpu_loads, load)
        /\ UNCHANGED <<pc, trial, status, server, stop>>

\* The command is not sent in this round.
Skip ==
  /\ pc = "sample" /\ Len(cpu_loads) = SampleCount
  /\ \E gap \in Gaps : ~CanSendCleanupCommand(cpu_loads, gap)
  /\ pc' = "idle"
  /\ UNCHANGED <<cpu_loads, trial, status, server, stop>>

Decide ==
  /\ pc = "sample" /\ Len(cpu_loads) = SampleCount
  /\ \E gap \in Gaps : CanSendCleanupCommand(cpu_loads, gap)
  /\ pc' = "send"
  /\ UNCHANGED <<cpu_loads, trial, status, server, stop>>

\* client_->Cleanup() that the server answers.
CleanupServed ==
  /\ pc = "send" /\ status # "TIMEOUT" /\ server = "serving"
  /\ pc' = "idle"
  /\ UNCHANGED <<cpu_loads, trial, status, server, stop>>

\* client_->Cleanup() that fails: refused in status TIMEOUT, or not answered
\* within kCleanupTimeout, be it that the server is only slow.
CleanupFailed ==
  /\ pc = "send"
  /\ status' = "TIMEOUT"
  /\ pc' = "failed"
  /\ UNCHANGED <<cpu_loads, trial, server, stop>>

\* Mutant: the client keeps the status of the failed call.
Reset_Forgotten == UNCHANGED status

\* client_->Reset()
Reset == status' = "UNKNOWN"

EnterPings ==
  /\ pc = "failed"
  /\ Reset
  /\ pc' = "ping" /\ trial' = 0
  /\ UNCHANGED <<cpu_loads, server, stop>>

\* Mutant: failed pings are not counted.
NextTrial_Same == trial

NextTrial == trial + 1

\* One round of the ping loop: the wait of kPingInterval, then PingServer.
Ping ==
  /\ pc = "ping"
  /\ \/ Stopped
     \/ /\ ~stop /\ server = "serving"
        /\ pc' = "idle"
        /\ UNCHANGED <<cpu_loads, trial, status, server, stop>>
     \/ /\ ~stop /\ server = "hung"
        /\ trial' = NextTrial
        /\ pc' = IF trial' = kPingTrial THEN "kill" ELSE "ping"
        /\ UNCHANGED <<cpu_loads, status, server, stop>>

\* Mutant: the process is killed while it shuts down.
Kill_Always ==
  /\ pc = "kill"
  /\ pc' = "killed"
  /\ UNCHANGED <<cpu_loads, trial, status, server, stop>>

\* The last look at stop_, then LOG(FATAL).
Kill ==
  /\ pc = "kill"
  /\ \/ Stopped
     \/ /\ ~stop
        /\ pc' = "killed"
        /\ UNCHANGED <<cpu_loads, trial, status, server, stop>>

-----------------------------------------------------------------------------
\* The command loop hangs, or comes back; the server shuts down, after which
\* it answers no more.
Hang ==
  /\ server = "serving" /\ pc # "killed"
  /\ server' = "hung"
  /\ UNCHANGED <<pc, cpu_loads, trial, status, stop>>

Recover ==
  /\ server = "hung" /\ ~stop /\ pc # "killed"
  /\ server' = "serving"
  /\ UNCHANGED <<pc, cpu_loads, trial, status, stop>>

Stop ==
  /\ ~stop /\ pc # "killed"
  /\ stop' = TRUE /\ server' = "hung"
  /\ UNCHANGED <<pc, cpu_loads, trial, status>>

ThreadStep ==
  \/ Sleep \/ Sample \/ Skip \/ Decide \/ CleanupServed \/ CleanupFailed
  \/ EnterPings \/ Ping \/ Kill

Next == ThreadStep \/ Hang \/ Recover \/ Stop

Spec == Init /\ [][Next]_vars

\* The thread runs; the machine is not busy for ever; and a server that
\* answers is not too slow for CLEANUP for ever.
FairSpec ==
  /\ Spec
  /\ WF_vars(ThreadStep)
  /\ SF_vars(Decide)
  /\ SF_vars(CleanupServed)
-----------------------------------------------------------------------------
\* Every variable holds a value of its type; the samples fit the array on the
\* thread's stack for every interval the constructor allows.
TypeOK ==
  /\ pc \in {"idle", "sample", "send", "failed", "ping", "kill", "killed", "stopped"}
  /\ cpu_loads \in Seq(Loads) /\ Len(cpu_loads) <= kLoadsSize
  /\ trial \in 0 .. kPingTrial
  /\ status \in {"UNKNOWN", "TIMEOUT"}
  /\ server \in {"serving", "hung"}
  /\ stop \in BOOLEAN

\* The samples are taken and, by some reading of the clock, allow the command.
Quiet ==
  /\ pc = "sample" /\ Len(cpu_loads) = SampleCount
  /\ \E gap \in Gaps : CanSendCleanupCommand(cpu_loads, gap)

\* Cleanup goes on after trouble: as long as the machine is quiet again and
\* again and the server answers, CLEANUP is served again and again, whatever
\* calls timed out before.  A client that timed out once refuses to call any
\* more until Reset.
CleanupGoesOn ==
  ([]<>Quiet /\ <>[](server = "serving")) => []<><<CleanupServed>>_vars

\* A server that hangs when it is sent CLEANUP, and goes on hanging, is killed
\* (and then started anew by a client), unless it is being shut down.
HungServerIsKilled ==
  (pc = "send" /\ server = "hung")
    ~> (pc \in {"killed", "stopped"} \/ server = "serving")

\* The destructor's Join returns, and shutting down is not taken for a hang:
\* once stop_ is notified the thread ends by itself, although the command
\* loop no longer answers it.
StopEndsThread == stop ~> pc = "stopped"

\* The load of the last ten seconds: the last two samples.
LatestTotal(loads) ==
  Total(SubSeq(loads, Len(loads) - Smaller(2, Len(loads)) + 1, Len(loads)))

\* The command is sent only on a machine whose CPU load is below both limits,
\* "Average CPU load for last 1 min" and "Average CPU load for last 10 secs",
\* although the latter is computed from the samples of the whole minute: the
\* sum over two errs to the other side, and a quiet machine may not be cleaned.
BusyMachineIsSpared ==
  /\ TypeOK
  /\ pc = "send" =>
       /\ Total(cpu_loads) <= kMinimumAllCPULoad * Len(cpu_loads)
       /\ LatestTotal(cpu_loads) <=
            kMinimumLatestCPULoad * Smaller(2, Len(cpu_loads))
=============================================================================
