----------------------------- MODULE DataLoader -----------------------------
(***************************************************************************)
(* Loading new language data: the main thread registers reload requests     *)
(* (SEND_ENGINE_RELOAD_REQUEST) with DataLoader, whose thread builds the    *)
(* modules of the request with the highest priority and hands them to the   *)
(* engine; the main thread adopts them in Engine::MaybeReloadEngine when    *)
(* CREATE_SESSION finds no session.  The two threads share the request list *)
(* (under mutex_), the "high priority" notification and loader_response_.   *)
(***************************************************************************)
EXTENDS Naturals, FiniteSets

CONSTANTS
  Requests,        \* distinct requests; the fingerprint identifies a request
  Priority,        \* Priority[r]: smaller is more urgent
  MaxSequence      \* bound: number of registrations

ASSUME PriorityAssumption == Priority \in [Requests -> Nat]
ASSUME SequenceAssumption == MaxSequence \in Nat

None == "none"     \* current_request_id_ = 0, no response, no request

ASSUME NoneAssumption == None \notin Requests

VARIABLES
  requests,        \* requests_: registered request -> its sequence_id
  unregistered,    \* unregistered_
  current,         \* current_request_id_
  sequence_id,     \* sequence_id_
  high_notified,   \* high_priority_data_registered_.HasBeenNotified()
  loader,          \* where load_'s thread is; None when not running
  picked,          \* the request the thread works on
  main,            \* the request StartNewDataBuildTask has just registered
  response,        \* Engine::loader_response_: the request it was built for
  engine           \* the request the engine's modules were built for

vars == <<requests, unregistered, current, sequence_id, high_notified, loader,
          picked, main, response, engine>>

LoaderSteps == {None, "get", "check", "wait", "build", "callback", "failed",
                "loaded", "exit"}

HighPriority == 10  \* kHighPriority

Registered == DOMAIN requests

\* The order of requests_: priority first, the later registration wins a tie.
Before(r, s) ==
  \/ Priority[r] < Priority[s]
  \/ Priority[r] = Priority[s] /\ requests[r] > requests[s]

\* requests_.front()
IsFront(r) == r \in Registered /\ \A s \in Registered \ {r} : Before(r, s)

IsRunning == loader # None

\* Something GetPendingRequestData would return.
Pending == \E r \in Registered : IsFront(r) /\ r # current

-----------------------------------------------------------------------------
Init ==
  /\ requests = [r \in {} |-> 0]
  /\ unregistered = {}
  /\ current = None
  /\ sequence_id = 0
  /\ high_notified = FALSE
  /\ loader = None /\ picked = None
  /\ main = None
  /\ response = None /\ engine = None

-----------------------------------------------------------------------------
\* The main thread.

\* Mutant: a request that failed to load may be registered again.
Acceptable_AfterFailure(r) == r # current

\* RegisterRequest refuses what is loaded and what failed to load.
Acceptable(r) == r # current /\ r \notin unregistered

\* RegisterRequest, atomic under mutex_.  It accepts the request only if the
\* front of the sorted list is not the current data.
RegisterRequest(r) ==
  /\ main = None
  /\ Acceptable(r)
  /\ sequence_id < MaxSequence
  /\ sequence_id' = sequence_id + 1
  /\ requests' = [s \in Registered \cup {r} |->
                    IF s = r THEN sequence_id' ELSE requests[s]]
  /\ main' = IF \E s \in Registered' : IsFront(s)' /\ s # current
             THEN r ELSE None
  /\ UNCHANGED <<unregistered, current, high_notified, loader, picked,
                 response, engine>>

\* The rest of StartNewDataBuildTask: notify, and schedule the thread unless
\* it is (still) running.
StartNewDataBuildTask ==
  /\ main # None
  /\ main' = None
  /\ high_notified' = (high_notified \/ Priority[main] <= HighPriority)
  /\ IF IsRunning THEN UNCHANGED <<loader, picked>>
                  ELSE loader' = "get" /\ picked' = None
  /\ UNCHANGED <<requests, unregistered, current, sequence_id, response,
                 engine>>

\* Engine::MaybeReloadEngine, called by CreateSession with no session left.
MaybeReloadEngine ==
  /\ main = None
  /\ ~IsRunning
  /\ response # None
  /\ engine' = response
  /\ response' = None
  /\ UNCHANGED <<requests, unregistered, current, sequence_id, high_notified,
                 loader, picked, main>>

-----------------------------------------------------------------------------
\* The loader thread: StartReloadLoop.

LoaderTo(step) ==
  /\ loader' = step
  /\ UNCHANGED <<sequence_id, high_notified, main, engine>>

\* Mutant: any registered request may be taken, not the front.
GetPendingRequestData_Any ==
  /\ loader = "get"
  /\ \/ \E r \in Registered : r # current /\ picked' = r /\ LoaderTo("check")
     \/ ~Pending /\ picked' = None /\ LoaderTo("exit")
  /\ UNCHANGED <<requests, unregistered, current, response>>

\* GetPendingRequestData: the front, or the end of the loop.
GetPendingRequestData ==
  /\ loader = "get"
  /\ \/ \E r \in Registered :
          IsFront(r) /\ r # current /\ picked' = r /\ LoaderTo("check")
     \/ ~Pending /\ picked' = None /\ LoaderTo("exit")
  /\ UNCHANGED <<requests, unregistered, current, response>>

\* No wait once high priority data has arrived.
CheckHighPriority ==
  /\ loader = "check"
  /\ LoaderTo(IF high_notified THEN "build" ELSE "wait")
  /\ UNCHANGED <<requests, unregistered, current, response, picked>>

\* Otherwise up to kTimeout for it; if it comes the loop starts over.
WaitForHighPriority ==
  /\ loader = "wait"
  /\ LoaderTo(IF high_notified THEN "get" ELSE "build")
  /\ UNCHANGED <<requests, unregistered, current, response, picked>>

\* BuildResponse; the data may be missing or broken.
BuildResponse ==
  /\ loader = "build"
  /\ LoaderTo("callback") \/ LoaderTo("failed")
  /\ UNCHANGED <<requests, unregistered, current, response, picked>>

\* Mutant: modules that still wait for the engine are not replaced.
Callback_KeepsFirst ==
  /\ loader = "callback"
  /\ response' = IF response = None THEN picked ELSE response
  /\ LoaderTo("loaded")
  /\ UNCHANGED <<requests, unregistered, current, picked>>

\* The engine's callback keeps the modules for the main thread.
Callback ==
  /\ loader = "callback"
  /\ response' = picked
  /\ LoaderTo("loaded")
  /\ UNCHANGED <<requests, unregistered, current, picked>>

\* Mutant: the failed request stays in the list.
ReportLoadFailure_Keeps ==
  /\ loader = "failed"
  /\ UNCHANGED requests
  /\ unregistered' = unregistered \cup {picked}
  /\ LoaderTo("get")
  /\ UNCHANGED <<current, response, picked>>

ReportLoadFailure ==
  /\ loader = "failed"
  /\ requests' = [r \in Registered \ {picked} |-> requests[r]]
  /\ unregistered' = IF picked \in Registered THEN unregistered \cup {picked}
                     ELSE unregistered
  /\ LoaderTo("get")
  /\ UNCHANGED <<current, response, picked>>

ReportLoadSuccess ==
  /\ loader = "loaded"
  /\ current' = picked
  /\ LoaderTo("get")
  /\ UNCHANGED <<requests, unregistered, response, picked>>

\* The thread function returns and its future becomes ready.
LoaderExits ==
  /\ loader = "exit"
  /\ LoaderTo(None)
  /\ UNCHANGED <<requests, unregistered, current, response, picked>>

-----------------------------------------------------------------------------
Loader ==
  \/ GetPendingRequestData \/ CheckHighPriority \/ WaitForHighPriority
  \/ BuildResponse \/ Callback \/ ReportLoadFailure \/ ReportLoadSuccess
  \/ LoaderExits

Next ==
  \/ \E r \in Requests : RegisterRequest(r)
  \/ StartNewDataBuildTask
  \/ MaybeReloadEngine
  \/ Loader

Spec == Init /\ [][Next]_vars

\* Both threads run.
FairSpec == Spec /\ WF_vars(Loader) /\ WF_vars(StartNewDataBuildTask)

-----------------------------------------------------------------------------
\* Every variable holds a value of its type.
TypeOK ==
  /\ Registered \subseteq Requests /\ requests \in [Registered -> Nat]
  /\ unregistered \subseteq Requests
  /\ current \in Requests \cup {None}
  /\ sequence_id \in Nat
  /\ high_notified \in BOOLEAN
  /\ loader \in LoaderSteps
  /\ picked \in Requests \cup {None}
  /\ main \in Requests \cup {None}
  /\ response \in Requests \cup {None}
  /\ engine \in Requests \cup {None}

\* A request that failed to load is gone for good: it is neither tried again
\* nor taken for the loaded data, also when a request is registered again or
\* superseded while its data is being built.
FailedIsGone ==
  /\ unregistered \cap Registered = {}
  /\ current \notin unregistered

\* The loaded data is never replaced by data of a less urgent request
\* ("loads the data from the top priority request", data_loader.h), however
\* registrations interleave with a build.
NoDowngrade ==
  [][current' # current /\ current # None
       => Priority[current'] <= Priority[current]]_vars

\* With the loader at rest, the modules that wait for the engine, or that the
\* engine has adopted, are those of the request the loader takes as loaded
\* (and for which it refuses further requests).
EngineFollowsLoader ==
  ~IsRunning => current = (IF response # None THEN response ELSE engine)

\* The loader thread always comes to its end: no request is built for ever.
LoaderComesToRest == IsRunning ~> ~IsRunning

=============================================================================
