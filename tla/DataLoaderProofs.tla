-------------------------- MODULE DataLoaderProofs --------------------------
(***************************************************************************)
(* Proofs about DataLoader, for any set of requests and priorities.         *)
(***************************************************************************)
EXTENDS DataLoader, TLAPS

Working == {"check", "wait", "build", "callback", "failed", "loaded"}

\* What the loader works on stays registered and pending until the loader
\* itself reports on it, and was at least as urgent as the current data when
\* it was picked; the current data stays registered.
PickedInv ==
  /\ current # None => current \in Registered
  /\ loader \in Working =>
       /\ picked \in Registered /\ picked # current
       /\ current # None => Priority[picked] <= Priority[current]

\* The modules that wait for the engine, or that it runs, are the current
\* data, but between the callback and ReportLoadSuccess.
ResponseInv ==
  IF loader = "loaded" THEN response = picked
  ELSE current = (IF response # None THEN response ELSE engine)

IInv == TypeOK /\ FailedIsGone /\ PickedInv /\ ResponseInv

LEMMA NoneIsNoRequest == None \notin Requests
BY NoneAssumption

-----------------------------------------------------------------------------
LEMMA InitHolds == Init => IInv
<1> SUFFICES ASSUME Init PROVE IInv
  OBVIOUS
<1>1. Registered = {} /\ requests \in [{} -> Nat]
  BY DEF Init, Registered
<1>2. high_notified \in BOOLEAN
  BY Zenon DEF Init
<1>3. TypeOK
  BY <1>1, <1>2 DEF Init, TypeOK, LoaderSteps
<1>4. FailedIsGone /\ PickedInv /\ ResponseInv
  BY <1>1, NoneIsNoRequest DEF Init, FailedIsGone, PickedInv, ResponseInv,
     Working, None
<1> QED
  BY <1>3, <1>4 DEF IInv

\* The main thread's steps.
LEMMA RegisterStep ==
  ASSUME IInv, NEW r \in Requests, RegisterRequest(r)
  PROVE  IInv'
<1> USE DEF IInv
<1>1. /\ Registered' = Registered \cup {r}
      /\ UNCHANGED <<unregistered, current, loader, picked, response, engine>>
      /\ r \notin unregistered
  BY DEF RegisterRequest, Registered, Acceptable
<1>2. sequence_id' \in Nat
  BY DEF RegisterRequest, TypeOK
<1>3. requests' \in [Registered' -> Nat]
  BY <1>1, <1>2 DEF RegisterRequest, TypeOK, Registered
<1>4. main' \in Requests \cup {None}
  BY DEF RegisterRequest
<1>5. TypeOK'
  BY <1>1, <1>2, <1>3, <1>4 DEF TypeOK, RegisterRequest
<1>6. FailedIsGone' /\ PickedInv' /\ ResponseInv'
  BY <1>1 DEF FailedIsGone, PickedInv, ResponseInv
<1> QED
  BY <1>5, <1>6

LEMMA MainStep ==
  ASSUME IInv, StartNewDataBuildTask \/ MaybeReloadEngine
  PROVE  IInv'
<1> USE DEF IInv
<1>1. CASE StartNewDataBuildTask
  <2>1. high_notified' \in BOOLEAN
    BY <1>1, Zenon DEF StartNewDataBuildTask
  <2> QED
    BY <1>1, <2>1 DEF StartNewDataBuildTask, IsRunning, TypeOK, FailedIsGone,
       PickedInv, ResponseInv, Registered, LoaderSteps, Working, None
<1>2. CASE MaybeReloadEngine
  BY <1>2 DEF MaybeReloadEngine, IsRunning, TypeOK, FailedIsGone, PickedInv,
     ResponseInv, Registered, Working, None
<1> QED
  BY <1>1, <1>2

\* The loader's steps.
LEMMA PickStep ==
  ASSUME IInv, GetPendingRequestData
  PROVE  IInv'
<1> USE DEF IInv
<1>1. UNCHANGED <<requests, unregistered, current, sequence_id, high_notified,
                  main, response, engine>>
  BY DEF GetPendingRequestData, LoaderTo
<1>2. CASE loader' = "exit" /\ picked' = None
  BY <1>1, <1>2 DEF TypeOK, FailedIsGone, PickedInv, ResponseInv, Registered,
     LoaderSteps, Working, GetPendingRequestData
<1>3. ASSUME NEW r \in Registered, IsFront(r), r # current, picked' = r,
             loader' = "check"
      PROVE  IInv'
  <2>1. r \in Requests
    BY <1>3 DEF TypeOK
  <2>2. current # None => Priority[r] <= Priority[current]
    <3> SUFFICES ASSUME current # None PROVE Priority[r] <= Priority[current]
      OBVIOUS
    <3>1. current \in Registered
      BY DEF PickedInv
    <3>2. Before(r, current)
      BY <1>3, <3>1 DEF IsFront
    <3>3. Priority[r] \in Nat /\ Priority[current] \in Nat
      BY <2>1, <3>1, PriorityAssumption DEF TypeOK
    <3> QED
      BY <3>2, <3>3 DEF Before
  <2>3. TypeOK'
    BY <1>1, <1>3, <2>1 DEF TypeOK, Registered, LoaderSteps
  <2>4. PickedInv'
    BY <1>1, <1>3, <2>2 DEF PickedInv, Registered
  <2> QED
    BY <1>1, <1>3, <2>3, <2>4 DEF FailedIsGone, ResponseInv, Registered,
       GetPendingRequestData
<1> QED
  BY <1>2, <1>3 DEF GetPendingRequestData, LoaderTo

LEMMA BuildStep ==
  ASSUME IInv,
         CheckHighPriority \/ WaitForHighPriority \/ BuildResponse \/ LoaderExits
  PROVE  IInv'
<1> USE DEF IInv
<1>1. UNCHANGED <<requests, unregistered, current, sequence_id, high_notified,
                  main, response, engine, picked>>
  BY DEF CheckHighPriority, WaitForHighPriority, BuildResponse, LoaderExits,
         LoaderTo
<1>2. /\ loader' \in LoaderSteps /\ loader # "loaded" /\ loader' # "loaded"
      /\ loader' \in Working => loader \in Working
  BY DEF CheckHighPriority, WaitForHighPriority, BuildResponse, LoaderExits,
         LoaderTo, LoaderSteps, Working, None
<1> QED
  BY <1>1, <1>2 DEF TypeOK, FailedIsGone, PickedInv, ResponseInv, Registered

LEMMA CallbackStep == ASSUME IInv, Callback PROVE IInv'
BY DEF IInv, Callback, LoaderTo, TypeOK, FailedIsGone, PickedInv, ResponseInv,
       Registered, LoaderSteps, Working

LEMMA FailureStep == ASSUME IInv, ReportLoadFailure PROVE IInv'
<1> USE DEF IInv
<1>1. picked \in Registered /\ picked # current /\ picked \in Requests
  BY DEF ReportLoadFailure, PickedInv, Working, TypeOK
<1>2. /\ Registered' = Registered \ {picked}
      /\ unregistered' = unregistered \cup {picked}
      /\ loader = "failed" /\ loader' = "get"
      /\ UNCHANGED <<sequence_id, high_notified, main, engine, current,
                     response, picked>>
  BY <1>1 DEF ReportLoadFailure, LoaderTo, Registered
<1>3. requests' \in [Registered' -> Nat]
  BY <1>2 DEF ReportLoadFailure, TypeOK, Registered
<1>4. TypeOK'
  BY <1>1, <1>2, <1>3 DEF TypeOK, LoaderSteps
<1>5. FailedIsGone' /\ PickedInv' /\ ResponseInv'
  BY <1>1, <1>2 DEF FailedIsGone, PickedInv, ResponseInv, Working
<1> QED
  BY <1>4, <1>5

LEMMA SuccessStep == ASSUME IInv, ReportLoadSuccess PROVE IInv'
<1> USE DEF IInv
<1>1. picked \in Registered /\ picked \in Requests /\ response = picked
  BY DEF ReportLoadSuccess, PickedInv, ResponseInv, Working, TypeOK
<1>2. picked # None
  BY <1>1, NoneIsNoRequest
<1>3. /\ current' = picked /\ loader' = "get"
      /\ UNCHANGED <<requests, unregistered, sequence_id, high_notified, main,
                     engine, response, picked>>
  BY DEF ReportLoadSuccess, LoaderTo
<1>4. TypeOK'
  BY <1>1, <1>3 DEF TypeOK, Registered, LoaderSteps
<1>5. FailedIsGone' /\ PickedInv' /\ ResponseInv'
  BY <1>1, <1>2, <1>3 DEF FailedIsGone, PickedInv, ResponseInv, Working,
                          Registered
<1> QED
  BY <1>4, <1>5

LEMMA Inductive == IInv /\ [Next]_vars => IInv'
<1> SUFFICES ASSUME IInv, [Next]_vars PROVE IInv'
  OBVIOUS
<1>1. CASE UNCHANGED vars
  BY <1>1 DEF vars, IInv, TypeOK, FailedIsGone, PickedInv, ResponseInv,
              Registered
<1>2. CASE \E r \in Requests : RegisterRequest(r)
  BY <1>2, RegisterStep
<1>3. CASE StartNewDataBuildTask \/ MaybeReloadEngine
  BY <1>3, MainStep
<1>4. CASE Loader
  BY <1>4, PickStep, BuildStep, CallbackStep, FailureStep, SuccessStep
  DEF Loader
<1> QED
  BY <1>1, <1>2, <1>3, <1>4 DEF Next

LEMMA InvariantHolds == Spec => []IInv
BY InitHolds, Inductive, PTL DEF Spec

-----------------------------------------------------------------------------
\* Every variable of DataLoader and its thread keeps its type.
THEOREM TypeCorrect == Spec => []TypeOK
BY InvariantHolds, PTL DEF IInv

\* A request that ReportLoadFailure has unregistered is never registered
\* again and never taken for the loaded data.
THEOREM FailureIsFinal == Spec => []FailedIsGone
BY InvariantHolds, PTL DEF IInv

\* With the loader at rest, the engine runs, or is about to adopt, the data
\* of current_request_id_.
THEOREM EngineGetsCurrentData == Spec => []EngineFollowsLoader
<1>1. IInv => EngineFollowsLoader
  BY DEF IInv, ResponseInv, EngineFollowsLoader, IsRunning, None
<1> QED
  BY <1>1, InvariantHolds, PTL

\* The loader never replaces its data by that of a less urgent request.
THEOREM DataIsNeverDowngraded == Spec => NoDowngrade
<1>1. IInv /\ [Next]_vars =>
        [current' # current /\ current # None
           => Priority[current'] <= Priority[current]]_vars
  <2> SUFFICES ASSUME IInv, Next, current' # current, current # None
               PROVE  Priority[current'] <= Priority[current]
    OBVIOUS
  <2>1. ReportLoadSuccess
    BY DEF Next, RegisterRequest, StartNewDataBuildTask, MaybeReloadEngine,
       Loader, GetPendingRequestData, CheckHighPriority, WaitForHighPriority,
       BuildResponse, Callback, ReportLoadFailure, LoaderExits
  <2> QED
    BY <2>1 DEF ReportLoadSuccess, IInv, PickedInv, Working
<1> QED
  BY <1>1, InvariantHolds, PTL DEF Spec, NoDowngrade
=============================================================================
