------------------------------- MODULE Client -------------------------------
(***************************************************************************)
(* The client library of an application (client.cc): it starts the server, *)
(* checks its version, keeps a session, and restores the session of a      *)
(* server that died by playing back the journal of inputs.  Each IPC call  *)
(* is one step; between steps the server may die, be started by another    *)
(* application, or drop the session.  The server is external here: it is   *)
(* the composition of this client's session and the version that runs.     *)
(* Error dialogs (OnFatal) and the dump of the journal are left out.       *)
(***************************************************************************)
EXTENDS Integers, Sequences, SequencesExt

CONSTANTS
  MaxPlayBackSize,      \* kMaxPlayBackSize
  HasRequest,           \* request_ is set (the build with SVS characters)
  MaxInputs,            \* bound: inputs the application sends
  MaxFaults             \* bound: crashes, time-outs and other failures

ASSUME ClientAssumption ==
  /\ MaxPlayBackSize \in Nat \ {0} /\ HasRequest \in BOOLEAN
  /\ MaxInputs \in Nat /\ MaxFaults \in Nat

VARIABLES
  server_status, server_protocol_version, history_inputs,
  has_id,          \* id_ # 0
  pc,              \* where the calling thread is, between two IPC calls
  op,              \* the input being sent, or CheckVersion
  retry,           \* EnsureCallCommand is in its second trial
  trial,           \* of CheckVersionOrRestartServerInternal
  play,            \* inputs played back
  installed,       \* version of the server binary on disk
  server,          \* version of the running server, or down
  session,         \* composition of session id_ in the server, or Lost
  inputs, faults

clientVars == <<server_status, server_protocol_version, history_inputs, has_id,
                pc, op, retry, trial, play>>
serverVars == <<installed, server, session>>
vars == <<clientVars, serverVars, inputs, faults>>

-----------------------------------------------------------------------------
\* Server versions, as the client compares them with its own.  A newer
\* product of the same protocol is treated as the same version.
Versions == {"older_protocol", "older", "same", "newer_protocol"}

ProtocolOf(v) == IF v = "older_protocol" THEN "older"
                 ELSE IF v = "newer_protocol" THEN "newer" ELSE "same"

\* No session: 0 is the number of no key.
Lost == <<0>>

\* The statuses from SERVER_TIMEOUT on: no call is made any more.
Dead == {"TIMEOUT", "VERSION_MISMATCH", "BROKEN_MESSAGE", "FATAL"}
Statuses == {"UNKNOWN", "SHUTDOWN", "INVALID_SESSION", "OK"} \cup Dead

\* Inputs: a key that adds a character (known by its number), a key and a
\* command that commit the composition, TEST_SEND_KEY, and a key that the
\* session does not consume.
Kinds == {"key", "commit_key", "commit_command", "test", "echo"}
Input == [kind : Kinds, n : 1 .. MaxInputs]

CheckVersion == [kind |-> "check_version", n |-> 0]

\* The session's answer to an input, by its effect on the composition c.
Applied(c, input) ==
  CASE input.kind = "key" -> Append(c, input.n)
    [] input.kind \in {"commit_key", "commit_command"} -> << >>
    [] OTHER -> c

Consumed(c, input) ==
  IF input.kind = "commit_key" THEN c # << >> ELSE input.kind # "echo"

\* What a new session shows after the first i inputs of h, for each i.
Shown(h) ==
  LET shown[i \in 0 .. Len(h)] ==
        IF i = 0 THEN << >> ELSE Applied(shown[i - 1], h[i])
  IN  shown

\* What a new session shows after the inputs of h.
Composition(h) == Shown(h)[Len(h)]

-----------------------------------------------------------------------------
\* The results of Call for a request that turns the session into s.  A reply
\* is lost, late or broken with or without the request having been served.

Result(ok, status, protocol, v, s, cost) ==
  [ok |-> ok, status |-> status, protocol |-> protocol, server |-> v,
   session |-> s, cost |-> cost]

Call(s) ==
  IF server_status \in Dead
  THEN {Result(FALSE, server_status, server_protocol_version, server, session,
               0)}
  ELSE IF server = "down"
  THEN {Result(FALSE,
               IF server_status = "UNKNOWN" THEN "UNKNOWN" ELSE "SHUTDOWN",
               "same", server, session, 0)}
  ELSE IF ProtocolOf(server) # "same"
  THEN {Result(FALSE, server_status, ProtocolOf(server), server, session, 0)}
  ELSE {Result(TRUE, server_status, "same", server, s, 0),
        Result(FALSE, "SHUTDOWN", "same", "down", Lost, 1),
        Result(FALSE, "BROKEN_MESSAGE", "same", server, s, 1)}
       \cup {Result(FALSE, "SHUTDOWN", "same", server, after, 1) :
               after \in {session, s}}
       \cup {Result(FALSE, "TIMEOUT", "same", server, after, 1) :
               after \in {session, s}}

\* The part of a result that is not the status.
Take(r) ==
  /\ faults + r.cost <= MaxFaults
  /\ faults' = faults + r.cost
  /\ server_protocol_version' = r.protocol
  /\ server' = r.server

\* What the session is after an input; an unknown id is answered with id 0.
After(input) == IF session = Lost THEN Lost ELSE Applied(session, input)

-----------------------------------------------------------------------------
Init ==
  /\ server_status = "UNKNOWN" /\ server_protocol_version = "older"
  /\ history_inputs = << >> /\ has_id = FALSE
  /\ pc = "idle" /\ op = CheckVersion /\ retry = FALSE
  /\ trial = 0 /\ play = 0
  /\ installed \in Versions
  /\ server \in Versions \cup {"down"}
  /\ session = Lost
  /\ inputs = 0 /\ faults = 0

\* The application's calls.  SendKey, TestSendKey and SendCommand build an
\* input and enter EnsureCallCommand.
SendInput(kind) ==
  /\ pc = "idle" /\ inputs < MaxInputs
  /\ inputs' = inputs + 1
  /\ op' = [kind |-> kind, n |-> inputs + 1]
  /\ pc' = "ensure" /\ retry' = FALSE
  /\ UNCHANGED <<server_status, server_protocol_version, history_inputs, has_id,
                 trial, play, serverVars, faults>>

CheckVersionOrRestartServer ==
  /\ pc = "idle" /\ inputs < MaxInputs
  /\ inputs' = inputs + 1
  /\ op' = CheckVersion
  /\ pc' = "create" /\ trial' = 0
  /\ UNCHANGED <<server_status, server_protocol_version, history_inputs, has_id,
                 retry, play, serverVars, faults>>

\* CallCommand for SYNC_DATA, RELOAD, CLEANUP, NO_OPERATION, GET_CONFIG and the
\* like: one Call, outside of EnsureSession.
CallCommand ==
  /\ pc = "idle" /\ inputs < MaxInputs
  /\ inputs' = inputs + 1
  /\ \E r \in Call(session) :
       /\ Take(r)
       /\ server_status' = r.status /\ session' = r.session
  /\ UNCHANGED <<history_inputs, has_id, pc, op, retry, trial, play,
                 installed>>

\* Shutdown: a served SHUTDOWN ends the server.
Shutdown ==
  /\ pc = "idle" /\ inputs < MaxInputs
  /\ inputs' = inputs + 1
  /\ \E r \in Call(session) :
       /\ Take([r EXCEPT !.server = IF r.ok THEN "down" ELSE r.server])
       /\ server_status' = r.status
       /\ session' = IF r.ok THEN Lost ELSE r.session
  /\ UNCHANGED <<history_inputs, has_id, pc, op, retry, trial, play,
                 installed>>

Reset ==
  /\ pc = "idle" /\ server_status # "UNKNOWN"
  /\ server_status' = "UNKNOWN" /\ server_protocol_version' = "older"
  /\ UNCHANGED <<history_inputs, has_id, pc, op, retry, trial, play,
                 serverVars, inputs, faults>>

-----------------------------------------------------------------------------
\* ServerLauncher::StartServer: ping, launch, wait.  It fails when the binary
\* cannot be run or does not answer in time.
StartServer == server' = IF server = "down" THEN installed ELSE server

\* EnsureConnection: up is TRUE for its return value true.
EnsureConnection(up) ==
  \/ /\ server_status \in {"OK", "INVALID_SESSION"}
     /\ up
     /\ UNCHANGED <<server_status, server, faults>>
  \/ /\ server_status \in Dead
     /\ ~up
     /\ server_status' = "FATAL"
     /\ UNCHANGED <<server, faults>>
  \/ /\ server_status \in {"UNKNOWN", "SHUTDOWN"}
     /\ up
     /\ StartServer
     /\ server_status' = "INVALID_SESSION"
     /\ UNCHANGED faults
  \/ /\ server_status \in {"UNKNOWN", "SHUTDOWN"}
     /\ ~up
     /\ faults < MaxFaults /\ faults' = faults + 1
     /\ server_status' = "FATAL"
     /\ UNCHANGED server

\* Mutant: a full journal is not played back but kept.
EnterPlayback_KeepsJournal ==
  IF Len(history_inputs) >= MaxPlayBackSize
  THEN pc' = "call" /\ UNCHANGED <<history_inputs, play>>
  ELSE pc' = "playback" /\ play' = 0 /\ UNCHANGED history_inputs

\* PlaybackHistory's test of the journal's length.
EnterPlayback ==
  IF Len(history_inputs) >= MaxPlayBackSize
  THEN pc' = "call" /\ history_inputs' = << >> /\ UNCHANGED play
  ELSE pc' = "playback" /\ play' = 0 /\ UNCHANGED history_inputs

\* EnsureCallCommand after EnsureSession returned true.
EnterCall == IF retry THEN EnterPlayback
             ELSE pc' = "call" /\ UNCHANGED <<history_inputs, play>>

\* EnsureSession up to CreateSession, which forgets the id.
EnsureSession ==
  /\ pc = "ensure"
  /\ \/ /\ EnsureConnection(FALSE)
        /\ pc' = "idle"
        /\ UNCHANGED <<history_inputs, has_id, trial, play, session>>
     \/ /\ server_status = "OK"
        /\ EnsureConnection(TRUE)
        /\ EnterCall
        /\ UNCHANGED <<has_id, trial, session>>
     \/ /\ server_status # "OK"
        /\ EnsureConnection(TRUE)
        /\ pc' = "create" /\ trial' = 0
        /\ has_id' = FALSE /\ session' = Lost
        /\ UNCHANGED <<history_inputs, play>>
  /\ UNCHANGED <<server_protocol_version, op, retry, installed, inputs>>

\* Mutant: the version of a server that answers is not looked at.
Outdated_ProtocolOnly(r) == ~r.ok /\ r.protocol = "older"

\* The server is to be restarted: an older product, or an older protocol.
Outdated(r) ==
  \/ r.ok /\ server = "older"
  \/ ~r.ok /\ r.protocol = "older"

\* CreateSession's use of an answer, and EnsureSession's SET_REQUEST or status.
SessionCreated ==
  \/ /\ faults < MaxFaults                  \* error_code # SESSION_SUCCESS
     /\ faults' = faults + 1
     /\ server_status' = "INVALID_SESSION"
     /\ pc' = "display"
     /\ UNCHANGED <<has_id, session, history_inputs, play>>
  \/ /\ has_id' = TRUE /\ session' = << >>
     /\ UNCHANGED faults
     /\ IF HasRequest
        THEN /\ pc' = "set_request"
             /\ UNCHANGED <<server_status, history_inputs, play>>
        ELSE server_status' = "OK" /\ EnterCall

\* One trial of CheckVersionOrRestartServerInternal with CREATE_SESSION, or
\* with NO_OPERATION.
CreateSession ==
  /\ pc = "create"
  /\ \E r \in Call(IF op = CheckVersion THEN session ELSE << >>) :
       /\ server_protocol_version' = r.protocol
       /\ server' = r.server
       /\ \/ /\ r.ok /\ ~Outdated(r) /\ op # CheckVersion
             /\ SessionCreated
          \/ /\ ~(r.ok /\ ~Outdated(r) /\ op # CheckVersion)
             /\ faults + r.cost <= MaxFaults /\ faults' = faults + r.cost
             /\ session' = IF op = CheckVersion THEN r.session ELSE Lost
             /\ \/ /\ ~r.ok /\ r.protocol = "newer"
                   /\ server_status' = "VERSION_MISMATCH" /\ pc' = "display"
                \/ /\ Outdated(r) /\ trial > 0
                   /\ server_status' = "BROKEN_MESSAGE" /\ pc' = "display"
                \/ /\ Outdated(r) /\ trial = 0
                   /\ server_status' = r.status /\ pc' = "restart"
                \/ /\ ~Outdated(r) /\ r.protocol # "newer"
                   /\ server_status' = r.status
                   /\ pc' = IF r.ok THEN "idle" ELSE "display"
             /\ UNCHANGED <<has_id, history_inputs, play>>
  /\ UNCHANGED <<op, retry, trial, installed, inputs>>

\* Mutant: every restart is the first.
Restarted_Again ==
  server_status' = "INVALID_SESSION" /\ pc' = "create" /\ trial' = 0

Restarted == server_status' = "INVALID_SESSION" /\ pc' = "create" /\ trial' = 1

\* Shutdown or ForceTerminateServer, WaitServer, and EnsureConnection from
\* SERVER_UNKNOWN.
RestartServer ==
  /\ pc = "restart"
  /\ \/ /\ server' = installed
        /\ Restarted
        /\ UNCHANGED faults
     \/ /\ faults < MaxFaults /\ faults' = faults + 1
        /\ \/ StartServer /\ Restarted       \* the old server is still there
           \/ /\ server_status' = "BROKEN_MESSAGE" /\ pc' = "display"
              /\ UNCHANGED <<server, trial>>
           \/ /\ server' = "down"
              /\ server_status' = "VERSION_MISMATCH" /\ pc' = "display"
              /\ UNCHANGED trial
  /\ session' = IF server' = server THEN session ELSE Lost
  /\ UNCHANGED <<server_protocol_version, history_inputs, has_id, op, retry,
                 play, installed, inputs>>

\* EnsureConnection "to display error message", after which the call fails.
DisplayError ==
  /\ pc = "display"
  /\ EnsureConnection(TRUE) \/ EnsureConnection(FALSE)
  /\ pc' = "idle"
  /\ UNCHANGED <<server_protocol_version, history_inputs, has_id, op, retry,
                 trial, play, installed, session, inputs>>

\* SET_REQUEST; whatever its result, the session counts as established.
SetRequest ==
  /\ pc = "set_request"
  /\ \E r \in Call(session) : Take(r) /\ session' = r.session
  /\ server_status' = "OK"
  /\ EnterCall
  /\ UNCHANGED <<has_id, op, retry, trial, installed, inputs>>

-----------------------------------------------------------------------------
\* PlaybackHistory: one input after the other until a call fails.
PlaybackHistory ==
  /\ pc = "playback"
  /\ \/ /\ play = Len(history_inputs)
        /\ pc' = "call"
        /\ UNCHANGED <<server_status, server_protocol_version, play, server,
                       session, faults>>
     \/ /\ play < Len(history_inputs)
        /\ \E r \in Call(After(history_inputs[play + 1])) :
             /\ Take(r)
             /\ server_status' = r.status /\ session' = r.session
             /\ IF r.ok THEN play' = play + 1 /\ UNCHANGED pc
                        ELSE pc' = "call" /\ UNCHANGED play
  /\ UNCHANGED <<history_inputs, has_id, op, retry, trial, installed, inputs>>

\* PushHistory: a consumed input is remembered up to the limit; a key that
\* commits is a context boundary.
Pushed(input) ==
  IF session = Lost \/ ~Consumed(session, input) THEN history_inputs
  ELSE IF input.kind = "commit_key" THEN << >>
  ELSE IF Len(history_inputs) < MaxPlayBackSize THEN Append(history_inputs, input)
  ELSE history_inputs

\* CallAndCheckVersion turns a failed call of another protocol into a mismatch.
Checked(r) == IF ~r.ok /\ r.protocol # "same" THEN "VERSION_MISMATCH"
              ELSE r.status

\* EnsureCallCommand's first trial; an unknown session answers with id 0.
FirstTrial ==
  /\ pc = "call" /\ ~retry
  /\ \E r \in Call(After(op)) :
       LET status == IF r.ok /\ session = Lost THEN "INVALID_SESSION"
                     ELSE Checked(r)
           again == status \in {"SHUTDOWN", "INVALID_SESSION"} IN
         /\ Take(r)
         /\ session' = r.session
         /\ server_status' = status
         /\ retry' = again
         /\ pc' = IF again THEN "ensure" ELSE "idle"
         /\ history_inputs' = IF again \/ status \in Dead THEN history_inputs
                              ELSE Pushed(op)
  /\ UNCHANGED <<has_id, op, trial, play, installed, inputs>>

\* Mutant: an input that succeeds at the second trial is not remembered.
SecondTrial_Unrecorded ==
  /\ pc = "call" /\ retry
  /\ \E r \in Call(After(op)) :
       /\ Take(r)
       /\ session' = r.session
       /\ server_status' = Checked(r)
       /\ history_inputs' = IF r.ok THEN history_inputs ELSE << >>
  /\ pc' = "idle"
  /\ UNCHANGED <<has_id, op, retry, trial, play, installed, inputs>>

\* The second trial; when it fails, DumpQueryOfDeath drops the journal.
SecondTrial ==
  /\ pc = "call" /\ retry
  /\ \E r \in Call(After(op)) :
       /\ Take(r)
       /\ session' = r.session
       /\ server_status' = Checked(r)
       /\ history_inputs' = IF r.ok THEN Pushed(op) ELSE << >>
  /\ pc' = "idle"
  /\ UNCHANGED <<has_id, op, retry, trial, play, installed, inputs>>

\* The destructor's DeleteSession.
Destroy ==
  /\ pc = "idle"
  /\ pc' = "closed"
  /\ \/ /\ has_id
        /\ \E r \in Call(Lost) :
             /\ Take(r)
             /\ server_status' = r.status /\ session' = r.session
             /\ has_id' = ~r.ok
     \/ /\ ~has_id
        /\ UNCHANGED <<server_status, server_protocol_version, has_id, server,
                       session, faults>>
  /\ UNCHANGED <<history_inputs, op, retry, trial, play, installed, inputs>>

-----------------------------------------------------------------------------
\* The world: the server dies, another application starts it, the server
\* drops the session (eviction, expiry).
ServerCrash ==
  /\ server # "down" /\ faults < MaxFaults
  /\ faults' = faults + 1
  /\ server' = "down" /\ session' = Lost
  /\ UNCHANGED <<clientVars, installed, inputs>>

OtherClientStarts ==
  /\ server = "down"
  /\ server' = installed
  /\ UNCHANGED <<clientVars, installed, session, inputs, faults>>

SessionDropped ==
  /\ session # Lost /\ faults < MaxFaults
  /\ faults' = faults + 1
  /\ session' = Lost
  /\ UNCHANGED <<clientVars, installed, server, inputs>>

-----------------------------------------------------------------------------
ClientStep ==
  \/ EnsureSession \/ CreateSession \/ RestartServer \/ DisplayError
  \/ SetRequest \/ PlaybackHistory \/ FirstTrial \/ SecondTrial

Next ==
  \/ \E kind \in Kinds : SendInput(kind)
  \/ CheckVersionOrRestartServer \/ CallCommand \/ Shutdown \/ Reset \/ Destroy
  \/ ClientStep
  \/ ServerCrash \/ OtherClientStarts \/ SessionDropped

Spec == Init /\ [][Next]_vars

\* The calling thread runs: IPC calls return, at the latest by time-out.
FairSpec == Spec /\ WF_vars(ClientStep)
-----------------------------------------------------------------------------
\* Every variable holds a value of its type, and a server that is down has no
\* session: what client.h declares.
TypeOK ==
  /\ server_status \in Statuses
  /\ server_protocol_version \in {"older", "same", "newer"}
  /\ history_inputs \in Seq(Input) /\ Len(history_inputs) <= MaxPlayBackSize
  /\ has_id \in BOOLEAN /\ retry \in BOOLEAN
  /\ pc \in {"idle", "ensure", "create", "restart", "display", "set_request",
             "playback", "call", "closed"}
  /\ op \in Input \cup {CheckVersion}
  /\ trial \in {0, 1}
  /\ play \in 0 .. MaxPlayBackSize
  /\ installed \in Versions /\ server \in Versions \cup {"down"}
  /\ session \in Seq(1 .. MaxInputs) \cup {Lost}
  /\ inputs \in 0 .. MaxInputs /\ faults \in 0 .. MaxFaults

\* A session is only ever held in a server that is no older than the client:
\* CheckVersionOrRestartServerInternal replaces an older one before the id it
\* gave is used, and a newer protocol is refused.
SessionOnCurrentServer == TypeOK /\ (session # Lost => server = "same")

\* When the second trial sends the user's input to a restored session, that
\* session shows what the journal says, neither less nor twice: whatever died
\* between the steps of the first trial, the restart and the playback.
PlaybackRestores ==
  (pc = "call" /\ retry /\ server_status = "OK" /\ session # Lost)
    => session = Composition(history_inputs)

\* The journal covers the session: between calls, the composition in the
\* server is the end of what playing the journal back would give, every key
\* once and in order, unless the journal is full.
JournalCoversSession ==
  (pc = "idle" /\ server_status = "OK" /\ session # Lost
     /\ Len(history_inputs) < MaxPlayBackSize)
    => IsSuffix(session, Composition(history_inputs))

\* Every call of the application comes back: neither an old server that comes
\* back after each restart, nor one that dies at each playback keeps the
\* calling thread in the client library.
CallReturns == pc \notin {"idle", "closed"} ~> pc \in {"idle", "closed"}
=============================================================================
