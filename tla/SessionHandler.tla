--------------------------- MODULE SessionHandler ---------------------------
(***************************************************************************)
(* The conversion server's command handler: the LRU map of sessions, the   *)
(* settings it hands to every session, the cleanup and shutdown clocks, and *)
(* the requests it makes of the engine.  EvalCommand runs one command at a  *)
(* time, so each command is one action.  The engine's loader thread, the    *)
(* client applications and the wall clock move between commands.  What the  *)
(* handler's calls to Sync, Wait, Reload and Clear do to the learnt user    *)
(* history is the subject of UserHistoryStorage.tla; commands that do       *)
(* nothing else (SYNC_DATA, ADD_USER_HISTORY and so on) are modelled there. *)
(***************************************************************************)
EXTENDS Integers, Sequences, FiniteSets, KeyLists

CONSTANTS
  SessionIDs,           \* ids CreateNewSessionID may draw; 0 is not one of them
  KeyMaps,              \* what KeyMapManager reads of a config
  OtherSettings,        \* the rest of a config
  Requests,             \* commands::Request values clients may set
  Times,                \* readings of the wall clock, in seconds
  MaxEngine,            \* bound: number of engine replacements
  timeout,              \* the flags of session_handler.cc, unclamped
  max_session_size,
  create_session_min_interval,
  watch_dog_interval,
  last_command_timeout,
  last_create_session_timeout

ASSUME FlagsAssumption ==
  /\ timeout \in Int /\ max_session_size \in Int
  /\ create_session_min_interval \in Int /\ watch_dog_interval \in Int
  /\ last_command_timeout \in Int /\ last_create_session_timeout \in Int

ASSUME ClockAssumption == Times \subseteq Nat /\ Times # {}

ASSUME BoundAssumption == MaxEngine \in Nat

ASSUME SettingsAssumption ==
  KeyMaps # {} /\ OtherSettings # {} /\ Requests # {}

VARIABLES
  is_available,              \* is_available_
  sessions,                  \* session_map_: live id -> what the handler reads
  lru,                       \* session_map_'s list, most recently used first
  config, key_map, request,  \* config_, key_map_manager_, request_
  shared_config,             \* what ConfigHandler::GetSharedConfig returns
  last_session_empty_time, last_cleanup_time, last_create_session_time,
  now,                       \* Clock::GetAbslTime()
  engine,                    \* which engine data converter_ was built from
  loader                     \* the engine's DataLoader, see DataLoader.tla

settingVars == <<config, key_map, request, shared_config>>
timeVars == <<last_session_empty_time, last_cleanup_time,
              last_create_session_time>>
vars == <<is_available, sessions, lru, settingVars, timeVars, now, engine,
          loader>>

-----------------------------------------------------------------------------
\* Times and flags.

InfinitePast == -1

Clamp(x, low, high) == IF x < low THEN low ELSE IF x > high THEN high ELSE x

\* current_time - t >= d; the distance to InfinitePast is infinite.
Elapsed(t, d) == t = InfinitePast \/ now - t >= d

MaxSessions == Clamp(max_session_size, 2, 128)
Interval == Clamp(watch_dog_interval, 1, 600)
CreateMinInterval == Clamp(create_session_min_interval, 0, 10)
CreateTimeout == Clamp(last_create_session_timeout, 1, 600)
CommandTimeout == Clamp(last_command_timeout, 10, 7200)

Configs == [key_map : KeyMaps, other : OtherSettings]

Settings == [config : Configs, key_map : KeyMaps, request : Requests,
             table : Requests \X Configs]

Stamps == Times \cup {InfinitePast}

Session == [settings : Settings, engine : Nat, create_session_time : Times,
            last_command_time : Stamps, application_alive : BOOLEAN]

\* The settings a session is given: SetConfig, SetKeyMapManager, SetRequest
\* and SetTable with the table TableManager builds for request and config.
SettingsOf(c, k, r) ==
  [config |-> c, key_map |-> k, request |-> r, table |-> <<r, c>>]

-----------------------------------------------------------------------------
\* session_map_ (LruCache).

Live == DOMAIN sessions

Size(s) == Cardinality(DOMAIN s)

Without(s, ids) == [id \in DOMAIN s \ ids |-> s[id]]

\* A session enters (or leaves) the map; its list position is in lru.
With(s, new, r) == [id \in DOMAIN s \cup {new} |-> IF id = new THEN r ELSE s[id]]

MovedToHead(q, id) == <<id>> \o Unlinked(q, {id})

-----------------------------------------------------------------------------
Init ==
  /\ is_available = TRUE
  /\ sessions = [id \in {} |-> {}]
  /\ lru = << >>
  /\ shared_config \in Configs
  /\ config = shared_config
  /\ key_map = shared_config.key_map
  /\ request \in Requests
  /\ now \in Times
  /\ last_session_empty_time = now
  /\ last_cleanup_time = InfinitePast
  /\ last_create_session_time = InfinitePast
  /\ engine = 0
  /\ loader = "idle"

\* KeyMapManager::IsSameKeyMapManagerApplicable
SameKeyMapManagerApplicable(old, new) == old.key_map = new.key_map

\* Mutant: the key map is rebuilt for a changed config only if the old key
\* map still applies (the negation lost).
UpdateSessions_Inverted(s, c, r) ==
  /\ config' = c
  /\ request' = r
  /\ key_map' = IF c # config /\ SameKeyMapManagerApplicable(config, c)
                THEN c.key_map ELSE key_map
  /\ sessions' = [id \in DOMAIN s |->
                   [s[id] EXCEPT !.settings = SettingsOf(c, key_map', r)]]

\* UpdateSessions(r): adopt the shared config c and the request r, rebuild the
\* key map only if the config change calls for it, and push everything to
\* every session of the map s.
UpdateSessions(s, c, r) ==
  /\ config' = c
  /\ request' = r
  /\ key_map' = IF c # config /\ ~SameKeyMapManagerApplicable(config, c)
                THEN c.key_map ELSE key_map
  /\ sessions' = [id \in DOMAIN s |->
                   [s[id] EXCEPT !.settings = SettingsOf(c, key_map', r)]]

\* MaybeUpdateConfig: nothing when the session left no config in the output,
\* otherwise ConfigHandler::SetConfig and Reload.
MaybeUpdateConfig(s) ==
  \/ /\ sessions' = s
     /\ UNCHANGED settingVars
  \/ \E c \in Configs :
       /\ shared_config' = c
       /\ UpdateSessions(s, c, request)

\* SendKey and SendCommand: the session runs the input.
SendKey(id) ==
  /\ is_available
  /\ id \in Live
  /\ lru' = MovedToHead(lru, id)
  /\ MaybeUpdateConfig([sessions EXCEPT ![id].last_command_time = now])
  /\ UNCHANGED <<is_available, timeVars, now, engine, loader>>

\* TestSendKey only reads the session, but it counts as a use of it.
TestSendKey(id) ==
  /\ is_available
  /\ id \in Live
  /\ lru' = MovedToHead(lru, id)
  /\ sessions' = [sessions EXCEPT ![id].last_command_time = now]
  /\ UNCHANGED <<is_available, settingVars, timeVars, now, engine, loader>>

-----------------------------------------------------------------------------
\* Mutant: the engine is replaced as soon as new modules are ready.
MaybeReloadEngine_Eager(s) ==
  IF loader = "ready"
  THEN loader' = "idle" /\ engine' \in {engine, engine + 1}
  ELSE UNCHANGED <<loader, engine>>

\* Engine::MaybeReloadEngine, called with the map s about to get a session:
\* the loaded modules replace the engine's only when no session uses them.
MaybeReloadEngine(s) ==
  IF Size(s) = 0 /\ loader = "ready"
  THEN /\ loader' = "idle"
       /\ engine' \in {engine, engine + 1}     \* Init of the new modules may fail
  ELSE UNCHANGED <<loader, engine>>

TooSoon == last_create_session_time # InfinitePast
           /\ now - last_create_session_time \in 0 .. CreateMinInterval - 1

Full == Size(sessions) >= MaxSessions

\* Mutant: the session used last goes.
Evicted_Head == IF Full /\ lru # << >> THEN {lru[1]} ELSE {}

\* The ids CreateSession removes to make room: the tail of the LRU list.
Evicted == IF Full /\ lru # << >> THEN {lru[Len(lru)]} ELSE {}

CreateSession(new) ==
  /\ is_available
  /\ ~TooSoon
  /\ ~(Full /\ lru = << >>)
  /\ last_create_session_time' = now
  /\ LET remaining == Without(sessions, Evicted) IN
       /\ new \notin DOMAIN remaining
       /\ MaybeReloadEngine(remaining)
       /\ lru' = <<new>> \o Unlinked(lru, Evicted)
       /\ UpdateSessions(
            With(remaining, new,
                 [settings |-> SettingsOf(config, key_map, request),
                  engine |-> engine', create_session_time |-> now,
                  last_command_time |-> InfinitePast,
                  application_alive |-> TRUE]),
            shared_config, request)
  /\ last_session_empty_time' = InfinitePast
  /\ UNCHANGED <<is_available, shared_config, last_cleanup_time, now>>

\* Mutant: emptiness is judged before the removal.
DeleteSessionIDs_Early(ids) ==
  /\ sessions' = Without(sessions, ids)
  /\ lru' = Unlinked(lru, ids)
  /\ last_session_empty_time' =
       IF last_session_empty_time = InfinitePast /\ Size(sessions) = 0
       THEN now ELSE last_session_empty_time

\* DeleteSessionID for each id of ids, at the current time.
DeleteSessionIDs(ids) ==
  LET remaining == Without(sessions, ids) IN
    /\ sessions' = remaining
    /\ lru' = Unlinked(lru, ids)
    /\ last_session_empty_time' =
         IF /\ ids \cap Live # {}
            /\ last_session_empty_time = InfinitePast
            /\ Size(remaining) = 0
         THEN now ELSE last_session_empty_time

\* DeleteSession always succeeds, for an unknown id too.
DeleteSession(id) ==
  /\ is_available
  /\ DeleteSessionIDs({id})
  /\ UNCHANGED <<is_available, settingVars, last_cleanup_time,
                 last_create_session_time, now, engine, loader>>

-----------------------------------------------------------------------------
\* The time Cleanup believes the machine was suspended.
SuspendTime ==
  IF /\ last_cleanup_time # InfinitePast
     /\ now - last_cleanup_time > 2 * Interval
  THEN now - last_cleanup_time - Interval
  ELSE 0

\* Mutant: an exited application is not a reason.
Expired_IdleOnly(s) ==
  \/ /\ s.last_command_time = InfinitePast
     /\ Elapsed(s.create_session_time, SuspendTime + CreateTimeout)
  \/ /\ s.last_command_time # InfinitePast
     /\ Elapsed(s.last_command_time, SuspendTime + CommandTimeout)

\* Cleanup's reasons to remove a session.
Expired(s) ==
  \/ ~s.application_alive
  \/ /\ s.last_command_time = InfinitePast
     /\ Elapsed(s.create_session_time, SuspendTime + CreateTimeout)
  \/ /\ s.last_command_time # InfinitePast
     /\ Elapsed(s.last_command_time, SuspendTime + CommandTimeout)

\* Cleanup's decision to stop the server, taken after the removals.
TimedOut(empty_time) ==
  timeout > 0 /\ Elapsed(empty_time, SuspendTime + timeout)

Cleanup ==
  /\ is_available
  /\ DeleteSessionIDs({id \in Live : Expired(sessions[id])})
  /\ is_available' = ~TimedOut(last_session_empty_time')
  /\ last_cleanup_time' = now
  /\ UNCHANGED <<settingVars, last_create_session_time, now, engine, loader>>

-----------------------------------------------------------------------------
Shutdown ==
  /\ is_available
  /\ is_available' = FALSE
  /\ UNCHANGED <<sessions, lru, settingVars, timeVars, now, engine, loader>>

\* Reload, ReloadAndWait and GetConfig.
Reload ==
  /\ is_available
  /\ UpdateSessions(sessions, shared_config, request)
  /\ UNCHANGED <<is_available, lru, shared_config, timeVars, now, engine,
                 loader>>

\* SetConfig: the input's config becomes the output's, then MaybeUpdateConfig.
SetConfig(c) ==
  /\ is_available
  /\ shared_config' = c
  /\ UpdateSessions(sessions, c, request)
  /\ UNCHANGED <<is_available, lru, timeVars, now, engine, loader>>

SetRequest(r) ==
  /\ is_available
  /\ UpdateSessions(sessions, shared_config, r)
  /\ UNCHANGED <<is_available, lru, shared_config, timeVars, now, engine,
                 loader>>

\* SendEngineReloadRequest accepted by the engine's DataLoader.
SendEngineReloadRequest ==
  /\ is_available
  /\ engine < MaxEngine
  /\ loader' = "running"
  /\ UNCHANGED <<is_available, sessions, lru, settingVars, timeVars, now,
                 engine>>

-----------------------------------------------------------------------------
\* Between commands: the loader thread ends with or without new modules, an
\* application exits, the wall clock moves (also backwards, or far ahead over
\* a suspend).

LoaderDone ==
  /\ loader = "running"
  /\ loader' \in {"idle", "ready"}
  /\ UNCHANGED <<is_available, sessions, lru, settingVars, timeVars, now,
                 engine>>

ApplicationExit(id) ==
  /\ id \in Live
  /\ sessions[id].application_alive
  /\ sessions' = [sessions EXCEPT ![id].application_alive = FALSE]
  /\ UNCHANGED <<is_available, lru, settingVars, timeVars, now, engine,
                 loader>>

ClockMoves(t) ==
  /\ now' = t
  /\ UNCHANGED <<is_available, sessions, lru, settingVars, timeVars, engine,
                 loader>>

-----------------------------------------------------------------------------
Next ==
  \/ \E id \in SessionIDs :
       \/ SendKey(id)
       \/ TestSendKey(id)
       \/ CreateSession(id)
       \/ DeleteSession(id)
       \/ ApplicationExit(id)
  \/ Cleanup
  \/ Shutdown
  \/ Reload
  \/ \E c \in Configs : SetConfig(c)
  \/ \E r \in Requests : SetRequest(r)
  \/ SendEngineReloadRequest
  \/ LoaderDone
  \/ \E t \in Times : ClockMoves(t)

Spec == Init /\ [][Next]_vars

\* The watch dog thread keeps sending Cleanup while the server serves.
FairSpec == Spec /\ WF_vars(Cleanup)
-----------------------------------------------------------------------------
\* Every variable holds a value of its type and the live ids are finitely
\* many: what session_handler.h declares of the handler's fields.
TypeOK ==
  /\ is_available \in BOOLEAN
  /\ Live \subseteq SessionIDs /\ IsFiniteSet(Live)
  /\ sessions \in [Live -> Session]
  /\ lru \in Seq(SessionIDs)
  /\ config \in Configs /\ shared_config \in Configs
  /\ key_map \in KeyMaps /\ request \in Requests
  /\ last_session_empty_time \in Stamps
  /\ last_cleanup_time \in Stamps /\ last_create_session_time \in Stamps
  /\ now \in Times
  /\ engine \in Nat
  /\ loader \in {"idle", "running", "ready"}

\* The session table as the abstract LRU map; what a session holds is left out.
Table == INSTANCE LruMap WITH
  Key <- SessionIDs, Value <- {0}, capacity <- MaxSessions,
  order <- lru, value <- [id \in Live |-> 0]

\* The handler uses session_map_ as a bounded LRU map: every command is one of
\* its operations.  A command that uses or creates a session takes no other
\* one away, except the least recently used one when it creates a session at
\* the limit; deletion and expiry leave the others' order alone.
TableIsLruMap == Table!Spec

\* last_session_empty_time_ is a real time exactly while there is no session:
\* no sequence of CreateSession (with or without eviction), DeleteSession and
\* Cleanup leaves a stale emptiness time or forgets to take one.
EmptyTimeTracksEmptiness ==
  (last_session_empty_time = InfinitePast) <=> (Live # {})

\* Between commands every session, however old, runs with the config that
\* ConfigHandler holds, the key map and the table of that config, and the
\* last request set: UpdateSessions reaches a session created after the
\* change as well as one created before, and the key map it skips rebuilding
\* is never stale.
SessionsShareSettings ==
  /\ TypeOK
  /\ \A id \in Live :
       sessions[id].settings =
         SettingsOf(shared_config, shared_config.key_map, request)

\* No session keeps a converter of a replaced engine: the modules a session
\* was built on are the engine's current ones (the comment "Some sessions
\* still use the current engine_" of MaybeReloadEngine).
SessionsUseCurrentEngine == \A id \in Live : sessions[id].engine = engine

\* Cleanup stops no server that has a session, whatever the time-outs: its
\* comment says "shutdown server if there is no active session and client
\* doesn't send any conversion request to the server for FLAGS_timeout sec".
CleanupSparesServerInUse ==
  [][Cleanup /\ Live' # {} => is_available']_vars

\* A session whose application has exited is removed in the end, whatever the
\* clock does, as long as the watch dog keeps sending Cleanup and the server
\* is not shut down.  (An id may be drawn again for a new session.)
DeadApplicationsReclaimed ==
  \A id \in SessionIDs :
    (id \in Live /\ ~sessions[id].application_alive)
      ~> (~(id \in Live /\ ~sessions[id].application_alive) \/ ~is_available)
=============================================================================
