SPECIFICATION FairSpec
CONSTANTS
  s1 = s1
  s2 = s2
  s3 = s3
  k1 = k1
  k2 = k2
  o1 = o1
  o2 = o2
  r1 = r1
  r2 = r2
  SessionIDs = {s1, s2, s3}
  KeyMaps = {k1, k2}
  OtherSettings = {o1}
  Requests = {r1, r2}
  Times = {0, 400}
  MaxEngine = 1
  timeout <- DefaultTimeout
  max_session_size = 2
  create_session_min_interval = 10
  watch_dog_interval = 180
  last_command_timeout = 300
  last_create_session_timeout = 300
INVARIANT SessionsShareSettings
INVARIANT SessionsUseCurrentEngine
INVARIANT EmptyTimeTracksEmptiness
PROPERTY TableIsLruMap
PROPERTY DeadApplicationsReclaimed
