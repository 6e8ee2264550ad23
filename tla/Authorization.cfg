SPECIFICATION Spec
CONSTANTS
  me = me
  dev = dev
  s1 = s1
  s2 = s2
  web = web
  root = root
  app = app
  bare = bare
  Null = Null
  Kinds = {"user", "service_account"}
  Self = me
  UserGroups = {dev}
  Servers = {s1, s2}
  ServerGroups = {web}
  Principals = {root, app}
  SelfTokens = {bare, app}
  Grants <- GrantCatalog
  AllowLists <- AllowCatalog
  DefaultTTL = 3
INVARIANTS
  IndInv
  QuietIsExact
PROPERTIES
  AllowIsCurrent
  PrivilegesAreGranted
  RecordingNotLost
