SPECIFICATION FairSpec
CONSTANTS
  Callers = {t1, t2}
  Admins = {a}
  Probers = {t2}
  Kinds = {"run", "version", "save", "login"}
  Conns = {c1, c2}
  NFields = 2
  Env <- EnvParams
  Profiles <- TwoProfiles
  Permits = 1
  MaxAttempts = 3
  MaxCalls = 1
  MaxOutages = 1
  MaxAdmin = 1
  None = None
INVARIANTS  NoStaleTarget OutlivesRestart
PROPERTIES CallsReturn
