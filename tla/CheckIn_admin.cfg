SPECIFICATION FairSpec
CONSTANTS
  Tablets = {t1}
  None = None
  Users = {u1}
  Keys = {k1}
  Secrets = {s1, s2}
  Nonces = {n1, n2}
  Challenges = {c1}
  Requests = {r1, r2}
  QR_TS_MAX_SKEW_SECONDS = 1
  CHALLENGE_TTL_SECONDS = 0
  DUPLICATE_WINDOW_SECONDS = 1
  NONCE_HISTORY_SIZE = 1
  TABLET_AUTH_MAX_SKEW_SECONDS = 1
  KioskDrift <- SlowKiosk
  ManualTimes = {1}
  MaxTime = 0
  MaxAdmin = 1
CHECK_DEADLOCK FALSE
PROPERTIES
  LedgerSpec
  EveryCheckAnswered
  ClaimsAreFinal
