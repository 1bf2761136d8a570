SPECIFICATION Spec
CONSTANTS
  Tablets = {t1, t2}
  None = None
  Users = {u1, u2}
  Keys = {k1}
  Secrets = {s1, s2}
  Nonces = {n1, n2}
  Challenges = {c1, c2}
  Requests = {r1, r2}
  QR_TS_MAX_SKEW_SECONDS = 1
  CHALLENGE_TTL_SECONDS = 0
  DUPLICATE_WINDOW_SECONDS = 1
  NONCE_HISTORY_SIZE = 1
  TABLET_AUTH_MAX_SKEW_SECONDS = 0
  KioskDrift <- SlowKiosk
  ManualTimes = {}
  MaxTime = 1
  MaxAdmin = 0
SYMMETRY Symmetry
CHECK_DEADLOCK FALSE
INVARIANTS
  IInv
  OneRecordPerNonce
  RecordJustified
  DuplicatesOnlyIfOverlapping
  ChallengeRefusalHasCause
PROPERTIES
  LedgerSpec
