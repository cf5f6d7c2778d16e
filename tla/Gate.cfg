SPECIFICATION Spec
CONSTANTS
  Client = {a, b, c}  Proxy = px  Token = {t1, t2}  Admin = t1  Role = {"auditor"}  Req = {r1, r2}
  Chains <- MCChains
  MaxEntries = 2  TTL = 2  MaxConns = 2  MaxHeavy = 1  Rate = 1  Burst = 1  GlobalRate = 1  GlobalBurst = 1
  Pause = 1  MaxTime = 2  MaxPages = 3  MaxCalls = 2
SYMMETRY GateSymmetry
INVARIANTS GateInv RateWindow RevokedCutOff ValidNotThrottled
