SPECIFICATION Spec
CONSTANTS
  Req = {r1, r2}
  AgentKey = {agk}
  OAuthToken = {mot}
  IP = {ip}
  SessionTTL = 1
  OAuthTTL = 1
  FailTTL = 1
  RPM = 1
  Minute = 1
  Flight = 0
  Slack = 1
  Horizon = 3
  MaxCount = 1
  Fickle = {}
SYMMETRY Slots
INVARIANTS BudgetPerMinute GuessOverrun
