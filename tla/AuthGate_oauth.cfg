SPECIFICATION Spec
CONSTANTS
  Req = {r1, r2}
  AgentKey = {}
  OAuthToken = {mot}
  IP = {ip}
  SessionTTL = 3
  OAuthTTL = 2
  FailTTL = 1
  RPM = 0
  Minute = 1
  Flight = 1
  Slack = 1
  Horizon = 4
  MaxCount = 0
  Fickle = {mot}
SYMMETRY Slots
PROPERTIES RevocationLag DeadTokenAnswer AdmissionCarriesOver
