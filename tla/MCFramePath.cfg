SPECIFICATION Spec
CONSTANTS
  Radix = 4
  MaxPayload = 2
  None = None
  Configs <- MCConfigs
  Kind = {6, 200}
  Corr = {0, 1}
  Payload <- MCPayload
  HostFrames <- MCHostFrames
  MaxFrames = 2
CHECK_DEADLOCK FALSE
INVARIANTS
  ReadAsMeant
  EmitEncodes
  PollBoundsAgree
