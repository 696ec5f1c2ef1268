SPECIFICATION QSpec
CONSTANTS
  Msg = {1, 2, 3, 4}
  Inbound <- MCInbound
  MayCancel = TRUE
  MaxFaults = 2
INVARIANT HandledBeforeForgotten
PROPERTIES MessagesSettle ReadyTracksSessions
CHECK_DEADLOCK FALSE
