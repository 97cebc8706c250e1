SPECIFICATION LoopSpec
CONSTANTS
  QueueLimit = 3
  DEBUG = TRUE
  ExecuteSet = TRUE
INVARIANTS
  LoopTypeOK
  ClockAlive
  KilledOnlyAtStartup
PROPERTIES
  AlarmSwept
  InterruptHonoured
  OnlyLostWakeupStopsSweeps
  AlarmWakesSleeper
CHECK_DEADLOCK FALSE
