CONSTANTS
    ALARM_MAX = 2
    ALARM_OFF_TIMEOUT = 3
    CountModulus = 5
SPECIFICATION InputFairSpec
INVARIANTS AlarmInv AlarmWindow NoFalseAlarm
PROPERTIES ChangeRaisesAlarm
