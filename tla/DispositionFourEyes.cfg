SPECIFICATION DispositionSpec
CONSTANTS
    r1 = r1
    r2 = r2
    u1 = u1
    u2 = u2
    u3 = u3
    Users = {u1, u2, u3}
    Supervisors = {u1, u3}
    NoUser = NoUser
    Requests = {r1, r2}
    UserOf <- MCUserOf
    AlarmOf <- MCAlarmOf
    FalsePositive <- MCFalsePositive
CHECK_DEADLOCK FALSE
INVARIANT
    FourEyes
