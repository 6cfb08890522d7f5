CONSTANTS
    Tenants = {t1}
    Groups = {g1}
    Poll = 1
    Grace = 2
    Ttl = 4
    Work = 1
    MaxTime = 9
    CanCrash = TRUE
    Absent = Absent
    NoAnswer = {no_answer}
SPECIFICATION Spec
INVARIANTS TypeOK NoFalseAlarm NoGap NoZombie Escalates
