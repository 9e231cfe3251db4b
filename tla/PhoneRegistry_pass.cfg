SPECIFICATION Spec
CONSTANTS
    People = {ann, bob}
    Tokens = {t1, t2}
    Sandbox = {t1}
    Pushers = {dispatcher, dashboard}
    MaxOps = 2
    MaxEvents = 2
INVARIANTS TypeOK RungOnce
PROPERTIES GoodKept
CHECK_DEADLOCK FALSE
