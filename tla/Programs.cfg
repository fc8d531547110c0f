CONSTANTS
    k1 = k1
    v1 = v1
    v2 = v2
    Procs = {p1, p2}
    Keys = {k1}
    Values = {v1, v2}
    Absent = Absent
    WriterKeys <- MCWriterKeys
    DemoKeys <- MCDemoKeys
    ScriptValue = v1
    BridgeCalls <- MCBridgeCalls
    Ticks = 1
    NoProc = NoProc
    Ghost = Ghost
    MaxKills = 2
    MaxFaults = 1
SPECIFICATION FairSpec
INVARIANTS TypeOK OutcomesTell
PROPERTIES KeepsContract Recovers TroubleIsOver
