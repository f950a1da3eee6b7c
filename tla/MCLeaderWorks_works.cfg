SPECIFICATION FairWorksSpec
CONSTANTS
    tasks = tasks
    kv = kv
    Groups = {tasks, kv}
    WorksOf <- WorkLists
    Ailing = {kv}
    Slots = {1, 2}
    MaxFaults = 1
INVARIANTS OneOfEach ReportIsTrue
PROPERTIES WorksFollowRole ShutdownCompletes
