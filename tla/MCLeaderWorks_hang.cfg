SPECIFICATION ObligingWorksSpec
CONSTANTS
    tasks = tasks
    kv = kv
    Groups = {tasks}
    WorksOf <- TasksOnly
    Ailing = {}
    Slots = {1, 2}
    MaxFaults = 0
PROPERTY GracefulStopEnds
