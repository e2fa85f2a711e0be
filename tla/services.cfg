SPECIFICATION ClientsSpec
CONSTANTS
  MemberServices = {mqtt, gpio}
  RoutineServices = {wifi}
  SshClients = {ssh}
  MaxTasks = 4
  Fns = {1, 2, 3, 4}
  MaxServiceTasks = 2
CHECK_DEADLOCK FALSE
INVARIANTS TasksTracked OwnTasksOnly
