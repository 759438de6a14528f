\* Two workers, two adding clients, three tasks for two blocks; with and without
\* cycling, with and without the managing operations. A deleted pool stops.
CONSTANTS
  Workers = {w1, w2}
  Clients = {c1, c2}
  MaxTasks = 3
  max_task_count = 2
  MaxManage = 3
SPECIFICATION Spec
INVARIANTS NoStrandedTask BlocksConserved OnceInOrder
PROPERTIES EveryTaskServed
CHECK_DEADLOCK FALSE
