SPECIFICATION Spec
CONSTANTS
  Queues = {waiting_requests, running_requests}
  Data = {3, 4}
  Address = {n1, n2, n3, n4}
  NULL = NULL
INVARIANTS
  ListsSound
PROPERTIES
  ImplementsQueues
