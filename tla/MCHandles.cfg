SPECIFICATION Spec
CONSTANTS
  Plugins = {"p", "q"}
  Clients = {"c"}
  ClientOwner <- OneOwner
  Objects = {o}
  Forwards = {f1, f2, f3, f4}
  MaxJobs = 2
SYMMETRY Interchangeable
INVARIANTS
  HandlesInvariant
  HeldOnce
  CallingStays
PROPERTIES
  NoCallAfterDelete
