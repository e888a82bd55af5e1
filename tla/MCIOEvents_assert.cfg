\* One descriptor, one user and one idle thread.
CONSTANTS
  Fds = {0}
  Users = {u1}
  Idlers = {i1}
  InitialSize = 2
  MaxContexts = 1
  MaxAdds = 1
  Used = {"READ", "WRITE"}
  Conditions = {"READ", "WRITE"}
SPECIFICATION Spec
INVARIANT TriggerAssertion
