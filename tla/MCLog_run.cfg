SPECIFICATION Spec
CONSTANTS
  t1 = t1
  t2 = t2
  bad = bad
  junk = junk
  Threads = {t1, t2}
  Vars <- MCVars
  VarType <- MCVarType
  Static = {"x", "y", "logs"}
  Default <- MCDefault
  Listeners = {"l0", "l1", "l2", "l3", "initer"}
  FirstCbs <- MCFirstCbs
  Files <- MCFiles
  Contents <- MCContents
  Bad = bad
  Junk = junk
  Eq <- MCEq
  Works <- MCWorks
  LogNames = {"root", "a", "b"}
  Initer = "initer"
  HasD = FALSE
CHECK_DEADLOCK FALSE
INVARIANTS
  ListenersRight  Delivered
PROPERTIES
  LoadsFresh CallsReturn
