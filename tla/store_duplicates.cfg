SPECIFICATION Spec
CONSTANTS
  chat = chat
  msg = msg
  f1 = f1
  f2 = f2
  payload = payload
  t1 = t1
  t2 = t2
  Threads = {t1, t2}
  Bodies <- MixedBodies
  Requests = {"POST"}
  Faults = {}
  MaxTime = 2
INVARIANT AnswerTellsDuplicates
