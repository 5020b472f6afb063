\* One install, two store tasks, and an offline reader; one permit of each kind.
SPECIFICATION Spec
CONSTANTS
  p1 = p1  p2 = p2  p3 = p3  t1 = t1  t2 = t2  t3 = t3  q1 = q1  q2 = q2
  f1 = f1  f2 = f2  r1 = r1
  Process = {q1, q2}
  Task = {t1, t2, t3}
  Package = {p1, p2, p3}
  File = {f1, f2}
  Owner <- SoloOwner
  Wanted <- SoloWanted
  Integrity <- SoloIntegrity
  Local = {p2}
  OfflineTask = {t3}
  Pruner = {}
  DownloadPermits = 1
  ExtractPermits = 1
INVARIANTS MarkerSound HeldIntact
PROPERTIES KeepsPromise EnsureEnds
