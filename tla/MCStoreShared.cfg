\* Two installs and a prune share one package.
SPECIFICATION Spec
CONSTANTS
  p1 = p1  p2 = p2  p3 = p3  t1 = t1  t2 = t2  t3 = t3  q1 = q1  q2 = q2
  f1 = f1  f2 = f2  r1 = r1
  Process = {q1, q2}
  Task = {t1, t2}
  Package = {p1}
  File = {f1, f2}
  Owner <- PairOwner
  Wanted <- PairWanted
  Integrity <- PairIntegrity
  Local = {}
  OfflineTask = {}
  Pruner = {r1}
  DownloadPermits = 1
  ExtractPermits = 1
INVARIANT VerifiedOnly
PROPERTY EnsureEnds
