SPECIFICATION Spec
SYMMETRY Symmetry
CONSTANTS
  r1 = r1  r2 = r2  r3 = r3  r4 = r4
  u1 = u1  u2 = u2  u3 = u3  f1 = f1  f2 = f2  f3 = f3  k1 = k1  k2 = k2
  Request = {r1, r2, r3, r4}
  User = {u1, u2, u3}
  File = {f1, f2, f3}
  Key = {k1, k2}
  sender <- Senders
  file_of <- OwnFiles
  key_of <- SharedKey
  capacity = 1
  Unit = 2
  refill_per_second = 1
  MaxTime = 2
  MaxRestarts = 1
  Page = {p1, p2, p3}
  Start = p1
  Root = p2
  Walker = {"link", "envelope", "async_envelope"}
  MaxPages = 4
  Process = {proc}
  Url = {a}
  Body = {x}
  Encoding = {TRUE, FALSE}
  MaxFollowed = 2
  MaxRedirects = 1
  MaxAttempts = 2
  MaxTape = 3
  Run = {run1, run2}
  Text = {t1, t2}
  Inputs = {i1, i2}
  Second = {1, 2}
  NoJob = NoJob
INVARIANTS
  BurstsAreBounded  RowsLostByOverlapOnly EndsAsTheSite
  ReplayIsSound ReplayReproduces SameWork LastRunIsKept
