SPECIFICATION SceneSpec
CONSTANTS
  c1 = c1
  c2 = c2
  k1 = k1
  o1 = o1
  t1 = t1
  t2 = t2
  NoContent = NoContent
  NoTimer = NoTimer
  a = a
  w1 = w1
  w2 = w2
  b = b
  w3 = w3
  t3 = t3
  OneShot = {a, b}
  Watch = {w1, w2, w3}
  KeyOf <- KeyOfOne
  Key = {k1}
  Refresh = {b}
  Once = {w3}
  Always = {w1}
  Owner = {o1}
  Content = {c1, c2}
  Timer = {t1, t2, t3}
  Policies = {"idle", "persistent"}
  MaxLease = 2
  MaxCasts = 2
SYMMETRY Contents
INVARIANTS
  RefreshForcesFetch
