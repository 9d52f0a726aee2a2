CONSTANTS
  m1 = m1
  m2 = m2
  m3 = m3
  m4 = m4
  h = h
  i = i
  Magnets = {m1, m2, m3, m4}
  HashOf <- Proxies
  NoHash = nohash
  Sweepers = {s1, s2}
  MaxSweeps = 2
  MaxCrashes = 1
SPECIFICATION Spec
PROPERTY CleanAfterBoot
CHECK_DEADLOCK FALSE
