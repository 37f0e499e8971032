CONSTANTS
  Off = Off
  None = None
  Zero = Zero
  g = g
  b1 = b1
  b2 = b2
  c1 = c1
  c2 = c2
  c3 = c3
  tU = tU
  tT = tT
  tK = tK
  tR = tR
  tQ = tQ
  tV = tV
  f1 = f1
  f2 = f2
  u1 = u1
  t1 = t1
  r1 = r1
  w1 = w1
  gc = gc
  b1c = b1c
  b2c = b2c
  c1c = c1c
  c2c = c2c
  c3c = c3c
  sh = sh
  ax = ax
  ay = ay
  az = az
  p1 = p1
  p2 = p2
  p3 = p3
  n1 = n1
  n2 = n2
  m1 = m1
  rj = rj
  i1 = i1
  i2 = i2
SPECIFICATION MCSpec
INVARIANTS
  MempoolInv
  PoolSpendable
  
  OneInFlight
  StallNoticed
  HandshakeAgrees
  PeersAccounted
  
  
  
  GroundSound
  
  
  CallsAgree
  
  
  RulesSound
  
  
CHECK_DEADLOCK FALSE
