SPECIFICATION FairSpec
CONSTANTS
  p1 = p1
  p2 = p2
  a1 = a1
  a2 = a2
  e1 = e1
  e2 = e2
  s1 = s1
  t1 = t1
  t2 = t2
  Peers = {p1, p2}
  NoPeer = NoPeer
  Addrs = {a1, a2}
  NoAddr = NoAddr
  Eps = {e1, e2}
  NoEp = NoEp
  Slots = {s1}
  NoSlot = NoSlot
  Tasks = {t1, t2}
  Commands <- SomeCommands
  Callers = {p1}
INVARIANTS
  InFlightExact
  HeldIsLive
  OneOwner
  SlabExact
PROPERTIES
  TasksEnd
  BrokenReplaced
