SPECIFICATION MCSpec
CONSTANTS
  Evts = {e1, e2, e3}
  NoEvt = none
  End = 3
  TimeEvts = {t1, t2, t3}
  null = null
  Ticks = {1, 2}
  States = {s1, s2, s3, s4}
  top = top
  MaxDepth = 4
  InSize = 6
  OutSize = 16
  ErrorLength = 3
  Lengths = {2, 3, 7}
  Chars = {1, 5}
  MaxInput = 4
  RxFifoSize = 2
  MaxPackets = 4
SYMMETRY Symmetry
INVARIANTS
  LibrariesTypeOK
  ExitsAndEntries
  BuffersKept
PROPERTIES
  QueueSpec
  TimersSpec
  DriverKept
