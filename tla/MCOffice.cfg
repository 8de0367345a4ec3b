SPECIFICATION Spec
CONSTANTS
  Students = {s1, s2, s3}
  Offices = {o1, o2}
  SpecialOffice = special
  Nobody = nobody
SYMMETRY Symmetry
INVARIANTS CountsMatchQueues DesksBlockOnlyWhenIdle NoLostWakeup
  QueuesUsedAfterCreation OneRequestPerStudent EndsClean
