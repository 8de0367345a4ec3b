SPECIFICATION Spec
CONSTANTS
  Students = {s1}
  Offices = {o1, o2}
  SpecialOffice = special
  Nobody = nobody
PROPERTIES Termination
CHECK_DEADLOCK FALSE
