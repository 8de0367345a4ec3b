SPECIFICATION Spec
CONSTANTS
  Students = {s1, s2}
  Offices = {o1, o2}
  SpecialOffice = special
  Nobody = nobody
PROPERTIES Termination ImplementsService
