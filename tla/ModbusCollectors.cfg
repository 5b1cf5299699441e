\* Both programs, with all the links they have.
SPECIFICATION FairSpec
CONSTANT
  Programs = {"daq2000", "edge11"}
INVARIANT
  NoneLeftOpen
PROPERTY
  Acquires
