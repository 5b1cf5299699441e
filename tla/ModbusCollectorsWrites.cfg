\* The program that writes when it connects.
SPECIFICATION Spec
CONSTANT
  Programs = {"daq2000"}
INVARIANT
  WritesOnConnect
