SPECIFICATION Spec
CONSTANTS
  SegOf <- MCSegOf
  Archives <- MCArchives
  MaxTries = 2
  MaxFaults = 1
  
PROPERTIES LoadingEnds
