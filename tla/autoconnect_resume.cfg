\* Three input events from either listener; every pause is eventually lifted.
CONSTANTS
  MaxEvents = 3
SPECIFICATION FairSpec
PROPERTY EventuallyResumes
