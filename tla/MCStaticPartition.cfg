SPECIFICATION Spec
CONSTANTS
  Nodes <- MCNodes
  Jobs <- WorkingJobs
INVARIANTS EachIterationOnce LastIterationFlag
