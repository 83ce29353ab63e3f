SPECIFICATION Spec
CONSTANTS
  Key = {1, 2, 3}
  Tables = 4
  Deletes = {FALSE}
INVARIANT OutputSorted
INVARIANT MergeIsPick
