SPECIFICATION SealSpec
CONSTANTS
  job = job
  preview = preview
  holder = holder
  s1 = s1
  s2 = s2
  c1 = c1
  none = none
  JobOwners <- OneJob
  Previews <- OnePreview
  Executors <- NoExecutors
  Holders <- OneHolder
  Sealers <- TwoSealers
  Controllers <- OneController
  NoSealer = none
SYMMETRY SealSymmetry
INVARIANTS SealExcludesOwners UncountedOwnersAreLate SealedStaysDrained NoLockCycle
PROPERTY SealRestsOnDrain
