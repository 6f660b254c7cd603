SPECIFICATION Spec
CONSTANTS
  p1 = p1
  p2 = p2
  i1 = i1
  i2 = i2
  i3 = i3
  i4 = i4
  magic = magic
  weights = weights
  junk = junk
  Processes <- ProcessSet
  Model <- ThreeChunks
  Bodies <- EveryBody
  Id = "model"
  BuiltIn <- MCBuiltIn
  Registries <- MCRegistries
  NoChecksum = NoChecksum
  Hole = Hole
  Inodes <- InodeSet
  Absent = Absent
SYMMETRY Symmetry
INVARIANT TypeOK
INVARIANT PublishedVerified
INVARIANT PublishedWhenQuiet
