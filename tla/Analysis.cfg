SPECIFICATION Spec
CONSTANTS
  ArtistA = ArtistA
  ArtistB = ArtistB
  Folders = Folders
  Together = Together
  None = None
  Worker = {w1, w2}
  Config = {ArtistA, ArtistB, Folders, Together}
  NFiles = 2
  Settings <- MCSettings
  MaxUpsets = 2
SYMMETRY WorkerSymmetry
INVARIANTS ErrorsExplained EvidenceWhole

CHECK_DEADLOCK FALSE
