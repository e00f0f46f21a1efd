SPECIFICATION FairSpec
CONSTANTS
  Collectors = {c1}
  Pids = {p1, p2, p3}
  NoPid = NoPid
  NoFile = NoFile
  FastReuse = FALSE
  Unreadable = FALSE
PROPERTIES
  CollectionResumes
