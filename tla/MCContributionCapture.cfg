SPECIFICATION FairSpec
INVARIANTS PublishedIsSnapshot EvidenceResolves EntriesReconstruct
PROPERTIES CaptureEnds
CONSTANTS
  Absent = Absent
  Unread = Unread
  Digests = {"x", "y", "l"}
  Links = {"l"}
  Paths = {1, 2}
  Excluded = {2}
  Extras = {2}
  Shared = {"x"}
  Writers = {"capture", "rival"}
  MaxReads = 2
  Held <- HeldMC
  Starts <- StartsMC
  Limit = 2
  MaxCaptureAttempts = 2
  MaxEdits = 2
\* A capture that has ended does nothing more.
CHECK_DEADLOCK FALSE
