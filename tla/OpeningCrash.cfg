\* One process that may end once while it upgrades the database of an earlier release.
SPECIFICATION OpeningSpec
CONSTANTS
  Processes = {p1}
  Files = {f1, f2}
  NoFile = NoFile
  Releases = {5}
  MaxMishaps = 1
INVARIANT OnlyCorruptGivenUp
