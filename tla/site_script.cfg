SPECIFICATION Spec
CONSTANTS
  Symbols <- MCSymbols
  Clusters <- MCClusters
  Asked <- MCAsked
  Files <- MCFiles
  Directories <- MCDirectories
INVARIANT
  ScriptsAreThoseNamed
