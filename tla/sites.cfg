SPECIFICATION Spec
CONSTANTS
  Symbols <- MCSymbols
  Clusters <- MCClusters
  Asked <- MCAsked
  Files <- MCFiles
  Directories <- MCDirectories
INVARIANTS
  TypeOK
  RequestsGoToTheirSite
  ServedIsInside
  PlainScriptsAreRun
PROPERTIES
  LinksLeadOn
