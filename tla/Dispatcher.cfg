\* Routing tables from up to three location statements; every target of up
\* to four characters and a few longer ones with an extension, answered by
\* a static handler over a small disk.  Dispatch can always be called
\* again: no deadlock.
CONSTANTS
  LocationConfigs <- MCLocationConfigs
  Urls <- MCTargets
  Disk <- MCDisk
SPECIFICATION Spec
INVARIANT TypeOK
INVARIANT MatchIsLongestSegmentPrefix
INVARIANT ServedByDeclaredRoute
INVARIANT HandlerConfiguredByItsLocation
INVARIANT StaticServesRoutedFile
