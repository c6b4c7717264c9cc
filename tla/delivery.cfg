\* Two requests at once, events of gateways and of strangers, secrets replaced while they arrive.
SPECIFICATION FairSpec
CONSTANTS
  Handlers = {h1, h2}
  Happenings <- MCHappenings
  Invented <- MCInvented
  Content <- MCContent
  Urls <- MCUrls
  Named <- MCNamed
  Environments <- MCEnvironments
  Dashboards <- MCDashboards
  WrongSecrets <- MCWrong
  MaxCrashes = 1
  Nodes <- MCNodes
  Fields <- MCFields
  Items <- MCItems
  Height <- MCHeight
  Normalised <- MCNormalised
  Within <- MCWithin
  Private <- MCPrivate
INVARIANTS
  FilingIsSound
  OneRowPerEvent
  AcknowledgedIsOnDisk
  LogWithholds
PROPERTIES
  FilesEvents
  EveryEventIsFiled
