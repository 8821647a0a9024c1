SPECIFICATION FairSpec
CONSTANTS
  p1 = p1
  p2 = p2
  Producers <- MCMulti
  Kind = "multi"
  MaxWrites = 2
INVARIANTS
  EmptyMeansSynchronised
  NotifiedMeansConsumed
  BoundaryNotificationWins
PROPERTIES
  ImplementsMailbox
  KeepsMailboxPromises
