\* One metadata call while other sessions change the database up to three times.
SPECIFICATION Spec
CONSTANTS
  None = None
  Objects <- MCObjects
  Worlds <- MCWorlds
  Setups <- MCSetups
  Requests <- MCRequests
  MaxChanges = 3
INVARIANTS
  ListingInv
  ListingsAreOfOneMoment
  ShownObjectsWereThere
  LastingObjectsAreListed
  SchemasAreOfOneMoment
  EachSchemaIsOfOneMoment
  DescriptionsMoveForward
