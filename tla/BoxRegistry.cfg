SPECIFICATION Spec
CONSTANTS
  t1 = t1
  t2 = t2
  t3 = t3
  alice = alice
  bert = bert
  NoName = NoName
  NoId = NoId
  Tuples <- SomeTuples
  Names <- SomeNames
  MaxBoxes = 4
  Ties = TRUE
INVARIANTS RegistryOK ActiveResolves
PROPERTIES NeverGoesBack
