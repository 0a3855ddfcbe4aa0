CONSTANTS
  SizeK = 2
  AllocResults = {"ok", "null"}
  ElemSizes = {4, 8}
  MetaEnvs <- MCMetaEnvs
  NumEnvs <- MCNumEnvs
  DefaultNum = 3
  MaxVectorSize = 7
  SizeMax = 15
  CsvOpenResults = {TRUE, FALSE}
SPECIFICATION Spec
INVARIANT CatalogOnSuccess
