SPECIFICATION MCSpec
CONSTANTS
  MaxSize = 7
  PackageId <- MCPackageId
  TableName <- MCTableName
  ExtensibleTable <- MCExtensibleTable
  CustomAction <- MCCustomAction
  Statements <- MCStatements
  FurtherStatements <- MCFurtherStatements
  RequestUser <- MCRequestUser
  RequestRoles <- MCRequestRoles
  RequestAction <- MCRequestAction
  RequestPath <- MCRequestPath
  MaxStatements = 2
INVARIANTS CrudAtTableLevel
CHECK_DEADLOCK FALSE
