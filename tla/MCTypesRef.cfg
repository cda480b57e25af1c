CONSTANTS
  PtrBytes = 8
  MaxWidth = 16
  MaxElems = 9
  Rank <- MCRank
  Delimiting <- MCDelimiting
  Libraries <- MCLibraries
  Decls <- MCDecls
  Exprs <- MCExprs
  Protos <- MCProtos
  TypeNames = {"S", "E"}
  NewNames = {"D", "E"}
  MemberNames = {"a", "b"}
  ConstNames = {"K0", "K2"}
  Bits = {32}
  Values = {1}
  MaxEdits = 2
SPECIFICATION Spec
INVARIANT RetypeInvalidates
CHECK_DEADLOCK FALSE
VIEW StateView
