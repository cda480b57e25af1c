CONSTANTS
  PtrBytes = 8
  MaxWidth = 16
  MaxElems = 9
  Rank <- MCRank
  Delimiting <- MCDelimiting
  Libraries <- MCKeyLibraries
  Decls <- MCDecls
  Exprs <- MCExprs
  Protos <- MCProtos
  TypeNames = {"S"}
  NewNames = {"D", "E"}
  MemberNames = {"a", "b", "a@0=i32,b"}
  ConstNames = {"K0", "K2"}
  Bits = {32}
  Values = {1}
  MaxEdits = 2
SPECIFICATION Spec
INVARIANT SelfDelimiting
CHECK_DEADLOCK FALSE
VIEW StateView
