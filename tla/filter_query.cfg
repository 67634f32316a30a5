SPECIFICATION Spec
CONSTANTS
  cOption = cOption
  cMulti = cMulti
  cNumber = cNumber
  cDate = cDate
  cText = cText
  opt1 = opt1
  opt2 = opt2
  word1 = word1
  NoValue = NoValue
  NoWord = NoWord
  Undefined = Undefined
  None = None
  Columns = {cOption, cMulti, cNumber, cDate, cText}
  TypeOf <- MCTypeOf
  Options <- MCOptions
  Numbers = {0, 1}
  Days = {0, 1}
  Words = {word1}
  MinMax <- MCNoMinMax
  Rows <- MCRows
  MaxFilters = 2
  MaxPending = 2
INVARIANTS
  QueryMeansOperator
