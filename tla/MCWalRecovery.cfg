\* All files of up to four cells, whole and with the last cell cut off.
SPECIFICATION Spec
CONSTANTS
  Deleted = Deleted
  Limit32 = 9
  IovMax = 4
  Keys <- MCKeys
  Values <- MCValues
  Records <- MCRecords
  Files <- MCFiles
  Cuts = {0, 1, 12, 13}
  MaxCells = 4
INVARIANTS
  TypeOK
  KeepsLongestPrefix
  StopsForTheReason
  ReplayIsLastWins
