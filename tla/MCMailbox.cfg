SPECIFICATION MailboxSpec
CONSTANTS
  i1 = i1
  i2 = i2
  e1 = e1
  Item = {i1, i2}
  Currency = Currency
  Event = {e1}
  EventPost <- SecondPost
  EventReward <- PaysItem
  MaxPost = 3
  MaxCursor = 6
INVARIANTS
  OneOpenMailPerItem
  EveryMailPaysOnce
  CursorTellsOfChanges
CHECK_DEADLOCK FALSE
