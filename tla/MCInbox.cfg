SPECIFICATION InboxSpec
CONSTANTS
  Producer = {p1, p2}
  Msg = {a, b}
  NoMsg = NoMsg
  MaxSend = 4
INVARIANTS
  InboxTypeOK
  HandedIsSpent
PROPERTIES
  ImplementsChannel
