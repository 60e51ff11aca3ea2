SPECIFICATION Spec
CONSTANTS
  Calls = {c1, c2}
  Asker = asker
  Bot = bot
  Others <- MCOthers
  MaxSaid = 3
  Senders = {s1, s2}
  Pages = 3
  Deletable = TRUE
  MaxPresses = 2
  MaxEffort = 4
  MaxTurns = 2
INVARIANTS TypeOK RepliedIsTrue AnswersAreTheAskers IndexIsThePage
PROPERTY EveryCallEnds
CHECK_DEADLOCK FALSE
