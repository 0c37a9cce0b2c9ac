\* Two CPUs with tickets that wrap at 3; a buffer of 4 bytes with indices that
\* wrap at 8.
CONSTANTS
  CPUs = {c1, c2}
  Wrap = 3
  Size = 4
  IndexWrap = 8
  Byte = {0, 1}
  MaxLen = 5
SPECIFICATION MCSpec
INVARIANTS
  FirstComeFirstServed
  WordTellsState
PROPERTIES
  TicketIsServed
  ImplementsFifo
