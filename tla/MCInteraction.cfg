CONSTANTS
  MaxFields = 1
  MaxBody = 1
  MaxChanges = 1
  MaxFree = 3
SPECIFICATION Spec
CHECK_DEADLOCK FALSE
INVARIANT TypeOK
INVARIANT HeadConsumed
INVARIANT AnsweredAsDeserved
PROPERTY OneTransaction
PROPERTY HeadSentEnds
