CONSTANTS
  Creators = {"offerer"}
  MaxChannels = 2
  MaxCreates = 3
  MaxWire = 1
SPECIFICATION Spec
INVARIANTS StackInv MessagesStay
 
CHECK_DEADLOCK FALSE
