SPECIFICATION Spec
CONSTANTS
  Producers = {usb}
  Main = main
  None = none
  Ack = ack
  Tasks = {f1}
  ReadOnlyMsgs <- MCReadOnly
  MaxMsgs = 2
  MaxReceived = 1
  MaxConns = 2
  SizeModulus = 256
INVARIANTS
  TypeOK
  WakeupSafe
  SendSafe
PROPERTY DeliverySpec
CHECK_DEADLOCK FALSE
