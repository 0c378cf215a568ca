SPECIFICATION Spec
CONSTANTS
  None = None
  port1 = port1
  port2 = port2
  txt1 = txt1
  txt2 = txt2
  Ports <- TwoPorts
  Txts <- TwoTxts
INVARIANT GroupIsEmptyWhenChecked
CHECK_DEADLOCK FALSE
