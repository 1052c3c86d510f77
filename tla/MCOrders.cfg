\* Two overlapping refunds of one order with its shipment, a dispute and a dashboard refund.
SPECIFICATION Spec
CONSTANTS
  RefundCalls = {r1, r2}
  Total = 2
  MaxDisputes = 1
SYMMETRY RefundSymmetry
INVARIANTS
  RefundsAreRecorded
  StatusIsBacked
  LeavesOnce
PROPERTIES
  KeepsBooks
CHECK_DEADLOCK FALSE
