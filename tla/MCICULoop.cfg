SPECIFICATION FairSpec
CONSTANTS
  Coros = {c1, c2}
  Files = {f1}
  MaxData = 2
  MaxRead = 2
INVARIANTS NoLostRequest NoForgottenReadiness
PROPERTIES DataIsDelivered
