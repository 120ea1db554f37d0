CONSTANTS
  Topic = {t1}
  Tokens = {"right", "wrong"}
  MaxLogin = 3
  MaxSocket = 2
  MaxSub = 2
  MaxEvent = 1
  MaxFault = 2
SPECIFICATION Spec
CONSTRAINT FewTroubles
INVARIANTS ViewsAreComplete StreamsAreSubscribed
  
CHECK_DEADLOCK FALSE
