SPECIFICATION FairSpec
CONSTANTS
  MaxPending <- MCMaxPending
  MaxHarmless <- MCMaxHarmless
INVARIANTS TypeOK HeartbeatKept SubscribedOnce
PROPERTIES SilentAfterStop TimerAsPromised EachSessionSubscribed WaitEnds Terminates
