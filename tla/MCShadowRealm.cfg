CONSTANTS
  Realms = {r1, r2, r3}
  NoRealm = NoRealm
  MaxDepth = 5
SPECIFICATION FairSpec
INVARIANTS
  RealmTypeOK
  FramesHold
  TerminateTakesEffect
  ShadowListIsLive
PROPERTY
  TerminationHappens
CHECK_DEADLOCK FALSE
