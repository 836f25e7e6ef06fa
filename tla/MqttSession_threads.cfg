SPECIFICATION FairSpec
CONSTANTS
  mqttwriter = mqttwriter
  mqttrunner = mqttrunner
  Commands = {c1}
  MaxMessages = 2
  Bounds <- MCBounds
INVARIANT MessagesOnce
INVARIANT StopIsClean
PROPERTY SubscribedAgain
PROPERTY CommandAnswered
CHECK_DEADLOCK FALSE
