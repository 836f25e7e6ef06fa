SPECIFICATION FairSpec
CONSTANT NoOutcome = NoOutcome
PROPERTY ExchangeSafe
PROPERTY ExchangeLive
CHECK_DEADLOCK FALSE
