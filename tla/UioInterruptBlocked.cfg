SPECIFICATION FairSpec
PROPERTY StopsOnSignal
