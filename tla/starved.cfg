SPECIFICATION LiveSpec
CONSTANTS
  Client = {5, 6}
  PropertiesFile <- TwoServers
  CounterBits = 2
  MaxDown = 1
PROPERTIES SomeoneConnects
