SPECIFICATION LiveSpec
CONSTANTS
  Client = {5, 6}
  PropertiesFile <- ThreeServers
  CounterBits = 2
  MaxDown = 2
PROPERTIES FindsRunning LoneClientConnects
