SPECIFICATION CompactSpec
CONSTANTS
  Strategies <- MCStrategies
  Candles <- MCCandles
  Rates <- MCRates
  Unit = 100
  MaxCandles = 4
  Limits <- MCLimits
  Sweeps <- MCSweeps
INVARIANTS
  PositionsAreSound
  AccountIsSound
  PrecheckIsSound
PROPERTIES
  ImplementsGridEngine
