SPECIFICATION Spec
CONSTANTS
  Symbols = {BTCUSDT, ETHUSDT, ethusdt}
  Adapters = {binance, other}
  BTCUSDT = BTCUSDT
  ETHUSDT = ETHUSDT
  ETHBTC = ETHBTC
  btcusdt = btcusdt
  ethusdt = ethusdt
  ethbtc = ethbtc
  binance = binance
  other = other
  Wanted <- MixedCase
  ReportedAs <- Upper
  Capacity = 1
  MaxUpdates = 2
INVARIANTS
  TypeOK
  UpdatesFindWorker
  ProviderBeforeBoot
PROPERTIES
  UpdatesDrain
  ReplacedWorkersEnd
