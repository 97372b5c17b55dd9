SPECIFICATION Spec
CONSTANTS
  Symbols = {BTCUSDT, ETHUSDT}
  Adapters = {binance, other}
  BTCUSDT = BTCUSDT
  ETHUSDT = ETHUSDT
  ETHBTC = ETHBTC
  btcusdt = btcusdt
  ethusdt = ethusdt
  ethbtc = ethbtc
  binance = binance
  other = other
  Wanted <- SharedSymbol
  ReportedAs <- Upper
  Capacity = 1
  MaxUpdates = 1
INVARIANT
  OneWorkerPerSymbol
