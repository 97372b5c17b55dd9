SPECIFICATION Spec
CONSTANTS
  Symbols = {BTCUSDT, ETHUSDT, ETHBTC, btcusdt, ethusdt, ethbtc}
  Adapters = {binance}
  BTCUSDT = BTCUSDT
  ETHUSDT = ETHUSDT
  ETHBTC = ETHBTC
  btcusdt = btcusdt
  ethusdt = ethusdt
  ethbtc = ethbtc
  binance = binance
  other = other
  Wanted <- LowerCase
  ReportedAs <- Upper
  Capacity = 1
  MaxUpdates = 2
INVARIANT
  UpdatesRouted
