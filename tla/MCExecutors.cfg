\* Two threads, one symbol, two trades a day, positions held for two candles.
CONSTANTS
    t1 = t1
    t2 = t2
    Threads = {t1, t2}
    Symbols = {"S"}
    MaxTrades = 2
    MaxOpen = 2
    MaxBars = 2
    NoSymbol = "none"
SPECIFICATION FairSpec
INVARIANTS TypeOK TradesBounded LossStopsTrading BreachHalts
PROPERTIES HeldForBars
