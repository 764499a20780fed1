\* A run with debug symbols, a backtest, and another run with debug symbols.
SPECIFICATION HostSpec
CONSTANTS
  NumRuns = 3
  Vanilla = {1, 3}
  Backtests = {2}
INVARIANTS
  LeaksOnlyUnguarded
  ForeignServiceOnlyUnguarded
  SummaryUnlessServiceDied
\* The runs are bounded.
CHECK_DEADLOCK FALSE
