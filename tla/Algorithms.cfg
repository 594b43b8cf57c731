\* FormatTestInput's formatters on every input of the bounds, and EvalPlot
\* on every result file of MC_Algorithms.
SPECIFICATION Spec
CONSTANTS
    MaxBytes = 70
    MaxSmall = 4200
    MaxDigits = 130
INVARIANT LiteralsDecode PlotMatchesRuns RaisesExactlyOnEdges
