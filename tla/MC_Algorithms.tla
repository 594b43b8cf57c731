--------------------------- MODULE MC_Algorithms ---------------------------
(* The two pure algorithms of the repository checked in one run: a state   *)
(* is either FormatTestInput printing one input (part "hex") or EvalPlot   *)
(* processing one result file (part "eval"), so the two input sets add up  *)
(* instead of multiplying.                                                 *)
EXTENDS Integers, Sequences

CONSTANTS MaxBytes, MaxSmall, MaxDigits

VARIABLES part, kind, input, out, file, pc, lat, thr, err, fig

\* --start and --end values a .cfg cannot write: inside the string, at and
\* past both ends, -1 (the default), and negative.
MCPositions == {-40, -3, -2, -1, 0, 1, 2, 32, 33, 40}

\* Result files: three runs over the x values 0 and 50 with 0, 1, 2 or 4
\* seconds each, of 0, 1 or 2 points; and files breaking each assert of
\* ReadResults (two runs, runs of two lengths, another x).
Xs == <<0, 50>>
Series(ys) == [i \in DOMAIN ys |-> <<Xs[i], ys[i]>>]
Times == {0, 1, 2, 4}
MCFiles ==
    UNION {{<<Series(a), Series(b), Series(c)>> : a, b, c \in [1..n -> Times]} : n \in 0..2}
    \cup {<<Series(<<1>>), Series(<<1>>)>>,
          <<Series(<<1>>), Series(<<1, 2>>), Series(<<1>>)>>,
          <<Series(<<1>>), Series(<<2>>), <<<<50, 1>>>>>>}

Hex == INSTANCE FormatHex WITH Positions <- MCPositions
Eval == INSTANCE EvalPlot WITH NumBlocks <- 5000, Files <- MCFiles

hexVars == <<kind, input, out>>
evalVars == <<file, pc, lat, thr, err, fig>>

Init ==
    \/ part = "hex" /\ Hex!Init
       /\ file = <<>> /\ pc = "idle" /\ lat = <<>> /\ thr = <<>> /\ err = "none" /\ fig = <<>>
    \/ part = "eval" /\ Eval!EvalInit /\ kind = "none" /\ input = <<>> /\ out = <<>>

Next ==
    \/ part = "hex" /\ Hex!Next /\ UNCHANGED <<part, evalVars>>
    \/ part = "eval" /\ Eval!EvalNext /\ UNCHANGED <<part, hexVars>>

Spec == Init /\ [][Next]_<<part, hexVars, evalVars>>

\* FormatTestInput prints Solidity hex literals that read back as its input
\* (FormatHex's LiteralsDecode).
LiteralsDecode == Hex!LiteralsDecode

\* EvalPlot draws each x at the median of the three runs, its error bars
\* spanning their least and greatest, and the throughput as NUM_OF_BLOCKS
\* over those (EvalPlot's PlotMatchesRuns).
PlotMatchesRuns == Eval!PlotMatchesRuns

\* EvalPlot raises exactly on a file breaking an assert, with no points, or
\* with a 0-second run (EvalPlot's RaisesExactlyOnEdges).
RaisesExactlyOnEdges == Eval!RaisesExactlyOnEdges
=============================================================================
