------------------------------ MODULE EvalPlot ------------------------------
(***************************************************************************)
(* src/Ethereum/tests/EvalPlot.py: main reads a result file (three runs of *)
(* the same evaluation, each a list of [x, seconds] points), ReadResults   *)
(* merges the runs into one point per x (the sorted three values, or one   *)
(* value when every x got the same three), ToThroughputResults divides the *)
(* number of blocks by each, and GenerateFigure draws both series, with    *)
(* error bars from the middle value to the smallest and largest.           *)
(*                                                                         *)
(* Python's int and list values of a point are tagged records; a float is  *)
(* kept exact as a fraction n/d, so division and comparison are those of   *)
(* the rationals.  Drawing and saving the figure are output and left out;  *)
(* the arrays GenerateFigure hands to plotly are kept.                     *)
(***************************************************************************)
EXTENDS Naturals, Sequences, TLC

CONSTANTS
    NumBlocks,   \* NUM_OF_BLOCKS
    Files        \* the result files json.load may return

\* Exact numbers: n / d with d > 0.
Frac(n, d) == <<n, d>>
Less(f, g) == f[1] * g[2] < g[1] * f[2]
Same(f, g) == f[1] * g[2] = g[1] * f[2]
Minus(f, g) == <<f[1] * g[2] - g[1] * f[2], f[2] * g[2]>>
Plus(f, g) == <<f[1] * g[2] + g[1] * f[2], f[2] * g[2]>>
\* numBlocks / f, for f # 0.
Over(nb, f) == <<nb * f[2], f[1]>>

\* The y of a point: a Python number, or a list of numbers.
Num(f) == [list |-> FALSE, items |-> <<f>>]
List(s) == [list |-> TRUE, items |-> s]

Point(x, y) == [x |-> x, y |-> y]

\* sorted() of numbers.
Sorted(s) == SortSeq(s, Less)

\* Mutant: the x-axis assert is missing.
AlignedNoX(r) ==
    /\ Len(r) = 3
    /\ Len(r[1]) = Len(r[2]) /\ Len(r[2]) = Len(r[3])

\* The asserts of ReadResults: three runs, of one length, with the same x
\* at each index.
Aligned(r) ==
    /\ Len(r) = 3
    /\ Len(r[1]) = Len(r[2]) /\ Len(r[2]) = Len(r[3])
    /\ \A i \in DOMAIN r[1] : r[1][i][1] = r[2][i][1] /\ r[2][i][1] = r[3][i][1]

\* ReadResults, on a file whose asserts hold: one point per x with the
\* three values sorted; if every point's three values are equal, the
\* points keep the middle one only.
ReadResults(r) ==
    LET merged == [i \in DOMAIN r[1] |->
                     Point(r[1][i][1], Sorted(<<Frac(r[1][i][2], 1), Frac(r[2][i][2], 1),
                                                Frac(r[3][i][2], 1)>>))]
        spread == \E i \in DOMAIN merged : ~(merged[i].y[1] = merged[i].y[2]
                                             /\ merged[i].y[2] = merged[i].y[3])
    IN IF spread THEN [i \in DOMAIN merged |-> [merged[i] EXCEPT !.y = List(@)]]
       ELSE [i \in DOMAIN merged |-> [merged[i] EXCEPT !.y = Num(@[2])]]

\* The values ToThroughputResults divides by.
Divisors(ds) == UNION {{ds[i].y.items[k] : k \in DOMAIN ds[i].y.items} : i \in DOMAIN ds}

\* Mutant: the three throughputs are not sorted.
ToThroughputUnsorted(ds, nb) ==
    [i \in DOMAIN ds |->
        Point(ds[i].x, [ds[i].y EXCEPT !.items = [k \in DOMAIN @ |-> Over(nb, @[k])]])]

\* ToThroughputResults, on points with no zero: numBlocks over each value,
\* the three of a list sorted again.
ToThroughputResults(ds, nb) ==
    [i \in DOMAIN ds |->
        Point(ds[i].x, [ds[i].y EXCEPT !.items =
                          Sorted([k \in DOMAIN @ |-> Over(nb, @[k])])])]

\* What GenerateFigure gives plotly for one series: x and y, and for a
\* series of lists y[2] - y[1] above and y[1] - y[0] below.
Trace(ds) ==
    IF ds[1].y.list
    THEN [x |-> [i \in DOMAIN ds |-> ds[i].x],
          y |-> [i \in DOMAIN ds |-> ds[i].y.items[2]],
          plus |-> [i \in DOMAIN ds |-> Minus(ds[i].y.items[3], ds[i].y.items[2])],
          minus |-> [i \in DOMAIN ds |-> Minus(ds[i].y.items[2], ds[i].y.items[1])]]
    ELSE [x |-> [i \in DOMAIN ds |-> ds[i].x],
          y |-> [i \in DOMAIN ds |-> ds[i].y.items[1]],
          plus |-> <<>>, minus |-> <<>>]

VARIABLES
    file,   \* what json.load returned
    pc,     \* "read", "throughput", "plot", "done", or "raised"
    lat,    \* ReadResults' points
    thr,    \* ToThroughputResults' points
    err,    \* the exception raised, or "none"
    fig     \* the traces of the two series, as handed to plotly

evalVars == <<file, pc, lat, thr, err, fig>>

EvalInit ==
    /\ file \in Files /\ pc = "read"
    /\ lat = <<>> /\ thr = <<>> /\ err = "none" /\ fig = <<>>

\* goTimeEval = ReadResults(...): an assert that fails raises.
Read ==
    /\ pc = "read"
    /\ IF Aligned(file)
       THEN lat' = ReadResults(file) /\ pc' = "throughput" /\ UNCHANGED err
       ELSE err' = "AssertionError" /\ pc' = "raised" /\ UNCHANGED lat
    /\ UNCHANGED <<file, thr, fig>>

\* goThroughputEval = ToThroughputResults(goTimeEval, NUM_OF_BLOCKS):
\* inData[0] of no points raises IndexError, a division by 0
\* ZeroDivisionError.
Throughput ==
    /\ pc = "throughput"
    /\ CASE lat = <<>> -> err' = "IndexError" /\ pc' = "raised" /\ UNCHANGED thr
         [] \E f \in Divisors(lat) : f[1] = 0 ->
                err' = "ZeroDivisionError" /\ pc' = "raised" /\ UNCHANGED thr
         [] OTHER -> thr' = ToThroughputResults(lat, NumBlocks) /\ pc' = "plot" /\ UNCHANGED err
    /\ UNCHANGED <<file, lat, fig>>

\* PlotGraph(inData=[goTimeEval, goThroughputEval], ...): GenerateFigure.
Plot ==
    /\ pc = "plot"
    /\ fig' = <<Trace(lat), Trace(thr)>> /\ pc' = "done"
    /\ UNCHANGED <<file, lat, thr, err>>

Finished == pc \in {"done", "raised"} /\ UNCHANGED evalVars

EvalNext == Read \/ Throughput \/ Plot \/ Finished

EvalSpec == EvalInit /\ [][EvalNext]_evalVars

-----------------------------------------------------------------------------
(* The reference: what the three runs say at each x *)

Val(r, j, i) == Frac(r[j][i][2], 1)
Lo(r, i) == CHOOSE f \in {Val(r, j, i) : j \in 1..3} : \A j \in 1..3 : ~Less(Val(r, j, i), f)
Hi(r, i) == CHOOSE f \in {Val(r, j, i) : j \in 1..3} : \A j \in 1..3 : ~Less(f, Val(r, j, i))
\* The median: the sum less the two ends.
Mid(r, i) == Minus(Minus(Plus(Plus(Val(r, 1, i), Val(r, 2, i)), Val(r, 3, i)), Lo(r, i)), Hi(r, i))

\* After EvalPlot plots a result file, each series has a point at every x
\* of the runs, in order; the time series is drawn at the median of the
\* three runs with its error bar reaching exactly their least and greatest,
\* and the throughput series at NUM_OF_BLOCKS over that median with its bar
\* reaching NUM_OF_BLOCKS over the greatest and over the least time.  When
\* no bars are drawn, the three runs agree at every x.
PlotMatchesRuns ==
    pc = "done" =>
        LET t == fig[1]
            h == fig[2]
            n == Len(file[1])
        IN
        /\ t.x = [i \in 1..n |-> file[1][i][1]] /\ h.x = t.x
        /\ \A i \in 1..n :
              /\ Same(t.y[i], Mid(file, i))
              /\ Same(h.y[i], Over(NumBlocks, Mid(file, i)))
              /\ t.plus = <<>> => Same(Lo(file, i), Hi(file, i))
              /\ t.plus # <<>> =>
                    /\ Same(Plus(t.y[i], t.plus[i]), Hi(file, i))
                    /\ Same(Minus(t.y[i], t.minus[i]), Lo(file, i))
                    /\ Same(Plus(h.y[i], h.plus[i]), Over(NumBlocks, Lo(file, i)))
                    /\ Same(Minus(h.y[i], h.minus[i]), Over(NumBlocks, Hi(file, i)))

\* EvalPlot raises on a result file exactly when the file breaks the
\* asserts of ReadResults (AssertionError), has no points (IndexError in
\* ToThroughputResults) or a run took 0 seconds (ZeroDivisionError), and
\* with that exception.
RaisesExactlyOnEdges ==
    pc \in {"done", "raised"} =>
        LET xs(j) == [i \in DOMAIN file[j] |-> file[j][i][1]] IN
        err = CASE Len(file) # 3 \/ xs(2) # xs(1) \/ xs(3) # xs(1) -> "AssertionError"
                [] Len(file[1]) = 0 -> "IndexError"
                [] \E i \in DOMAIN file[1], j \in 1..3 : file[j][i][2] = 0 -> "ZeroDivisionError"
                [] OTHER -> "none"

=============================================================================
