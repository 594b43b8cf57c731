\* Two regimes: the operator runs B2, B3, B4 in any order with raises and
\* kills, or in order, rerunning a script that raised.  The invariants are
\* checked, the pipeline against ConfigPipeline, and completion in order.
SPECIFICATION Spec
CONSTANT Regimes <- MCRegimes
INVARIANT TypeOK InfoWired ConfigCoherent ReportOnConfigured
PROPERTY AbstractSpec PipelineCompletes
