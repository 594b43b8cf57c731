\* As the in-order regime of Pipeline.cfg, but the fault is a kill, which
\* may strike between open(path, 'w') and json.dump.
SPECIFICATION Spec
CONSTANT Regimes <- MCTornRegimes
PROPERTY PipelineCompletes
