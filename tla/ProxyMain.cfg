\* Runs of GethProxy.py main: raises only, or a raise or a kill.
SPECIFICATION Spec
CONSTANT Regimes <- MCRegimes
INVARIANT TypeOK ServingConfigured RecordsMatchChain
PROPERTY ServesUnlessKilled
