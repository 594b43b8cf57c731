\* A kill may strike between a config's truncating open and its json.dump.
SPECIFICATION Spec
CONSTANT Regimes <- MCKillRegimes
PROPERTY RestartServes
