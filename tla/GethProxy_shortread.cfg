\* The conditions of the ideal run, except that a recv may return fewer
\* bytes than are available, as TCP allows.
CONSTANTS
    tester = tester
    other = other
    hello = hello
    big = big
    junk = junk
    NoClient = NoClient
    Clients = {tester, other}
    Regimes = {"short"}
    ScriptOf <- MCScriptOf
    ShortReadsOf <- MCShortReadsOf
    CallOutcomesOf <- MCCallOutcomesOf

SPECIFICATION Spec

PROPERTY AllClientsComplete
