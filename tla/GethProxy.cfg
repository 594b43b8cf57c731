\* Two clients.  An execution runs either under the conditions the code is
\* written for (whole reads, calls that succeed, well-formed requests) or
\* with faults: recv may return any non-empty part of what is available,
\* CallContractFunc may raise before or after sending, and the second client
\* ends with a request whose hex does not parse.
CONSTANTS
    tester = tester
    other = other
    hello = hello
    big = big
    junk = junk
    NoClient = NoClient
    Clients = {tester, other}
    Regimes = {"ideal", "faults"}
    ScriptOf <- MCScriptOf
    ShortReadsOf <- MCShortReadsOf
    CallOutcomesOf <- MCCallOutcomesOf

SPECIFICATION Spec

INVARIANT TypeOK
INVARIANT FramingAligned
INVARIANT HeaderDecodeExact
INVARIANT RecordSound
INVARIANT ResponseMatchesRequest
INVARIANT OkImpliesExecuted

PROPERTY CompletesWhenAssumed
PROPERTY NoClientHangs
