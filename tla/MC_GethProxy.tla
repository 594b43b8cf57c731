--------------------------- MODULE MC_GethProxy ---------------------------
(***************************************************************************)
(* Instances of GethProxy for TLC.  The tester (GethProxyTester.main)      *)
(* sends OraclePublish and SubscriberTransact with the hex of              *)
(* b'Hello World!' (24 hex digits) and then an unknown method, on one      *)
(* connection.  A second client sends an OraclePublish whose JSON text is  *)
(* exactly 256 bytes long (213 hex digits of data), the length whose low   *)
(* header byte is 0, and, in the fault runs, a request with bad hex.       *)
(***************************************************************************)
EXTENDS GethProxy

CONSTANTS tester, other, hello, big, junk

Hex(d, n, valid) == [hex |-> d, ok |-> valid, hexLen |-> n]

Publish(p) == [method |-> "OraclePublish", params |-> p]
Transact(p) == [method |-> "SubscriberTransact", params |-> p]
Unknown == [method |-> "InvalidMethod", params |-> <<>>]

TesterScript ==
    << Publish(<<Hex(hello, 24, TRUE)>>),
       Transact(<<Hex(hello, 24, TRUE)>>),
       Unknown >>

\* Clients whose requests are all well formed.
MCScriptGood ==
    (tester :> TesterScript) @@ (other :> << Publish(<<Hex(big, 213, TRUE)>>) >>)

\* The second client ends with a request whose hex does not parse.
MCScriptFaulty ==
    (tester :> TesterScript)
    @@ (other :> << Publish(<<Hex(big, 213, TRUE)>>),
                    Transact(<<Hex(junk, 3, FALSE)>>) >>)

\* The conditions an execution runs under: "ideal" is what the code
\* assumes; "faults" adds short reads, calls that raise before or after
\* sending, and a request with bad hex; "short" adds only short reads.
MCScriptOf(r) == IF r = "faults" THEN MCScriptFaulty ELSE MCScriptGood
MCShortReadsOf(r) == r # "ideal"
MCCallOutcomesOf(r) ==
    IF r = "faults" THEN {"ok", "raiseBefore", "raiseAfter"} ELSE {"ok"}

=============================================================================
