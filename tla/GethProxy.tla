----------------------------- MODULE GethProxy -----------------------------
(***************************************************************************)
(* The Geth proxy of the end-to-end latency test                           *)
(* (src/Revoker/tests/End2EndLatency/contracts/GethProxy.py) together with *)
(* the clients that talk to it (GethProxyTester.py).                       *)
(*                                                                         *)
(*  - The server is a socketserver.TCPServer: one thread, which accepts a  *)
(*    connection, runs TCPHandlerTemplate.handle on it until it returns,   *)
(*    closes it, and accepts the next one.                                 *)
(*  - handle() loops: recv(8) for the length, recv(dataLen) for the JSON,  *)
(*    handleRequest, then two sendall calls for the response.  Any         *)
(*    exception, or a recv returning b'', ends the connection.             *)
(*  - OraclePublish / SubscriberTransact call GethProxy.PublishData /      *)
(*    TransactData, which send a transaction to the Oracle / subscriber    *)
(*    contract and append its receipt to transactionRec.                   *)
(*  - A client (DoRequest) sends the header and the JSON with two sendall  *)
(*    calls, then recv(8) and recv(dataLen) and json.loads the reply.      *)
(*                                                                         *)
(* A recv returns between 1 byte and what it asked for; ShortReads = FALSE *)
(* restricts it to everything available, the case the code assumes.       *)
(***************************************************************************)
EXTENDS Naturals, Sequences, Functions, TLC, Framing

CONSTANTS
    Clients,        \* client processes, each with one connection
    Regimes,        \* the conditions an execution may run under
    ScriptOf(_),    \* ScriptOf(r)[c]: the requests client c sends, in order
    ShortReadsOf(_),   \* may a recv return fewer bytes than are available?
    CallOutcomesOf(_), \* what EthContractHelper.CallContractFunc may do
    NoClient        \* the server holds no connection

ContractMethods == {"OraclePublish", "SubscriberTransact"}

\* Length of the method names that occur in requests.
MethodLen == ("OraclePublish" :> 13) @@ ("SubscriberTransact" :> 18)
              @@ ("InvalidMethod" :> 13)

\* Mutant: the two contract methods are dispatched to each other's call.
TargetSwapped == ("OraclePublish" :> "Subscriber") @@ ("SubscriberTransact" :> "Oracle")

\* handleRequest: which contract a method's transaction goes to.
Target == ("OraclePublish" :> "Oracle") @@ ("SubscriberTransact" :> "Subscriber")

OkResp == [status |-> "ok", method |-> "none"]
ErrResp(m) == [status |-> "error", method |-> m]

MsgLen(msg) ==
    IF "params" \in DOMAIN msg THEN RequestJsonLen(MethodLen[msg.method], msg.params)
    ELSE IF msg.status = "ok" THEN OkJsonLen ELSE ErrorJsonLen(MethodLen[msg.method])

ASSUME /\ \A r \in Regimes : CallOutcomesOf(r) \subseteq {"ok", "raiseBefore", "raiseAfter"}
       /\ \A r \in Regimes : \A c \in Clients : Len(ScriptOf(r)[c]) > 0
       /\ NoClient \notin Clients

VARIABLES
    backlog,    \* connections accepted by the kernel, not yet by the server
    spc,        \* where the server thread is: "accept", "recvHdr", "recvBody"
    conn,       \* the connection handle() is serving
    sLen,       \* handle(): dataLen
    sHdr,       \* handle(): len(rawSockData) of the last recv(8)
    c2s,        \* c2s[c]: client-to-server byte stream of c's connection
    s2c,        \* s2c[c]: server-to-client byte stream
    cpc,        \* where client c is in its script
    cidx,       \* index of the request client c is doing
    cLen,       \* DoRequest: dataLen
    resp,       \* the replies client c has parsed, in order
    chain,      \* transactions of the proxy's account on the chain
    txRec,      \* GethProxy.transactionRec: the receipts recorded
    regime      \* the conditions of this execution, fixed at its start

vars == <<backlog, spc, conn, sLen, sHdr, c2s, s2c, cpc, cidx, cLen, resp,
          chain, txRec, regime>>

Script == ScriptOf(regime)
ShortReads == ShortReadsOf(regime)
CallOutcomes == CallOutcomesOf(regime)

(***************************************************************************)
(* A stream: the messages written (msgs), how many bytes the sender has    *)
(* handed to the kernel (sent), how many the receiver has consumed (read), *)
(* and whether the sender has closed it.                                   *)
(***************************************************************************)
EmptyStream == [msgs |-> <<>>, sent |-> 0, read |-> 0, closed |-> FALSE]
Lens(st) == [i \in DOMAIN st.msgs |-> MsgLen(st.msgs[i])]
Avail(st) == st.sent - st.read
AtEOF(st) == Avail(st) = 0 /\ st.closed
Least(a, b) == IF a < b THEN a ELSE b

\* sock.recv(n) with data available: how many bytes it may return.
RecvSizes(n, st) == IF ShortReads THEN 1..Least(n, Avail(st))
                    ELSE {Least(n, Avail(st))}

Init ==
    /\ backlog = <<>>
    /\ spc = "accept"
    /\ conn = NoClient
    /\ sLen = 0
    /\ sHdr = 0
    /\ c2s = [c \in Clients |-> EmptyStream]
    /\ s2c = [c \in Clients |-> EmptyStream]
    /\ cpc = [c \in Clients |-> "connect"]
    /\ cidx = [c \in Clients |-> 1]
    /\ cLen = [c \in Clients |-> 0]
    /\ resp = [c \in Clients |-> <<>>]
    /\ chain = <<>>
    /\ txRec = <<>>
    /\ regime \in Regimes

-----------------------------------------------------------------------------
(* Server *)

\* serve_forever: take the next pending connection and call handle().
ServerAccept ==
    /\ UNCHANGED regime
    /\ spc = "accept"
    /\ backlog # <<>>
    /\ conn' = Head(backlog)
    /\ backlog' = Tail(backlog)
    /\ spc' = "recvHdr"
    /\ UNCHANGED <<sLen, sHdr, c2s, s2c, cpc, cidx, cLen, resp, chain, txRec>>

\* handle() returns (ConnectionClosing) and socketserver closes the socket;
\* the kernel drops whatever the client sent that was not read.
CloseConn(c) ==
    /\ spc' = "accept"
    /\ conn' = NoClient
    /\ s2c' = [s2c EXCEPT ![c].closed = TRUE]
    /\ c2s' = [c2s EXCEPT ![c].read = c2s[c].sent]

\* The two sendall calls of the response, then back to recv(8).  The
\* request's bytes have been consumed.
Respond(c, r) ==
    /\ c2s' = [c2s EXCEPT ![c].read = c2s[c].sent]
    /\ s2c' = [s2c EXCEPT ![c].msgs = Append(@, r),
                          ![c].sent = @ + HeaderWidth + MsgLen(r)]
    /\ spc' = "recvHdr"
    /\ UNCHANGED conn

\* Mutant: the receipt is appended to transactionRec before the call.
CallContractRecordFirst(c, req, tx) ==
    LET t == [contract |-> Target[req.method], data |-> req.params[1].hex, id |-> tx]
    IN  \E out \in CallOutcomes :
          \/ /\ out = "ok"
             /\ chain' = Append(chain, t) /\ txRec' = Append(txRec, tx)
             /\ Respond(c, OkResp)
          \/ /\ out = "raiseBefore"
             /\ txRec' = Append(txRec, tx) /\ CloseConn(c) /\ UNCHANGED chain
          \/ /\ out = "raiseAfter"
             /\ chain' = Append(chain, t) /\ txRec' = Append(txRec, tx)
             /\ CloseConn(c)

\* PublishData / TransactData: CallContractFunc sends the transaction and
\* waits for its receipt, then the receipt is appended to transactionRec.
\* The call may raise before the transaction is sent (estimation, RPC
\* error) or after (waiting for the receipt); the exception ends handle().
CallContract(c, req, tx) ==
    LET t == [contract |-> Target[req.method], data |-> req.params[1].hex, id |-> tx]
    IN  \E out \in CallOutcomes :
          \/ /\ out = "ok"
             /\ chain' = Append(chain, t)
             /\ txRec' = Append(txRec, tx)
             /\ Respond(c, OkResp)
          \/ /\ out = "raiseBefore"
             /\ CloseConn(c)
             /\ UNCHANGED <<chain, txRec>>
          \/ /\ out = "raiseAfter"
             /\ chain' = Append(chain, t)
             /\ CloseConn(c)
             /\ UNCHANGED txRec

\* Mutant: UnknownMethod replies with status 'ok'.
HandleRequestUnknownOk(c, i) ==
    LET req == c2s[c].msgs[i] IN
    IF req.method \in ContractMethods
    THEN IF Len(req.params) # 1 \/ ~req.params[1].ok
         THEN CloseConn(c) /\ UNCHANGED <<chain, txRec>>
         ELSE CallContract(c, req, <<c, i>>)
    ELSE Respond(c, OkResp) /\ UNCHANGED <<chain, txRec>>

\* handleRequest: OraclePublish(*params) / SubscriberTransact(*params) take
\* one hex string (TypeError otherwise) and bytes.fromhex it (ValueError on
\* bad hex); any other method gets an error reply.
HandleRequest(c, i) ==
    LET req == c2s[c].msgs[i] IN
    IF req.method \in ContractMethods
    THEN IF Len(req.params) # 1 \/ ~req.params[1].ok
         THEN CloseConn(c) /\ UNCHANGED <<chain, txRec>>
         ELSE CallContract(c, req, <<c, i>>)
    ELSE Respond(c, ErrResp(req.method)) /\ UNCHANGED <<chain, txRec>>

\* Mutant: on b'' the loop goes round again instead of returning.
ServerRecvHdrNoReturn ==
    LET c == conn IN
    /\ UNCHANGED regime
    /\ spc = "recvHdr"
    /\ \/ /\ AtEOF(c2s[c])
          /\ UNCHANGED vars
       \/ /\ Avail(c2s[c]) > 0
          /\ \E k \in RecvSizes(HeaderWidth, c2s[c]) :
               /\ sLen' = FromBytesLE(Segment(Lens(c2s[c]), c2s[c].read, k))
               /\ sHdr' = k
               /\ c2s' = [c2s EXCEPT ![c].read = @ + k]
          /\ spc' = "recvBody"
          /\ UNCHANGED <<conn, s2c, backlog, cpc, cidx, cLen, resp, chain, txRec>>

\* handle(): rawSockData = sock.recv(8); b'' means the client closed.
ServerRecvHdr ==
    LET c == conn IN
    /\ UNCHANGED regime
    /\ spc = "recvHdr"
    /\ \/ /\ AtEOF(c2s[c])
          /\ CloseConn(c)
          /\ UNCHANGED <<sLen, sHdr>>
       \/ /\ Avail(c2s[c]) > 0
          /\ \E k \in RecvSizes(HeaderWidth, c2s[c]) :
               /\ sLen' = FromBytesLE(Segment(Lens(c2s[c]), c2s[c].read, k))
               /\ sHdr' = k
               /\ c2s' = [c2s EXCEPT ![c].read = @ + k]
          /\ spc' = "recvBody"
          /\ UNCHANGED <<conn, s2c>>
    /\ UNCHANGED <<backlog, cpc, cidx, cLen, resp, chain, txRec>>

\* Mutant: a request that does not parse is skipped and the loop goes on.
ServerRecvBodyContinue ==
    LET c == conn
        st == c2s[c]
    IN
    /\ UNCHANGED regime
    /\ spc = "recvBody"
    /\ \/ /\ sLen = 0 \/ AtEOF(st)
          /\ CloseConn(c)
          /\ UNCHANGED <<chain, txRec>>
       \/ /\ sLen > 0
          /\ Avail(st) > 0
          /\ \E k \in RecvSizes(sLen, st) :
               LET w == WholePayload(Lens(st), st.read, k) IN
               IF w = {} THEN /\ c2s' = [c2s EXCEPT ![c].read = @ + k]
                              /\ spc' = "recvHdr"
                              /\ UNCHANGED <<conn, s2c, chain, txRec>>
               ELSE HandleRequest(c, CHOOSE i \in w : TRUE)
    /\ UNCHANGED <<backlog, sLen, sHdr, cpc, cidx, cLen, resp>>

\* handle(): rawSockData = sock.recv(dataLen); json.loads; handleRequest;
\* reply.  recv(0) returns b'' at once, which handle() takes for a close.
ServerRecvBody ==
    LET c == conn
        st == c2s[c]
    IN
    /\ UNCHANGED regime
    /\ spc = "recvBody"
    /\ \/ /\ sLen = 0 \/ AtEOF(st)
          /\ CloseConn(c)
          /\ UNCHANGED <<chain, txRec>>
       \/ /\ sLen > 0
          /\ Avail(st) > 0
          /\ \E k \in RecvSizes(sLen, st) :
               LET w == WholePayload(Lens(st), st.read, k) IN
               IF w = {} THEN CloseConn(c) /\ UNCHANGED <<chain, txRec>>
               ELSE HandleRequest(c, CHOOSE i \in w : TRUE)
    /\ UNCHANGED <<backlog, sLen, sHdr, cpc, cidx, cLen, resp>>

-----------------------------------------------------------------------------
(* Clients *)

\* The client process ends (script finished, or an exception escaped
\* DoRequest) and the OS closes its socket, dropping unread reply bytes.
ClientExit(c, how) ==
    /\ cpc' = [cpc EXCEPT ![c] = how]
    /\ c2s' = [c2s EXCEPT ![c].closed = TRUE]
    /\ s2c' = [s2c EXCEPT ![c].read = s2c[c].sent]

\* sock.connect: the kernel completes the handshake and queues the
\* connection for accept().
ClientConnect(c) ==
    /\ UNCHANGED regime
    /\ cpc[c] = "connect"
    /\ backlog' = Append(backlog, c)
    /\ cpc' = [cpc EXCEPT ![c] = "sendHdr"]
    /\ UNCHANGED <<spc, conn, sLen, sHdr, c2s, s2c, cidx, cLen, resp, chain, txRec>>

\* DoRequest: sendall(len(requestJson).to_bytes(8, 'little')).
ClientSendHdr(c) ==
    /\ UNCHANGED regime
    /\ cpc[c] = "sendHdr"
    /\ c2s' = [c2s EXCEPT ![c].msgs = Append(@, Script[c][cidx[c]]),
                          ![c].sent = @ + HeaderWidth]
    /\ cpc' = [cpc EXCEPT ![c] = "sendBody"]
    /\ UNCHANGED <<backlog, spc, conn, sLen, sHdr, s2c, cidx, cLen, resp, chain, txRec>>

\* DoRequest: sendall(requestJson.encode('utf-8')).
ClientSendBody(c) ==
    /\ UNCHANGED regime
    /\ cpc[c] = "sendBody"
    /\ c2s' = [c2s EXCEPT ![c].sent = @ + MsgLen(Script[c][cidx[c]])]
    /\ cpc' = [cpc EXCEPT ![c] = "recvHdr"]
    /\ UNCHANGED <<backlog, spc, conn, sLen, sHdr, s2c, cidx, cLen, resp, chain, txRec>>

\* DoRequest: dataLen = int.from_bytes(sock.recv(8), 'little'); at EOF the
\* recv returns b'' and dataLen is 0.
ClientRecvHdr(c) ==
    LET st == s2c[c] IN
    /\ UNCHANGED regime
    /\ cpc[c] = "recvHdr"
    /\ \/ /\ AtEOF(st)
          /\ cLen' = [cLen EXCEPT ![c] = 0]
          /\ UNCHANGED s2c
       \/ /\ Avail(st) > 0
          /\ \E k \in RecvSizes(HeaderWidth, st) :
               /\ cLen' = [cLen EXCEPT ![c] = FromBytesLE(Segment(Lens(st), st.read, k))]
               /\ s2c' = [s2c EXCEPT ![c].read = @ + k]
    /\ cpc' = [cpc EXCEPT ![c] = "recvBody"]
    /\ UNCHANGED <<backlog, spc, conn, sLen, sHdr, c2s, cidx, resp, chain, txRec>>

\* Mutant: the script loop runs one request past its end.
ClientRecvBodyPastEnd(c) ==
    LET st == s2c[c] IN
    /\ UNCHANGED regime
    /\ cpc[c] = "recvBody"
    /\ \/ /\ cLen[c] = 0 \/ AtEOF(st)
          /\ ClientExit(c, "crashed")
          /\ UNCHANGED <<cidx, resp>>
       \/ /\ cLen[c] > 0
          /\ Avail(st) > 0
          /\ \E k \in RecvSizes(cLen[c], st) :
               LET w == WholePayload(Lens(st), st.read, k) IN
               IF w = {} THEN ClientExit(c, "crashed") /\ UNCHANGED <<cidx, resp>>
               ELSE /\ resp' = [resp EXCEPT ![c] = Append(@, st.msgs[CHOOSE i \in w : TRUE])]
                    /\ IF cidx[c] <= Len(Script[c])
                       THEN /\ cidx' = [cidx EXCEPT ![c] = @ + 1]
                            /\ cpc' = [cpc EXCEPT ![c] = "sendHdr"]
                            /\ s2c' = [s2c EXCEPT ![c].read = @ + k]
                            /\ UNCHANGED c2s
                       ELSE ClientExit(c, "done") /\ UNCHANGED cidx
    /\ UNCHANGED <<backlog, spc, conn, sLen, sHdr, cLen, chain, txRec>>

\* DoRequest: data = sock.recv(dataLen); json.loads(data).  json.loads of
\* b'' or of a partial text raises, and the tester exits with it.
ClientRecvBody(c) ==
    LET st == s2c[c] IN
    /\ UNCHANGED regime
    /\ cpc[c] = "recvBody"
    /\ \/ /\ cLen[c] = 0 \/ AtEOF(st)
          /\ ClientExit(c, "crashed")
          /\ UNCHANGED <<cidx, resp>>
       \/ /\ cLen[c] > 0
          /\ Avail(st) > 0
          /\ \E k \in RecvSizes(cLen[c], st) :
               LET w == WholePayload(Lens(st), st.read, k) IN
               IF w = {} THEN ClientExit(c, "crashed") /\ UNCHANGED <<cidx, resp>>
               ELSE /\ resp' = [resp EXCEPT ![c] = Append(@, st.msgs[CHOOSE i \in w : TRUE])]
                    /\ IF cidx[c] < Len(Script[c])
                       THEN /\ cidx' = [cidx EXCEPT ![c] = @ + 1]
                            /\ cpc' = [cpc EXCEPT ![c] = "sendHdr"]
                            /\ s2c' = [s2c EXCEPT ![c].read = @ + k]
                            /\ UNCHANGED c2s
                       ELSE ClientExit(c, "done") /\ UNCHANGED cidx
    /\ UNCHANGED <<backlog, spc, conn, sLen, sHdr, cLen, chain, txRec>>

ClientStep(c) ==
    \/ ClientConnect(c) \/ ClientSendHdr(c) \/ ClientSendBody(c)
    \/ ClientRecvHdr(c) \/ ClientRecvBody(c)

\* Every client has exited and serve_forever blocks in accept().
Terminated ==
    /\ \A c \in Clients : cpc[c] \in {"done", "crashed"}
    /\ spc = "accept"
    /\ backlog = <<>>
    /\ UNCHANGED vars

Next ==
    \/ ServerAccept \/ ServerRecvHdr \/ ServerRecvBody
    \/ \E c \in Clients : ClientStep(c)
    \/ Terminated

\* The server thread never stops while it has work; each client is a
\* straight-line script that runs to its end.
Fairness ==
    /\ WF_vars(ServerAccept) /\ WF_vars(ServerRecvHdr) /\ WF_vars(ServerRecvBody)
    /\ \A c \in Clients : WF_vars(ClientStep(c))

Spec == Init /\ [][Next]_vars /\ Fairness

-----------------------------------------------------------------------------
(* Properties *)

Messages == UNION {Range(Script[c]) : c \in Clients} \cup {OkResp}
            \cup {ErrResp(m) : m \in DOMAIN MethodLen}
MaxMsgLen == CHOOSE n \in {MsgLen(m) : m \in Messages} :
                 \A m \in Messages : MsgLen(m) <= n
\* No stream carries more than one frame per request of its client.
StreamBytes(c) == 0..(Len(Script[c]) * (HeaderWidth + MaxMsgLen))
Stream(c) == [msgs : Seq(Messages), sent : StreamBytes(c), read : StreamBytes(c),
              closed : BOOLEAN]

TypeOK ==
    /\ backlog \in Seq(Clients)
    /\ spc \in {"accept", "recvHdr", "recvBody"}
    /\ conn \in Clients \cup {NoClient}
    /\ sLen \in 0..MaxMsgLen /\ sHdr \in 0..HeaderWidth
    /\ \A c \in Clients :
          /\ c2s[c] \in Stream(c) /\ s2c[c] \in Stream(c)
          /\ cpc[c] \in {"connect", "sendHdr", "sendBody", "recvHdr",
                         "recvBody", "done", "crashed"}
          /\ cidx[c] \in 1..Len(Script[c]) /\ cLen[c] \in 0..MaxMsgLen
          /\ Len(resp[c]) <= Len(Script[c])

\* The reply DoRequest returns for a request.
Expected(req) ==
    IF req.method \in ContractMethods THEN OkResp ELSE ErrResp(req.method)

\* Replies are never crossed: the j-th reply a client parses is the reply
\* to its own j-th request (handle() answers requests in order, one reply
\* each, on the connection they came in on).
ResponseMatchesRequest ==
    \A c \in Clients : \A j \in 1..Len(resp[c]) : resp[c][j] = Expected(Script[c][j])

\* A client that got status 'ok' can rely on its request having been an
\* OraclePublish / SubscriberTransact whose transaction, with its data, is
\* on the chain: to the Oracle contract for OraclePublish, to the
\* subscriber contract for SubscriberTransact (handleRequest routes by
\* method and replies only after CallContractFunc returned a receipt).
OkImpliesExecuted ==
    \A c \in Clients : \A j \in 1..Len(resp[c]) :
        resp[c][j].status = "ok" =>
            /\ Script[c][j].method \in ContractMethods
            /\ \E n \in 1..Len(chain) :
                  /\ chain[n].id = <<c, j>>
                  /\ chain[n].data = Script[c][j].params[1].hex
                  /\ (chain[n].contract = "Oracle")
                        = (Script[c][j].method = "OraclePublish")

\* transactionRec, written to GethProxyRecords.json, lists only
\* transactions that are on the chain, in chain order, and lists every one
\* a client was told succeeded.
ChainPos(id) == CHOOSE n \in 1..Len(chain) : chain[n].id = id
RecordSound ==
    /\ \A i \in 1..Len(txRec) : \E n \in 1..Len(chain) : chain[n].id = txRec[i]
    /\ \A i, j \in 1..Len(txRec) : i < j => ChainPos(txRec[i]) < ChainPos(txRec[j])
    /\ \A c \in Clients : \A j \in 1..Len(resp[c]) :
          resp[c][j].status = "ok" => \E i \in 1..Len(txRec) : txRec[i] = <<c, j>>

\* Whenever handle() is about to recv(8) on a connection, and a client is
\* about to recv(8) the reply, the read position is a frame boundary: a
\* short read never leaves either side parsing JSON bytes as a length.
FramingAligned ==
    /\ spc = "recvHdr" => c2s[conn].read \in Boundaries(Lens(c2s[conn]))
    /\ \A c \in Clients : cpc[c] = "recvHdr" => s2c[c].read \in Boundaries(Lens(s2c[c]))

\* The dataLen handle() decodes from a recv(8) that returned sHdr bytes is
\* the frame's real length reduced to those bytes: the whole length when
\* all 8 arrived, the length modulo 256^sHdr otherwise (0 for a 256-byte
\* request cut after one byte, which handle() takes for a close).
HeaderDecodeExact ==
    spc = "recvBody" =>
        LET st == c2s[conn] IN
        \E i \in 1..Len(st.msgs) :
            /\ FrameStart(Lens(st), i) = st.read - sHdr
            /\ sLen = LowBytesValue(MsgLen(st.msgs[i]), sHdr)

\* Every client eventually gets through its whole script.
AllClientsComplete == \A c \in Clients : <>(cpc[c] = "done")

\* The conditions handle() and DoRequest are written for: each recv
\* returns all it asked for once that much has arrived, every
\* CallContractFunc returns a receipt, and every request is well formed.
Assumed ==
    /\ ~ShortReads /\ CallOutcomes = {"ok"}
    /\ \A c \in Clients : \A j \in DOMAIN Script[c] :
          \A k \in DOMAIN Script[c][j].params : Script[c][j].params[k].ok

\* Under those conditions every client, interleaved with the others on
\* the one server thread, gets through its whole script.
CompletesWhenAssumed == Assumed => AllClientsComplete

\* No client waits forever: each one eventually finishes or fails.
NoClientHangs == \A c \in Clients : <>(cpc[c] \in {"done", "crashed"})

=============================================================================
