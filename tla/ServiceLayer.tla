---------------------------- MODULE ServiceLayer ----------------------------
(***************************************************************************)
(* The service layer (microfips-service) with the demo service and its HTTP *)
(* front end (microfips-http-demo): a request reaches the demo routes over  *)
(* an FSP session or over HTTP, and the answer goes back the same way,      *)
(* through the buffers of the FSP handler and of the link in the first case. *)
(*                                                                         *)
(* A route is a sequence of segments <<name, size>>, a free segment having   *)
(* the name "*"; bodies and messages are known by their sizes, which are the *)
(* real ones.                                                               *)
(***************************************************************************)
EXTENDS Naturals, Sequences

CONSTANTS
    RespSizes,   \* response buffers the service is given
    FspBodies,   \* payload sizes of requests over FSP
    HttpBodies,  \* sizes of HTTP bodies
    IdSizes      \* sizes of a free segment

ASSUME SvAssumption == \A S \in {RespSizes, FspBodies, HttpBodies, IdSizes} : S \subseteq Nat

VARIABLES
    call,    \* what arrived, and over what
    outcome  \* what came of it; "none" before

svVars == <<call, outcome>>

----------------------------------------------------------------------------
(* Demo routes *)

Seg(s) == <<s, 0>>
Path(names) == [i \in 1..Len(names) |-> Seg(names[i])]
Free(n) == <<"*", n>>

Quote(kind) == <<"v1", kind, "quote", "bolt11">>

\* demo_routes: method, segments, whether what follows is free, and the size of the
\* fixed body (that of echo is the payload's, that of rpc the method's).
DemoRoutes == <<
    [method |-> "GET", path |-> <<"health">>, prefix |-> FALSE, body |-> 50],
    [method |-> "GET", path |-> <<"info">>, prefix |-> FALSE, body |-> 79],
    [method |-> "POST", path |-> <<"echo">>, prefix |-> FALSE, body |-> 0],
    [method |-> "POST", path |-> <<"rpc">>, prefix |-> TRUE, body |-> 0],
    [method |-> "GET", path |-> <<"v1", "info">>, prefix |-> FALSE, body |-> 121],
    [method |-> "GET", path |-> <<"v1", "keys">>, prefix |-> FALSE, body |-> 129],
    [method |-> "GET", path |-> <<"v1", "keysets">>, prefix |-> FALSE, body |-> 61],
    [method |-> "POST", path |-> Quote("mint"), prefix |-> FALSE, body |-> 82],
    [method |-> "GET", path |-> Quote("mint"), prefix |-> TRUE, body |-> 67],
    [method |-> "POST", path |-> <<"v1", "mint", "bolt11">>, prefix |-> FALSE, body |-> 55],
    [method |-> "POST", path |-> Quote("melt"), prefix |-> FALSE, body |-> 88],
    [method |-> "GET", path |-> Quote("melt"), prefix |-> TRUE, body |-> 53],
    [method |-> "POST", path |-> <<"v1", "melt", "bolt11">>, prefix |-> FALSE, body |-> 52],
    [method |-> "POST", path |-> <<"v1", "swap">>, prefix |-> FALSE, body |-> 17]>>

\* RouteMatch::matches; a prefix ends in a slash, so at least an empty segment
\* follows it.
Matches(r, path) ==
    IF r.prefix THEN Len(path) > Len(r.path) /\ SubSeq(path, 1, Len(r.path)) = Path(r.path)
    ELSE path = Path(r.path)

Fails(error) == [ok |-> FALSE, error |-> error]
Replies(type, n) == [ok |-> TRUE, status |-> 200, type |-> type, body |-> n]

\* copy_response
CopyResponse(type, n, room) == IF room < n THEN Fails("small") ELSE Replies(type, n)

RpcBody(seg) ==
    CASE seg = Seg("ping") -> {33} [] seg = Seg("health") -> {50} [] seg = Seg("info") -> {79}
      [] OTHER -> {}

\* The handler of route r.
HandleRoute(r, req, room) ==
    CASE r.path = <<"echo">> -> CopyResponse("binary", req.payload, room)
      [] r.path = <<"rpc">> ->
           LET bodies == IF Len(req.path) = 2 THEN RpcBody(req.path[2]) ELSE {}
           IN  IF bodies = {} THEN Fails("not_found")
               ELSE CopyResponse("json", CHOOSE b \in bodies : TRUE, room)
      [] r.prefix /\ r.path # <<"rpc">> ->
           CopyResponse("json", r.body + req.path[Len(r.path) + 1][2], room)
      [] OTHER -> CopyResponse("json", r.body, room)

\* A plausible slip: the first route whose path matches decides.
RouteRequestFirstPath(req, room) ==
    LET hits == {i \in 1..Len(DemoRoutes) : Matches(DemoRoutes[i], req.path)}
        first == CHOOSE i \in hits : \A j \in hits : i <= j
    IN  IF hits = {} THEN Fails("not_found")
        ELSE IF DemoRoutes[first].method # req.method THEN Fails("not_found")
        ELSE HandleRoute(DemoRoutes[first], req, room)

\* Router::handle: the first route with path and method; method_seen tells a wrong
\* method from an unknown path.
RouteRequest(req, room) ==
    LET hits == {i \in 1..Len(DemoRoutes) : Matches(DemoRoutes[i], req.path)}
        good == {i \in hits : DemoRoutes[i].method = req.method}
    IN  IF good # {}
        THEN HandleRoute(DemoRoutes[CHOOSE i \in good : \A j \in good : i <= j], req, room)
        ELSE IF hits # {} THEN Fails("method") ELSE Fails("not_found")

----------------------------------------------------------------------------
(* Envelopes *)

\* ServiceError::status and the size of ServiceError::message
StatusOf(e) ==
    CASE e = "small" -> 413 [] e = "not_found" -> 404 [] e = "method" -> 405
      [] e \in {"envelope", "version", "kind", "bad_method", "utf8"} -> 400

MessageSize(e) ==
    CASE e = "small" -> 25 [] e = "envelope" -> 24 [] e = "version" -> 36 [] e = "kind" -> 32
      [] e = "bad_method" -> 22 [] e = "utf8" -> 24 [] e = "not_found" -> 15 [] e = "method" -> 18

\* encode_response
EncodeResponse(status, type, n, room) ==
    IF room < 8 + n \/ n > 65535 THEN Fails("small")
    ELSE [ok |-> TRUE, status |-> status, type |-> type, size |-> 8 + n]

ErrorResponse(e, room) == EncodeResponse(StatusOf(e), "text", MessageSize(e), room)

\* dispatch_request; req.flaw is what decode_request finds wrong, in its order.
DispatchRequest(req, room) ==
    IF req.flaw # "none" THEN Fails(req.flaw)
    ELSE IF room < 8 THEN Fails("small")
    ELSE LET r == RouteRequest(req, room - 8)
         IN  IF r.ok THEN [ok |-> TRUE, status |-> r.status, type |-> r.type, size |-> 8 + r.body]
             ELSE ErrorResponse(r.error, room)

----------------------------------------------------------------------------
(* Over FSP *)

Nothing == [kind |-> "nothing"]
Pong == [kind |-> "reply", status |-> 0, type |-> "binary", size |-> 4]
AppReply(r) == [kind |-> "reply", status |-> r.status, type |-> r.type, size |-> r.size]

\* FspServiceAdapter::on_fsp_message; "PING" is not a request and too short for one.
OnFspMessage(type, req, room) ==
    IF type # "data" THEN Nothing
    ELSE IF req.flaw = "ping" /\ room >= 4 THEN Pong
    ELSE LET bad == IF req.flaw = "ping" THEN [req EXCEPT !.flaw = "envelope"] ELSE req
             r == DispatchRequest(bad, room)
             e == ErrorResponse(r.error, room)
         IN  IF r.ok THEN AppReply(r)
             ELSE IF e.ok THEN AppReply(e) ELSE [kind |-> "disconnect"]

\* The FSP handler gives the application what is left of the response buffer of the
\* node behind its headers, and seals the reply in place.
Behind == 35 + 12 + 6
Sealed(n, resp) == IF resp - 47 < 6 + n + 16 THEN {} ELSE {47 + 6 + n + 16}

\* send_session_datagram: what does not fit into a 256-byte frame is not sent.
Sent(n) == 16 + 4 + 1 + n + 16 <= 256

ServeFsp ==
    /\ call.via = "fsp" /\ outcome.kind = "none"
    /\ outcome' =
         IF call.resp <= Behind THEN Nothing
         ELSE LET r == OnFspMessage(call.type, call.req, call.resp - Behind)
              IN  IF r.kind # "reply" THEN r
                  ELSE [kind |-> "reply", status |-> r.status, type |-> r.type, size |-> r.size,
                        sent |-> \E n \in Sealed(r.size, call.resp) : Sent(n)]
    /\ UNCHANGED call

----------------------------------------------------------------------------
(* Over HTTP *)

HttpRoute(method, paths, free) ==
    {[method |-> method, path |-> p, prefix |-> free] : p \in paths}

\* demo_router
HttpRoutes ==
    HttpRoute("GET", {<<"health">>, <<"info">>, <<"v1", "info">>, <<"v1", "keys">>,
                      <<"v1", "keysets">>}, FALSE)
    \cup HttpRoute("POST", {<<"echo">>, Quote("mint"), <<"v1", "mint", "bolt11">>,
                            Quote("melt"), <<"v1", "melt", "bolt11">>, <<"v1", "swap">>}, FALSE)
    \cup HttpRoute("POST", {<<"rpc">>}, TRUE)
    \cup HttpRoute("GET", {Quote("mint"), Quote("melt")}, TRUE)

\* The HTTP library takes a free segment as exactly one.
HttpMatches(r, path) ==
    IF r.prefix THEN Len(path) = Len(r.path) + 1 /\ Matches(r, path) ELSE Matches(r, path)

\* A GET handler passes no payload on.
Passed(r, req) == IF r.method = "GET" THEN [req EXCEPT !.payload = 0] ELSE req

\* call_backend with LocalServiceClient::call: the request buffer grows with the
\* request, the response buffer has 4096 bytes.
CallBackend(req) ==
    LET r == IF req.payload > 65535 THEN Fails("small") ELSE DispatchRequest(req, 4096)
    IN  IF r.ok THEN AppReply(r)
        ELSE [kind |-> "reply", status |-> StatusOf(r.error), type |-> "text",
              size |-> 8 + MessageSize(r.error)]

\* The HTTP library answers 404 or 405 itself where no route fits.
ServeHttp ==
    /\ call.via = "http" /\ outcome.kind = "none"
    /\ LET hits == {r \in HttpRoutes : HttpMatches(r, call.req.path)}
           good == {r \in hits : r.method = call.req.method}
       IN  outcome' = IF good # {} THEN CallBackend(Passed(CHOOSE r \in good : TRUE, call.req))
                    ELSE [kind |-> "http", status |-> IF hits # {} THEN 405 ELSE 404]
    /\ UNCHANGED call

----------------------------------------------------------------------------
Paths ==
    {Path(DemoRoutes[i].path) : i \in 1..Len(DemoRoutes)}
    \cup {Path(DemoRoutes[i].path) \o <<s>> : i \in 1..Len(DemoRoutes),
            s \in {Free(n) : n \in IdSizes}}
    \cup {Path(<<"rpc", m>>) : m \in {"ping", "health", "info"}}

Requests(payloads) ==
    [method : {"GET", "POST", "PUT"}, path : Paths, payload : payloads, flaw : {"none"}]
Malformed ==
    [method : {"GET"}, path : {Path(<<"health">>)}, payload : {0},
     flaw : {"envelope", "version", "kind", "bad_method", "utf8", "ping"}]

\* Every request either way in can meet.
Calls ==
    [via : {"fsp"}, type : {"data", "other"}, resp : RespSizes,
     req : Requests(FspBodies) \cup Malformed]
      \cup [via : {"http"}, req : Requests(HttpBodies)]

SvInit == call \in Calls /\ outcome = [kind |-> "none"]

SvNext == ServeFsp \/ ServeHttp

SvSpec == SvInit /\ [][SvNext]_svVars

----------------------------------------------------------------------------
(* Properties *)

Known == \E i \in 1..Len(DemoRoutes) : Matches(DemoRoutes[i], call.req.path)
Allowed ==
    \E i \in 1..Len(DemoRoutes) :
        Matches(DemoRoutes[i], call.req.path) /\ DemoRoutes[i].method = call.req.method
UnknownRpc == call.req.path[1] = Seg("rpc") /\ RpcBody(call.req.path[Len(call.req.path)]) = {}

\* The status says what happened: a wrong method is told from an unknown path,
\* whatever the order of the routes, and an answer that does not fit is an error of
\* its own, not a failure of the route.
StatusIsRight ==
    outcome.kind = "reply" /\ call.req.flaw = "none" /\ call.req.payload <= 65535 =>
        /\ outcome.status = 404 <=> ~Known \/ (Allowed /\ UnknownRpc)
        /\ outcome.status = 405 <=> Known /\ ~Allowed
        /\ outcome.status \in {200, 404, 405, 413}

\* A request, well formed or not, never ends the session when there is room for an
\* error message: only a buffer too small even for that disconnects.
BadRequestsAreAnswered ==
    outcome.kind = "disconnect" => call.resp < Behind + 8 + 36

\* HTTP and FSP clients get the same answer for the same request where the HTTP
\* library finds the route; where it does not, the service would not serve it (a
\* body longer than the envelope can say is refused before the service sees it).
SameAnswerOverHttp ==
    call.via = "http" /\ outcome.kind # "none" /\ call.req.payload <= 65535 =>
        LET direct == OnFspMessage("data", call.req, 4096)
        IN  /\ outcome.status = direct.status
            /\ outcome.kind = "reply" => outcome.size = direct.size

\* With the node's 320-byte response buffer every answer of the demo service to a
\* request without a payload, a quote's with an id of up to 75 bytes included, reaches
\* the peer: it passes the FSP envelope and the 256-byte frame.
FixedAnswersLeave ==
    /\ outcome.kind = "reply" /\ call.via = "fsp" /\ call.resp = 320
    /\ call.req.payload = 0
    /\ \A i \in 1..Len(call.req.path) : call.req.path[i][2] <= 75
    => outcome.sent

\* Every request is answered, with the status that fits it, the same way over HTTP
\* and FSP, and the answer leaves the node.
RequestsAreServed ==
    StatusIsRight /\ BadRequestsAreAnswered /\ SameAnswerOverHttp /\ FixedAnswersLeave

=============================================================================
