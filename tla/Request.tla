------------------------------ MODULE Request -------------------------------
(***************************************************************************)
(* One HTTP request through wf_server_mhd_handler and                       *)
(* wf_server_mhd_completed (src/server/xrpc_server.c): the calls that the   *)
(* HTTP daemon makes for it, buffered and streaming bodies, the look-ups,   *)
(* the rate limiter, the auth callback and the handler.                     *)
(*                                                                          *)
(* Requests share only what other threads may change between any two        *)
(* look-ups: the routes and max_body_bytes.  Whether the limiter and the    *)
(* auth callback let the request pass is left open.  Query parameters and   *)
(* headers are not represented.                                             *)
(***************************************************************************)
EXTENDS Integers

CONSTANTS Caps,    \* values given to wf_xrpc_server_set_max_body_bytes
          Chunks,  \* sizes of the pieces in which a body arrives
          MaxBody  \* bound: size of a body

ASSUME RequestAssumption ==
  /\ Caps \subseteq Nat \ {0} /\ Caps # {}
  /\ Chunks \subseteq Nat \ {0}
  /\ MaxBody \in Nat

VARIABLES
  \* the server, as far as the URL of the request is concerned
  queryRoute,  \* the newest query route of its NSID
  procRoute,   \* the newest procedure route of its NSID
  http,        \* HTTP routes that match its path, by method: "whole" for one,
               \* exact or prefix, whose path is the URL, "prefix" for a shorter one
  static,      \* a static route matches its path
  cap,         \* max_body_bytes
  \* the request
  req,         \* its method, whether the URL is /xrpc/<nsid>, and which callbacks exist
  pc,          \* where the request is
  con,         \* *con_cls: "null", "one", "buffer" or "stream"
  made, freed, \* buffers and stream contexts allocated for it, and freed
  sent,        \* bytes of the body that have arrived
  len, over,   \* post_buf: len and overflow
  route,       \* the route found: what it was registered as
  passed,      \* checks the request has passed
  ran,         \* the callback run for it
  ctx,         \* stream->stream_ctx is set
  written,     \* bytes that streaming.write has accepted
  missed,      \* a piece was refused and there was no memory for the response
  finished,    \* stream->finished
  cleaned,     \* calls of streaming.cleanup
  status       \* status of the response, once its body is set; 0 before

serverVars == <<queryRoute, procRoute, http, static, cap>>
streamVars == <<ctx, written, missed, finished, cleaned>>
vars == <<serverVars, req, pc, con, made, freed, sent, len, over, route, passed, ran,
          streamVars, status>>

Methods  == {"GET", "POST"}
Queries  == {"none", "query", "ws", "sse"}
Procs    == {"none", "procedure", "streaming"}
Statuses == {0, 101, 200, 204, 400, 401, 405, 413, 429, 500, 501}

FindHttp(method) == \E form \in {"whole", "prefix"} : <<method, form>> \in http
HasPath          == \E method \in Methods : <<method, "whole">> \in http

Init ==
  /\ queryRoute \in Queries
  /\ procRoute \in Procs
  /\ http \in SUBSET (Methods \X {"whole", "prefix"})
  /\ static \in BOOLEAN /\ (static => ~HasPath)
  /\ cap \in Caps
  /\ req \in [method : Methods \cup {"OPTIONS"}, xrpc : BOOLEAN, auth : BOOLEAN, fallback : BOOLEAN]
  /\ pc = "first"
  /\ con = "null"
  /\ made = 0 /\ freed = 0
  /\ sent = 0 /\ len = 0 /\ over = FALSE
  /\ route = "none"
  /\ passed = {}
  /\ ran = "none"
  /\ ctx = FALSE /\ written = 0 /\ missed = FALSE /\ finished = FALSE /\ cleaned = 0
  /\ status = 0

-----------------------------------------------------------------------------
(* Registration from other threads, under routes_mutex.  Routes are put in  *)
(* front of the list and never removed, so a newer one hides an older one.  *)

requestVars == <<req, pc, con, made, freed, sent, len, over, route, passed, ran,
                 streamVars, status>>

RegisterQuery ==
  /\ queryRoute' \in Queries \ {"none"}
  /\ UNCHANGED <<procRoute, http, static, cap, requestVars>>

RegisterProcedure ==
  /\ procRoute' \in Procs \ {"none"}
  /\ UNCHANGED <<queryRoute, http, static, cap, requestVars>>

\* wf_server_add_http_route, for the path itself or for a proper prefix of it.
RegisterHttp ==
  /\ \E method \in Methods :
       \/ ~static /\ ~FindHttp(method) /\ http' = http \cup {<<method, "whole">>}
       \/ http' = http \cup {<<method, "prefix">>}
  /\ UNCHANGED <<queryRoute, procRoute, static, cap, requestVars>>

RegisterStatic ==
  /\ ~static /\ ~HasPath
  /\ static' = TRUE
  /\ UNCHANGED <<queryRoute, procRoute, http, cap, requestVars>>

SetMaxBody ==
  /\ cap' \in Caps
  /\ UNCHANGED <<queryRoute, procRoute, http, static, requestVars>>

-----------------------------------------------------------------------------
(* The end of a call of the handler.                                       *)

\* The send and cleanup labels: the response is queued, or could not be made and
\* the connection is refused; the buffer is freed.
Answer(s) ==
  /\ status' \in {s, 0}
  /\ pc' = "answered"
  /\ con' = "null"
  /\ freed' = IF con = "buffer" THEN freed + 1 ELSE freed

\* wf_stream_request_free.
FreeStream ==
  /\ freed' = freed + 1
  /\ cleaned' = IF ctx THEN cleaned + 1 ELSE cleaned

-----------------------------------------------------------------------------
(* The first call, with *con_cls NULL.                                     *)

\* wf_server_mhd_options.
FirstOptions ==
  /\ pc = "first" /\ req.method = "OPTIONS"
  /\ Answer(204)
  /\ UNCHANGED <<serverVars, req, made, sent, len, over, route, passed, ran, streamVars>>

FirstGet ==
  /\ pc = "first" /\ req.method = "GET"
  /\ con' = "one"
  /\ pc' = "body"
  /\ UNCHANGED <<serverVars, req, made, freed, sent, len, over, route, passed, ran,
                 streamVars, status>>

StreamingRoute == req.xrpc /\ procRoute = "streaming"

\* A POST without a streaming route gets a post_buf.
FirstPost ==
  /\ pc = "first" /\ req.method = "POST" /\ ~StreamingRoute
  /\ con' = "buffer"
  /\ made' = 1
  /\ pc' = "body"
  /\ UNCHANGED <<serverVars, req, freed, sent, len, over, route, passed, ran, streamVars, status>>

\* No memory for the buffer or the stream context: MHD_NO.
FirstFail ==
  /\ pc = "first" /\ req.method = "POST"
  /\ pc' = "answered"
  /\ UNCHANGED <<serverVars, req, con, made, freed, sent, len, over, route, passed, ran,
                 streamVars, status>>

Passed == {"limit"} \cup (IF req.auth THEN {"auth"} ELSE {})

\* wf_stream_request_begin: rate limiter, auth callback, then streaming.begin,
\* which gives a context or not, and sets a response or not, and may fail.  Any
\* refusal is kept as the response while the body is drained; without memory for
\* it (wf_xrpc_response_set_error) the stream has none.
FirstStream ==
  /\ pc = "first" /\ req.method = "POST" /\ StreamingRoute
  /\ con' = "stream"
  /\ made' = 1
  /\ pc' = "body"
  /\ route' = "streaming"
  /\ \/ status' \in {0, 429} /\ UNCHANGED <<passed, ran, ctx>>
     \/ req.auth /\ status' \in {0, 400, 401} /\ passed' = {"limit"} /\ UNCHANGED <<ran, ctx>>
     \/ /\ passed' = Passed
        /\ ran' = "begin"
        /\ ctx' \in BOOLEAN
        /\ status' \in {0, 200, 500}
  /\ UNCHANGED <<serverVars, req, freed, sent, len, over, written, missed, finished, cleaned>>

-----------------------------------------------------------------------------
(* Calls with a piece of the body.                                         *)

\* streaming.write takes the piece, sets a response of its own, or fails; once
\* there is a response the body is drained.  When there is no memory for the
\* response to a failure, the next piece goes to streaming.write again.
ChunkStream(n) ==
  /\ pc = "body" /\ con = "stream" /\ sent + n <= MaxBody
  /\ sent' = sent + n
  /\ IF status = 0 /\ ctx
     THEN \/ written' = written + n /\ UNCHANGED <<status, missed>>
          \/ status' \in {200, 500} /\ UNCHANGED <<written, missed>>
          \/ missed' = TRUE /\ UNCHANGED <<written, status>>
     ELSE UNCHANGED <<written, missed, status>>
  /\ UNCHANGED <<serverVars, req, pc, con, made, freed, len, over, route, passed, ran, ctx,
                 finished, cleaned>>

bufferCallUnchanged == <<serverVars, req, made, route, passed, ran, streamVars, status>>

\* Mutant: a piece beyond the cap is dropped without a trace.
ChunkBufferForgetful(n) ==
  /\ pc = "body" /\ con = "buffer" /\ sent + n <= MaxBody
  /\ sent' = sent + n
  /\ len' = IF n > cap \/ len > cap - n THEN len ELSE len + n
  /\ UNCHANGED <<bufferCallUnchanged, pc, con, freed, over>>

\* Buffered, or discarded with all that came before once the body passes the cap.
ChunkBuffer(n) ==
  /\ pc = "body" /\ con = "buffer" /\ sent + n <= MaxBody
  /\ sent' = sent + n
  /\ IF over \/ n > cap \/ len > cap - n
     THEN len' = 0 /\ over' = TRUE
     ELSE len' = len + n /\ UNCHANGED over
  /\ UNCHANGED <<bufferCallUnchanged, pc, con, freed>>

\* post_buf_append has no memory: MHD_NO.
ChunkFail ==
  /\ pc = "body" /\ con = "buffer" /\ ~over
  /\ \E n \in Chunks : n <= cap /\ len <= cap - n
  /\ freed' = freed + 1
  /\ con' = "null"
  /\ pc' = "answered"
  /\ UNCHANGED <<bufferCallUnchanged, sent, len, over>>

-----------------------------------------------------------------------------
(* The last call, without data.                                            *)

\* streaming.finish, unless there is a response already; then
\* wf_stream_request_respond and wf_stream_request_free.
LastStream ==
  /\ pc = "body" /\ con = "stream"
  /\ finished' = (status = 0 /\ ctx)
  /\ status' \in IF finished' THEN {0, 200, 500} ELSE {status, 0}
  /\ FreeStream
  /\ con' = "null"
  /\ pc' = "answered"
  /\ UNCHANGED <<serverVars, req, made, sent, len, over, route, passed, ran, ctx, written, missed>>

stepUnchanged == <<serverVars, req, made, sent, len, over, streamVars>>

Goto(to) == pc' = to /\ UNCHANGED <<con, freed, status>>

LastOverflow ==
  /\ pc = "body" /\ con = "buffer" /\ over
  /\ Answer(413)
  /\ UNCHANGED <<stepUnchanged, route, passed, ran>>

LastPost ==
  /\ pc = "body" /\ con = "buffer" /\ ~over
  /\ Goto("http")
  /\ UNCHANGED <<stepUnchanged, route, passed, ran>>

LastGet ==
  /\ pc = "body" /\ con = "one"
  /\ IF static THEN Answer(200) ELSE Goto("http")
  /\ UNCHANGED <<stepUnchanged, route, passed, ran>>

\* wf_server_find_http_route.
FindHttpRoute ==
  /\ pc = "http"
  /\ IF FindHttp(req.method) THEN route' = "http" /\ Goto("limit")
     ELSE UNCHANGED route /\ Goto("path")
  /\ UNCHANGED <<stepUnchanged, passed, ran>>

\* wf_server_has_http_path, then wf_server_extract_nsid.
CheckPath ==
  /\ pc = "path"
  /\ IF HasPath THEN Answer(405)
     ELSE IF req.xrpc THEN Goto("route") ELSE Answer(400)
  /\ UNCHANGED <<stepUnchanged, route, passed, ran>>

\* wf_server_find_route, for the kind that the method asks for ...
FindRoute ==
  /\ pc = "route"
  /\ route' = IF req.method = "POST" THEN procRoute ELSE queryRoute
  /\ Goto(IF route' = "none" THEN "other" ELSE "limit")
  /\ UNCHANGED <<stepUnchanged, passed, ran>>

\* ... and for the other kind; then the fallback.
FindOther ==
  /\ pc = "other"
  /\ IF (IF req.method = "POST" THEN queryRoute ELSE procRoute) # "none"
     THEN Answer(400) /\ UNCHANGED ran
     ELSE IF req.fallback THEN Answer(200) /\ ran' = "fallback"
     ELSE Answer(501) /\ UNCHANGED ran
  /\ UNCHANGED <<stepUnchanged, route, passed>>

\* wf_server_rate_limit_request.
Limit ==
  /\ pc = "limit"
  /\ \/ passed' = passed \cup {"limit"} /\ Goto("auth")
     \/ Answer(429) /\ UNCHANGED passed
  /\ UNCHANGED <<stepUnchanged, route, ran>>

\* Mutant: subscriptions are not authenticated.
AuthNoStreams ==
  /\ pc = "auth"
  /\ IF route \in {"http", "ws", "sse"} \/ ~req.auth THEN UNCHANGED passed /\ Goto("handle")
     ELSE \/ passed' = passed \cup {"auth"} /\ Goto("handle")
          \/ (Answer(400) \/ Answer(401)) /\ UNCHANGED passed
  /\ UNCHANGED <<stepUnchanged, route, ran>>

\* The auth callback, which HTTP routes do without.
Auth ==
  /\ pc = "auth"
  /\ IF route = "http" \/ ~req.auth THEN UNCHANGED passed /\ Goto("handle")
     ELSE \/ passed' = passed \cup {"auth"} /\ Goto("handle")
          \/ (Answer(400) \/ Answer(401)) /\ UNCHANGED passed
  /\ UNCHANGED <<stepUnchanged, route, ran>>

\* The WebSocket handshake, the SSE stream, or the handler: the route of a POST is
\* called as a procedure whatever it was registered as.
Handle ==
  /\ pc = "handle"
  /\ \/ /\ route \in {"ws", "sse"}
        /\ \/ ran' = route /\ Answer(IF route = "ws" THEN 101 ELSE 200)
           \/ ran' \in {route, "none"} /\ route = "sse" /\ Answer(500)
           \/ ran' = "none" /\ route = "ws" /\ Answer(400)
     \/ /\ route \notin {"ws", "sse"}
        /\ ran' = IF route \in {"http", "query"} THEN route ELSE "procedure"
        /\ Answer(200)
  /\ UNCHANGED <<stepUnchanged, route, passed>>

-----------------------------------------------------------------------------
\* Mutant: buffers are left to the handler.
CompletedStreamsOnly ==
  /\ pc \in {"body", "answered"}
  /\ pc' = "ended"
  /\ con' = "null"
  /\ IF con = "stream" THEN FreeStream ELSE UNCHANGED <<freed, cleaned>>
  /\ UNCHANGED <<serverVars, req, made, sent, len, over, route, passed, ran, ctx, written,
                 missed, finished, status>>

\* wf_server_mhd_completed: after the answer, or when the client is lost before
\* the last call.
Completed ==
  /\ pc \in {"body", "answered"}
  /\ pc' = "ended"
  /\ con' = "null"
  /\ CASE con = "stream" -> FreeStream
       [] con = "buffer" -> freed' = freed + 1 /\ UNCHANGED cleaned
       [] OTHER -> UNCHANGED <<freed, cleaned>>
  /\ UNCHANGED <<serverVars, req, made, sent, len, over, route, passed, ran, ctx, written,
                 missed, finished, status>>

Register == RegisterQuery \/ RegisterProcedure \/ RegisterHttp \/ RegisterStatic \/ SetMaxBody

Next ==
  \/ Register /\ pc # "ended"
  \/ FirstOptions \/ FirstGet \/ FirstPost \/ FirstFail \/ FirstStream
  \/ \E n \in Chunks : ChunkStream(n) \/ ChunkBuffer(n)
  \/ ChunkFail
  \/ LastStream \/ LastOverflow \/ LastPost \/ LastGet
  \/ FindHttpRoute \/ CheckPath \/ FindRoute \/ FindOther \/ Limit \/ Auth \/ Handle
  \/ Completed

Spec == Init /\ [][Next]_vars

-----------------------------------------------------------------------------
\* Types; a buffered body is never longer than the largest cap that was set.
TypeOK ==
  /\ queryRoute \in Queries /\ procRoute \in Procs
  /\ http \in SUBSET (Methods \X {"whole", "prefix"}) /\ static \in BOOLEAN
  /\ cap \in Caps
  /\ req \in [method : Methods \cup {"OPTIONS"}, xrpc : BOOLEAN, auth : BOOLEAN, fallback : BOOLEAN]
  /\ pc \in {"first", "body", "http", "path", "route", "other", "limit", "auth", "handle",
             "answered", "ended"}
  /\ con \in {"null", "one", "buffer", "stream"}
  /\ made \in 0..1 /\ freed \in Nat
  /\ sent \in 0..MaxBody /\ written \in 0..MaxBody
  /\ len \in Nat /\ \E c \in Caps : len <= c
  /\ over \in BOOLEAN
  /\ route \in Queries \cup Procs \cup {"http"}
  /\ passed \subseteq {"limit", "auth"}
  /\ ran \in {"none", "begin", "fallback", "http", "query", "procedure", "ws", "sse"}
  /\ ctx \in BOOLEAN /\ missed \in BOOLEAN /\ finished \in BOOLEAN /\ cleaned \in Nat
  /\ status \in Statuses

\* include/wolfram/xrpc_server.h, "cleanup is always called once for a non-NULL
\* stream context, including when the peer disconnects early": once, by the last
\* call or by the completion callback, and not before.
CleanupOnce == cleaned = IF ctx /\ pc \in {"answered", "ended"} THEN 1 ELSE 0

\* The post_buf or stream context of a request is freed exactly once, whether the
\* request is answered, refused, out of memory or abandoned by the client.
ReleasedOnce == freed <= made /\ (pc = "ended" => freed = made)

\* streaming.finish, and so cleanup with completed set, is reached only when
\* streaming.write has accepted every byte of the body, with one exception: a
\* piece was refused and wf_xrpc_response_set_error had no memory for the
\* response, by which alone the refusal is known afterwards.
FinishedWhole == finished => written = sent \/ missed

\* A handler that reads req->body gets all of the body: one that passed the cap, as
\* it was when a piece arrived, is refused and never handed over in part.
WholeBody ==
  req.method = "POST" /\ ran \in {"http", "procedure", "fallback"} => len = sent

\* "If set, called before each handler": whatever other threads register in the
\* meantime, the handler of an NSID runs only for a request that has passed the
\* limiter and, where there is one, the auth callback.
CheckedFirst == ran \in {"begin", "query", "procedure", "ws", "sse"} => passed = Passed

\* The look-ups lock routes_mutex "so concurrent registration from another thread
\* is safe": a route is called as what it was registered as.  It does not hold: a
\* streaming procedure registered while a body is buffered is called as an
\* ordinary one.  No run checks it.
CalledAsRegistered == ran \notin {"none", "begin", "fallback"} => ran = route
=============================================================================
