--------------------------- MODULE HttpServerStack ---------------------------
(***************************************************************************)
(* The HttpServer of src/src/http/server/service.rs.  The builder methods *)
(* wrap the ServiceBuilder's layer L into Stack<T, L>, the new layer T    *)
(* inside the earlier ones.  `service` and `serve` apply the stack to the *)
(* leaf service, `HttpService::call` and `serve` hand a connection to     *)
(* hyper, and `HyperServiceWrapper::call` runs each request hyper reads   *)
(* through the one Arc'd service.  A request walks down the layers (each *)
(* one's pre-processing), reaches the leaf, and walks back up (each one's *)
(* post-processing); requests of one connection interleave under h2, and  *)
(* follow each other under HTTP/1.                                        *)
(***************************************************************************)
EXTENDS StackLayers, FiniteSets

CONSTANTS
    Req,        \* the requests clients send
    Conns,      \* the TCP connections they arrive on
    ConnOf,     \* the connection of each request
    MaxLayers   \* bound on the number of layers a run builds

ASSUME StackAssumption ==
    /\ ConnOf \in [Req -> Conns]
    /\ MaxLayers \in Nat

VARIABLES
    proto,      \* the hyper connection builder: "http1", "h2" or "auto"
    phase,      \* "building", "service" (consumed by service) or "serve"
    sb,         \* the ServiceBuilder's layer, as the layers it wraps
    calls,      \* history: the builder calls made, in order
    svc,        \* the layers of the built service, outermost first
    connProto,  \* per connection: "none" (not served yet), "http1", "h2"
    stage,      \* per request: "idle", "down", "leaf", "up", "done"
    pos,        \* per request: the layer it is at (Len(svc)+1: the leaf)
    cur,        \* per request: the request as it is passed inwards
    saved,      \* per request and layer: the request that layer received
    res,        \* per request: the result passed outwards
    req0,       \* history: the request as hyper delivered it
    out         \* per request: the result hyper got

vars == << proto, phase, sb, calls, svc, connProto,
          stage, pos, cur, saved, res, req0, out >>

reqVars == << stage, pos, cur, saved, res, req0, out >>

(* The builder methods, one set per impl block of service.rs.  Each of   *)
(* them moves the hyper builder over and replaces the service builder by *)
(* `self.service_builder.<method>(arg)`.                                 *)
CustomLayerMethods == {"layer"}

ServiceMethods == {"timeout", "filter", "filter_async"}

HttpLayerMethods ==
    {"propagate_header", "add_extension", "map_request_body",
     "map_response_body", "compression", "decompression", "trace",
     "trace_layer", "follow_redirects", "sensitive_headers",
     "sensitive_request_headers", "sensitive_response_headers"}

HeaderMethods ==
    {"override_request_header", "append_request_header",
     "insert_request_header_if_not_present", "override_response_header",
     "append_response_header", "insert_response_header_if_not_present"}

RequestIdMethods ==
    {"set_request_id", "set_x_request_id", "propagate_request_id",
     "propagate_x_request_id"}

GuardMethods == {"catch_panic", "request_body_limit", "trim_trailing_slash"}

BuilderMethods ==
    CustomLayerMethods \cup ServiceMethods \cup HttpLayerMethods
    \cup HeaderMethods \cup RequestIdMethods \cup GuardMethods

ASSUME MethodsAssumption == Methods \subseteq BuilderMethods

(* A Layer value is given by what it does to a service: the layers it    *)
(* wraps around it, outermost first.  Identity wraps none, a single      *)
(* layer one.  Two Stack trees that wrap the same layers in the same      *)
(* order serve every request alike, so nothing here tells them apart.    *)
Identity == << >>

Single(l) == << l >>

(* Mutant: the new layer made the outer one, Stack::new(self.layer, t).   *)
PushOutermost(b, t) == t \o b

(* ServiceBuilder::layer(t): Stack::new(t, self.layer), whose              *)
(* Stack::layer(s) is outer.layer(inner.layer(s)) with t the inner: the   *)
(* layers of b wrap those of t.                                           *)
Push(b, t) == b \o t

(* The Layer value a call passes to the service builder.  A custom stack *)
(* is ServiceBuilder::new() followed by the calls in c.sub, each one a    *)
(* Push of its Single: the calls' layers in call order.                   *)
LayerArg(c) ==
    IF c.m # "layer" THEN Single(SbLayer(c.m, c.v))
    ELSE IF c.sub = << >> THEN Single(Pass)
    ELSE [i \in 1..Len(c.sub) |-> SbLayer(c.sub[i].m, c.sub[i].v)]

(* The hyper protocols a connection of this builder speaks; the auto     *)
(* builder reads the connection preface and picks one.                   *)
Negotiate ==
    IF proto = "auto" THEN {"http1", "h2"} ELSE {proto}

Busy == {"down", "leaf", "up"}

(* HttpServer::http1(), h2(), auto(): the builder and ServiceBuilder::new(). *)
Init ==
    /\ proto \in {"http1", "h2", "auto"}
    /\ phase = "building"
    /\ sb = Identity
    /\ calls = << >>
    /\ svc = << >>
    /\ connProto = [c \in Conns |-> "none"]
    /\ stage = [r \in Req |-> "idle"]
    /\ pos = [r \in Req |-> 0]
    /\ cur = [r \in Req |-> NoReq]
    /\ saved = [r \in Req |-> [i \in 1..MaxLayers |-> NoReq]]
    /\ res = [r \in Req |-> NoRes]
    /\ req0 = [r \in Req |-> NoReq]
    /\ out = [r \in Req |-> NoRes]

(* Any builder method: HttpServer { builder, service_builder: .. }.      *)
Build(c) ==
    /\ phase = "building"
    /\ Len(sb) + Len(LayerArg(c)) <= MaxLayers
    /\ sb' = Push(sb, LayerArg(c))
    /\ calls' = Append(calls, c)
    /\ UNCHANGED << proto, phase, svc, connProto >>
    /\ UNCHANGED reqVars

(* Mutant: the shadowed `service` mixed up, the leaf served unlayered.   *)
ServiceUnlayered ==
    /\ phase = "building"
    /\ phase' = "service"
    /\ svc' = << >>
    /\ UNCHANGED << proto, sb, calls, connProto >>
    /\ UNCHANGED reqVars

(* HttpServer::service: consumes the server, applies the stack to the    *)
(* leaf, and wraps it in an HttpService sharing it through an Arc.       *)
Service ==
    /\ phase = "building"
    /\ phase' = "service"
    /\ svc' = sb
    /\ UNCHANGED << proto, sb, calls, connProto >>
    /\ UNCHANGED reqVars

(* HttpService::call: a clone of the shared service serves connection c. *)
CallConn(c) ==
    /\ phase = "service"
    /\ connProto[c] = "none"
    /\ \E p \in Negotiate : connProto' = [connProto EXCEPT ![c] = p]
    /\ UNCHANGED << proto, phase, sb, calls, svc >>
    /\ UNCHANGED reqVars

(* Mutant: serve hands hyper the leaf instead of the layered service.    *)
ServeUnlayered(c) ==
    /\ phase \in {"building", "serve"}
    /\ connProto[c] = "none"
    /\ phase' = "serve"
    /\ svc' = << >>
    /\ \E p \in Negotiate : connProto' = [connProto EXCEPT ![c] = p]
    /\ UNCHANGED << proto, sb, calls >>
    /\ UNCHANGED reqVars

(* HttpServer::serve(&self, stream, leaf): applies the stack to the leaf *)
(* anew and serves connection c with it.                                 *)
Serve(c) ==
    /\ phase \in {"building", "serve"}
    /\ connProto[c] = "none"
    /\ phase' = "serve"
    /\ svc' = sb
    /\ \E p \in Negotiate : connProto' = [connProto EXCEPT ![c] = p]
    /\ UNCHANGED << proto, sb, calls >>
    /\ UNCHANGED reqVars

(* HyperServiceWrapper::call: hyper has read request r on its connection *)
(* (under HTTP/1, only once the connection's previous response is out); *)
(* the wrapper rebuilds it around a HyperBody and calls the service.     *)
Arrive(r) ==
    /\ phase \in {"service", "serve"}
    /\ stage[r] = "idle"
    /\ connProto[ConnOf[r]] # "none"
    /\ connProto[ConnOf[r]] = "http1" =>
         \A q \in Req \ {r} : ConnOf[q] = ConnOf[r] => stage[q] \notin Busy
    /\ \E rq \in ClientRequests :
         /\ cur' = [cur EXCEPT ![r] = rq]
         /\ req0' = [req0 EXCEPT ![r] = rq]
    /\ stage' = [stage EXCEPT ![r] = "down"]
    /\ pos' = [pos EXCEPT ![r] = 1]
    /\ UNCHANGED << proto, phase, sb, calls, svc, connProto, saved, res, out >>

(* The layer at pos[r] receives the request: it answers itself, or       *)
(* records what it received and passes its pre-processed request inwards. *)
Descend(r) ==
    LET i == pos[r]
        l == svc[i] IN
    /\ stage[r] = "down"
    /\ i <= Len(svc)
    /\ \/ /\ Stops(l, cur[r])
          /\ res' = [res EXCEPT ![r] = StopResult(l)]
          /\ stage' = [stage EXCEPT ![r] = "up"]
          /\ pos' = [pos EXCEPT ![r] = i - 1]
          /\ UNCHANGED << cur, saved >>
       \/ /\ ~Stops(l, cur[r])
          /\ saved' = [saved EXCEPT ![r] = [saved[r] EXCEPT ![i] = cur[r]]]
          /\ cur' = [cur EXCEPT ![r] = Pre(l, cur[r])]
          /\ pos' = [pos EXCEPT ![r] = i + 1]
          /\ UNCHANGED << stage, res >>
    /\ UNCHANGED << proto, phase, sb, calls, svc, connProto, req0, out >>

(* The leaf service is called: it answers (or panics) at once, or it    *)
(* keeps the request waiting.                                            *)
Leaf(r) ==
    /\ stage[r] = "down"
    /\ pos[r] = Len(svc) + 1
    /\ \/ /\ cur[r].leaf \in {"slow", "stall"}
          /\ stage' = [stage EXCEPT ![r] = "leaf"]
          /\ UNCHANGED << pos, res >>
       \/ /\ cur[r].leaf \notin {"slow", "stall"}
          /\ res' = [res EXCEPT ![r] = LeafResult(cur[r])]
          /\ stage' = [stage EXCEPT ![r] = "up"]
          /\ pos' = [pos EXCEPT ![r] = Len(svc)]
    /\ UNCHANGED << proto, phase, sb, calls, svc, connProto, cur, saved, req0, out >>

(* A slow leaf answers after all, unless a timer has fired first.        *)
LeafLate(r) ==
    /\ stage[r] = "leaf"
    /\ cur[r].leaf = "slow"
    /\ res' = [res EXCEPT ![r] = LeafResult(cur[r])]
    /\ stage' = [stage EXCEPT ![r] = "up"]
    /\ pos' = [pos EXCEPT ![r] = Len(svc)]
    /\ UNCHANGED << proto, phase, sb, calls, svc, connProto, cur, saved, req0, out >>

(* The timer of the timeout layer i fires while the leaf has not         *)
(* answered: the inner future is dropped, no layer inside i sees a       *)
(* result, and layer i returns the Timeout error.                        *)
TimeoutFires(r, i) ==
    /\ stage[r] = "leaf"
    /\ i \in 1..Len(svc)
    /\ svc[i].kind = "timeout"
    /\ res' = [res EXCEPT ![r] = ErrRes("timeout")]
    /\ stage' = [stage EXCEPT ![r] = "up"]
    /\ pos' = [pos EXCEPT ![r] = i - 1]
    /\ UNCHANGED << proto, phase, sb, calls, svc, connProto, cur, saved, req0, out >>

(* The layer at pos[r] post-processes its inner service's result.        *)
Ascend(r) ==
    LET i == pos[r] IN
    /\ stage[r] = "up"
    /\ i >= 1
    /\ res' = [res EXCEPT ![r] = Post(svc[i], saved[r][i], res[r])]
    /\ pos' = [pos EXCEPT ![r] = i - 1]
    /\ UNCHANGED << proto, phase, sb, calls, svc, connProto, stage, cur, saved, req0, out >>

(* The outermost service's future resolves and hyper gets the result.   *)
Respond(r) ==
    /\ stage[r] = "up"
    /\ pos[r] = 0
    /\ stage' = [stage EXCEPT ![r] = "done"]
    /\ out' = [out EXCEPT ![r] = res[r]]
    /\ UNCHANGED << proto, phase, sb, calls, svc, connProto, pos, cur, saved, res, req0 >>

(* The steps of request r once hyper has called the service.             *)
Progress(r) ==
    \/ Descend(r)
    \/ Leaf(r)
    \/ LeafLate(r)
    \/ \E i \in 1..MaxLayers : TimeoutFires(r, i)
    \/ Ascend(r)
    \/ Respond(r)

Next ==
    \/ \E c \in Calls : Build(c)
    \/ Service
    \/ \E c \in Conns : CallConn(c) \/ Serve(c)
    \/ \E r \in Req : Arrive(r) \/ Progress(r)

Spec == Init /\ [][Next]_vars

(* Tokio polls every woken task and the timer wakes a timeout's task, so *)
(* each request in the service keeps progressing.  Builder calls,        *)
(* connections and requests arriving are up to the program and clients.  *)
FairSpec == Spec /\ \A r \in Req : WF_vars(Progress(r))

-----------------------------------------------------------------------------

(* The type invariant.  The stack built and the service served never     *)
(* hold more than MaxLayers layers, each one a builder method's.          *)
TypeOK ==
    /\ proto \in {"http1", "h2", "auto"}
    /\ phase \in {"building", "service", "serve"}
    /\ calls \in Seq(Calls)
    /\ sb \in Seq(Layers) /\ Len(sb) <= MaxLayers
    /\ svc \in Seq(Layers) /\ Len(svc) <= MaxLayers
    /\ connProto \in [Conns -> {"none", "http1", "h2"}]
    /\ stage \in [Req -> {"idle", "down", "leaf", "up", "done"}]
    /\ pos \in [Req -> 0..MaxLayers + 1]
    /\ cur \in [Req -> Request \cup {NoReq}]
    /\ saved \in [Req -> [1..MaxLayers -> Request \cup {NoReq}]]
    /\ res \in [Req -> Result \cup {NoRes}]
    /\ req0 \in [Req -> ClientRequests \cup {NoReq}]
    /\ out \in [Req -> Result \cup {NoRes}]

(* A request hyper has handed to the service is eventually answered,     *)
(* unless its leaf never answers and none of the builder calls made     *)
(* bounds it with a timeout.                                             *)
Unbounded(r) ==
    /\ stage[r] = "leaf"
    /\ cur[r].leaf = "stall"
    /\ \A i \in 1..Len(LayersOf(calls)) : LayersOf(calls)[i].kind # "timeout"

Responds == \A r \in Req : stage[r] \in Busy ~> (stage[r] = "done" \/ Unbounded(r))

=============================================================================
