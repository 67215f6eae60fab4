----------------------- MODULE HttpServerStackProofs -----------------------
(***************************************************************************)
(* Proofs about HttpServerStack: the type invariant, for every set of     *)
(* requests, connections, builder methods and every layer bound.          *)
(***************************************************************************)
EXTENDS HttpServerStack, SequenceTheorems, TLAPS

(* What a layer carries: an extension value, or a header value.          *)
LayerOK(l) ==
    /\ l.kind = "ext" => l.val \in ExtVals
    /\ l.kind \in {"reqHdr", "respHdr"} => l.val \in AllHdrVals

(* The inductive invariant.  A request is handed to the service only    *)
(* once it is built, and the service is then the stack built; a request *)
(* in the service is a client's request and sits at a layer of it; one   *)
(* on its way out carries a result.                                      *)
ReqInv(r) ==
    /\ stage[r] # "idle" => phase # "building" /\ cur[r] \in Request
    /\ stage[r] = "down" => pos[r] \in 1..Len(svc) + 1
    /\ stage[r] = "up" => pos[r] \in 0..Len(svc) /\ res[r] \in Result

IInv ==
    /\ TypeOK
    /\ phase # "building" => svc = sb
    /\ \A r \in Req : ReqInv(r)

-----------------------------------------------------------------------------
(* Lemmas on the layers and on what they do to a request and a result.   *)

(* Each layer a builder method adds carries a value of its kind.         *)
LEMMA LayersOK == \A l \in Layers : LayerOK(l)
<1> SUFFICES ASSUME NEW c \in SubCalls PROVE LayerOK(SbLayer(c.m, c.v))
    BY DEF Layers, LayerOK, Pass, Lyr, NoVal
<1>1. c.m \in Methods \ {"layer"} /\ c.v \in Params(c.m)
    BY DEF SubCalls
<1>2. CASE c.m = "add_extension"
    BY <1>1, <1>2 DEF LayerOK, SbLayer, Lyr, Params
<1>3. CASE c.m \in {"filter", "filter_async", "override_request_header",
                    "append_request_header", "insert_request_header_if_not_present",
                    "override_response_header", "append_response_header",
                    "insert_response_header_if_not_present"}
    BY <1>1, <1>3 DEF LayerOK, SbLayer, Lyr, Params, AllHdrVals
<1>4. CASE c.m \notin {"add_extension", "filter", "filter_async",
                       "override_request_header", "append_request_header",
                       "insert_request_header_if_not_present",
                       "override_response_header", "append_response_header",
                       "insert_response_header_if_not_present"}
    BY <1>4 DEF LayerOK, SbLayer, Lyr, AllHdrVals, Pass
<1> QED
    BY <1>2, <1>3, <1>4

(* The Layer value of a builder call is a sequence of layers.             *)
LEMMA LayerArgType == ASSUME NEW c \in Calls PROVE LayerArg(c) \in Seq(Layers)
<1>1. \A d \in SubCalls : SbLayer(d.m, d.v) \in Layers
    BY DEF Layers
<1>2. CASE c.m # "layer"
    <2>1. PICK d \in SubCalls : c = [m |-> d.m, v |-> d.v, sub |-> << >>]
        BY <1>2 DEF Calls
    <2> QED
        BY <1>1, <2>1, <1>2 DEF LayerArg, Single
<1>3. CASE c.m = "layer"
    <2>1. \A d \in SubCalls : d.m # "layer"
        BY DEF SubCalls
    <2>2. c \in {[m |-> "layer", v |-> NoVal, sub |-> s] :
                  s \in {<< >>} \cup {<< a, b >> : a, b \in SubCalls}}
        BY <1>3, <2>1 DEF Calls
    <2>3. PICK s \in {<< >>} \cup {<< a, b >> : a, b \in SubCalls} : c.sub = s
        BY <2>2
    <2>4. CASE s = << >>
        BY <2>3, <2>4, <1>3 DEF LayerArg, Single, Layers
    <2>5. CASE s # << >>
        <3>1. PICK a, b \in SubCalls : c.sub = << a, b >>
            BY <2>3, <2>5
        <3> QED
            BY <3>1, <1>1, <1>3 DEF LayerArg
    <2> QED
        BY <2>4, <2>5
<1> QED
    BY <1>2, <1>3

(* Overriding, appending or inserting a header value keeps header values. *)
LEMMA SetHdrType ==
    ASSUME NEW mode, NEW h \in Seq(AllHdrVals), NEW v \in AllHdrVals
    PROVE SetHdr(mode, h, v) \in Seq(AllHdrVals)
BY DEF SetHdr

(* A client's request is a request.                                      *)
LEMMA ClientType == ClientRequests \subseteq Request
BY LayersAssumption DEF ClientRequests, Request, AllHdrVals

(* A layer's pre-processing turns a request into a request.              *)
LEMMA PreType ==
    ASSUME NEW l \in Layers, NEW rq \in Request PROVE Pre(l, rq) \in Request
<1>1. LayerOK(l)
    BY LayersOK
<1>2. CASE l.kind = "ext"
    BY <1>1, <1>2 DEF Pre, Request, LayerOK
<1>3. CASE l.kind = "reqHdr"
    <2>1. SetHdr(l.mode, rq.hdr, l.val) \in Seq(AllHdrVals)
        BY <1>1, <1>3, SetHdrType DEF LayerOK, Request
    <2> QED
        BY <1>3, <2>1 DEF Pre, Request
<1> QED
    BY <1>2, <1>3 DEF Pre

(* A layer's post-processing turns a result into a result, whatever the  *)
(* request it recorded.                                                  *)
LEMMA PostType ==
    ASSUME NEW l \in Layers, NEW seen \in Request \cup {NoReq}, NEW x \in Result
    PROVE Post(l, seen, x) \in Result
<1>1. LayerOK(l)
    BY LayersOK
<1>2. NoBody \in Seen
    BY DEF NoBody, Seen
<1>3. CASE x.tag = "panic" /\ l.kind = "catchPanic"
    BY <1>2, <1>3 DEF Post, Resp, Result
<1>4. CASE ~(x.tag = "panic" /\ l.kind = "catchPanic") /\ x.tag = "resp" /\ l.kind = "respHdr"
    <2>1. SetHdr(l.mode, x.hdr, l.val) \in Seq(AllHdrVals)
        BY <1>1, <1>4, SetHdrType DEF LayerOK, Result, PanicRes
    <2> QED
        BY <1>4, <2>1 DEF Post, Result, PanicRes
<1>5. CASE ~(x.tag = "panic" /\ l.kind = "catchPanic")
           /\ ~(x.tag = "resp" /\ l.kind = "respHdr")
           /\ x.tag = "resp" /\ l.kind = "propagate" /\ seen.hdr # << >>
    <2>1. seen.hdr \in Seq(AllHdrVals)
        <3>1. CASE seen \in Request
            BY <3>1 DEF Request
        <3>2. CASE seen = NoReq
            BY <3>2 DEF NoReq
        <3> QED
            BY <3>1, <3>2
    <2>2. seen.hdr[1] \in AllHdrVals
        BY <2>1, <1>5
    <2>3. SetHdr(l.mode, x.hdr, seen.hdr[1]) \in Seq(AllHdrVals)
        BY <2>2, <1>5, SetHdrType DEF Result, PanicRes
    <2> QED
        BY <1>5, <2>3 DEF Post, Result, PanicRes
<1> QED
    BY <1>3, <1>4, <1>5 DEF Post

(* The leaf answers a request, and a stopping layer answers, with a       *)
(* result.                                                               *)
LEMMA LeafResultType ==
    ASSUME NEW rq \in Request PROVE LeafResult(rq) \in Result
BY DEF LeafResult, Request, Result, Resp, Seen, PanicRes, NoBody

LEMMA StopResultType ==
    ASSUME NEW l PROVE StopResult(l) \in Result
BY DEF StopResult, ErrRes, Resp, Result, NoBody, Seen

-----------------------------------------------------------------------------
(* The inductive invariant holds initially and is kept by every action.  *)

LEMMA InitIInv == Init => IInv
<1> SUFFICES ASSUME Init PROVE IInv
    OBVIOUS
<1>1. MaxLayers \in Nat
    BY StackAssumption
<1>2. TypeOK
    BY <1>1 DEF Init, TypeOK, Identity
<1> QED
    BY <1>2 DEF Init, IInv, ReqInv

(* The builder calls keep the stack within the bound, and run before any *)
(* request arrives.                                                      *)
LEMMA BuildIInv ==
    ASSUME IInv, NEW c \in Calls, Build(c) PROVE IInv'
<1>1. LayerArg(c) \in Seq(Layers)
    BY LayerArgType
<1>2. sb' \in Seq(Layers) /\ Len(sb') <= MaxLayers
    BY <1>1 DEF Build, Push, IInv, TypeOK
<1>3. TypeOK'
    BY <1>2 DEF Build, IInv, TypeOK, reqVars
<1>4. \A r \in Req : stage[r] = "idle"
    BY DEF Build, IInv, ReqInv
<1> QED
    BY <1>3, <1>4 DEF Build, IInv, ReqInv, reqVars

(* `service` consumes the builder: the service is the stack built.       *)
LEMMA ServiceIInv == ASSUME IInv, Service PROVE IInv'
<1>1. \A r \in Req : stage[r] = "idle"
    BY DEF Service, IInv, ReqInv
<1>2. TypeOK'
    BY DEF Service, IInv, TypeOK, reqVars
<1> QED
    BY <1>1, <1>2 DEF Service, IInv, ReqInv, reqVars

(* A connection handed to hyper changes nothing a request sees.          *)
LEMMA CallConnIInv ==
    ASSUME IInv, NEW c \in Conns, CallConn(c) PROVE IInv'
<1>1. Negotiate \subseteq {"http1", "h2"}
    BY DEF IInv, TypeOK, Negotiate
<1>2. TypeOK'
    BY <1>1 DEF CallConn, IInv, TypeOK, reqVars
<1> QED
    BY <1>2 DEF CallConn, IInv, ReqInv, reqVars

(* `serve` applies the stack anew to each connection: the same stack,    *)
(* since no builder call can follow the first serve.                      *)
LEMMA ServeIInv ==
    ASSUME IInv, NEW c \in Conns, Serve(c) PROVE IInv'
<1>1. Negotiate \subseteq {"http1", "h2"}
    BY DEF IInv, TypeOK, Negotiate
<1>2. TypeOK'
    BY <1>1 DEF Serve, IInv, TypeOK, reqVars
<1>3. CASE phase = "building"
    <2>1. \A r \in Req : stage[r] = "idle"
        BY <1>3 DEF IInv, ReqInv
    <2> QED
        BY <1>2, <2>1 DEF Serve, IInv, ReqInv, reqVars
<1>4. CASE phase = "serve"
    BY <1>2, <1>4 DEF Serve, IInv, ReqInv, reqVars
<1> QED
    BY <1>3, <1>4 DEF Serve

(* hyper hands a client's request to the outermost layer.                *)
LEMMA ArriveIInv ==
    ASSUME IInv, NEW r \in Req, Arrive(r) PROVE IInv'
<1>1. PICK rq \in ClientRequests : cur' = [cur EXCEPT ![r] = rq]
                                  /\ req0' = [req0 EXCEPT ![r] = rq]
    BY DEF Arrive
<1>2. rq \in Request
    BY ClientType
<1>3. MaxLayers \in Nat
    BY StackAssumption
<1>4. TypeOK'
    BY <1>1, <1>2, <1>3 DEF Arrive, IInv, TypeOK
<1>5. \A q \in Req : ReqInv(q)'
    BY <1>1, <1>2 DEF Arrive, IInv, ReqInv, TypeOK
<1> QED
    BY <1>4, <1>5 DEF Arrive, IInv

(* A layer answers the request itself, or records it and passes it on.   *)
LEMMA DescendIInv ==
    ASSUME IInv, NEW r \in Req, Descend(r) PROVE IInv'
<1> DEFINE i == pos[r]
           l == svc[i]
<1>1. MaxLayers \in Nat
    BY StackAssumption
<1>2. i \in 1..Len(svc) /\ Len(svc) <= MaxLayers /\ svc \in Seq(Layers)
    BY DEF Descend, IInv, ReqInv, TypeOK
<1>3. l \in Layers /\ cur[r] \in Request
    BY <1>2 DEF Descend, IInv, ReqInv
<1>0. /\ stage[r] = "down"
      /\ UNCHANGED << proto, phase, sb, calls, svc, connProto, req0, out >>
    BY DEF Descend
<1>4. CASE Stops(l, cur[r])
    <2>0. /\ res' = [res EXCEPT ![r] = StopResult(l)]
          /\ stage' = [stage EXCEPT ![r] = "up"]
          /\ pos' = [pos EXCEPT ![r] = i - 1]
          /\ UNCHANGED << cur, saved >>
        BY <1>4 DEF Descend
    <2>1. StopResult(l) \in Result
        BY StopResultType
    <2>2. TypeOK'
        <3>1. res' \in [Req -> Result \cup {NoRes}]
            BY <2>0, <2>1 DEF IInv, TypeOK
        <3>2. stage' \in [Req -> {"idle", "down", "leaf", "up", "done"}]
            BY <2>0 DEF IInv, TypeOK
        <3>3. pos' \in [Req -> 0..MaxLayers + 1]
            BY <1>1, <1>2, <2>0 DEF IInv, TypeOK
        <3> QED
            BY <1>0, <2>0, <3>1, <3>2, <3>3 DEF IInv, TypeOK
    <2>3. \A q \in Req : ReqInv(q)'
        BY <1>0, <1>2, <2>0, <2>1 DEF IInv, ReqInv, TypeOK
    <2> QED
        BY <1>0, <2>2, <2>3 DEF IInv
<1>5. CASE ~Stops(l, cur[r])
    <2>0. /\ saved' = [saved EXCEPT ![r] = [saved[r] EXCEPT ![i] = cur[r]]]
          /\ cur' = [cur EXCEPT ![r] = Pre(l, cur[r])]
          /\ pos' = [pos EXCEPT ![r] = i + 1]
          /\ UNCHANGED << stage, res >>
        BY <1>5 DEF Descend
    <2>1. Pre(l, cur[r]) \in Request
        BY <1>3, PreType
    <2>2. i \in 1..MaxLayers
        BY <1>1, <1>2
    <2>3. saved' \in [Req -> [1..MaxLayers -> Request \cup {NoReq}]]
        <3>1. saved[r] \in [1..MaxLayers -> Request \cup {NoReq}]
            BY DEF IInv, TypeOK
        <3>2. [saved[r] EXCEPT ![i] = cur[r]] \in [1..MaxLayers -> Request \cup {NoReq}]
            BY <3>1, <2>2, <1>3
        <3> QED
            BY <3>2, <2>0 DEF IInv, TypeOK
    <2>4. TypeOK'
        <3>1. cur' \in [Req -> Request \cup {NoReq}]
            BY <2>0, <2>1 DEF IInv, TypeOK
        <3>2. pos' \in [Req -> 0..MaxLayers + 1]
            BY <1>1, <1>2, <2>0 DEF IInv, TypeOK
        <3> QED
            BY <1>0, <2>0, <2>3, <3>1, <3>2 DEF IInv, TypeOK
    <2>5. \A q \in Req : ReqInv(q)'
        BY <1>0, <1>2, <2>0, <2>1 DEF IInv, ReqInv, TypeOK
    <2> QED
        BY <1>0, <2>4, <2>5 DEF IInv
<1> QED
    BY <1>4, <1>5

(* The leaf is called: it answers, panics, or keeps the request waiting. *)
LEMMA LeafIInv ==
    ASSUME IInv, NEW r \in Req, Leaf(r) PROVE IInv'
<1>1. cur[r] \in Request /\ Len(svc) <= MaxLayers /\ svc \in Seq(Layers)
    BY DEF Leaf, IInv, ReqInv, TypeOK
<1>2. LeafResult(cur[r]) \in Result
    BY <1>1, LeafResultType
<1>3. MaxLayers \in Nat
    BY StackAssumption
<1>0. /\ stage[r] = "down"
      /\ UNCHANGED << proto, phase, sb, calls, svc, connProto, cur, saved, req0, out >>
    BY DEF Leaf
<1>4. CASE cur[r].leaf \in {"slow", "stall"}
    <2>0. stage' = [stage EXCEPT ![r] = "leaf"] /\ UNCHANGED << pos, res >>
        BY <1>4 DEF Leaf
    <2>1. TypeOK'
        BY <1>0, <2>0 DEF IInv, TypeOK
    <2>2. \A q \in Req : ReqInv(q)'
        BY <1>0, <2>0 DEF IInv, ReqInv, TypeOK
    <2> QED
        BY <1>0, <2>1, <2>2 DEF IInv
<1>5. CASE cur[r].leaf \notin {"slow", "stall"}
    <2>0. /\ res' = [res EXCEPT ![r] = LeafResult(cur[r])]
          /\ stage' = [stage EXCEPT ![r] = "up"]
          /\ pos' = [pos EXCEPT ![r] = Len(svc)]
        BY <1>5 DEF Leaf
    <2>1. TypeOK'
        <3>1. pos' \in [Req -> 0..MaxLayers + 1]
            BY <1>1, <1>3, <2>0 DEF IInv, TypeOK
        <3>2. res' \in [Req -> Result \cup {NoRes}]
            BY <1>2, <2>0 DEF IInv, TypeOK
        <3> QED
            BY <1>0, <2>0, <3>1, <3>2 DEF IInv, TypeOK
    <2>2. \A q \in Req : ReqInv(q)'
        BY <1>0, <1>2, <2>0 DEF IInv, ReqInv, TypeOK
    <2> QED
        BY <1>0, <2>1, <2>2 DEF IInv
<1> QED
    BY <1>4, <1>5

(* A slow leaf answers late.                                             *)
LEMMA LeafLateIInv ==
    ASSUME IInv, NEW r \in Req, LeafLate(r) PROVE IInv'
<1>1. cur[r] \in Request /\ Len(svc) <= MaxLayers /\ svc \in Seq(Layers)
    BY DEF LeafLate, IInv, ReqInv, TypeOK
<1>2. LeafResult(cur[r]) \in Result
    BY <1>1, LeafResultType
<1>3. MaxLayers \in Nat
    BY StackAssumption
<1>4. TypeOK'
    BY <1>1, <1>2, <1>3 DEF LeafLate, IInv, TypeOK
<1>5. \A q \in Req : ReqInv(q)'
    BY <1>2 DEF LeafLate, IInv, ReqInv, TypeOK
<1> QED
    BY <1>4, <1>5 DEF LeafLate, IInv

(* A timeout layer's timer fires and that layer returns the error.       *)
LEMMA TimeoutFiresIInv ==
    ASSUME IInv, NEW r \in Req, NEW i \in 1..MaxLayers, TimeoutFires(r, i)
    PROVE IInv'
<1>1. Len(svc) <= MaxLayers /\ svc \in Seq(Layers)
    BY DEF IInv, TypeOK
<1>2. ErrRes("timeout") \in Result
    BY DEF ErrRes, Result, NoBody
<1>3. MaxLayers \in Nat
    BY StackAssumption
<1>4. TypeOK'
    BY <1>1, <1>2, <1>3 DEF TimeoutFires, IInv, TypeOK
<1>5. \A q \in Req : ReqInv(q)'
    BY <1>1, <1>2 DEF TimeoutFires, IInv, ReqInv, TypeOK
<1> QED
    BY <1>4, <1>5 DEF TimeoutFires, IInv

(* A layer post-processes its inner service's result.                    *)
LEMMA AscendIInv ==
    ASSUME IInv, NEW r \in Req, Ascend(r) PROVE IInv'
<1> DEFINE i == pos[r]
<1>1. MaxLayers \in Nat
    BY StackAssumption
<1>2. i \in 1..Len(svc) /\ Len(svc) <= MaxLayers /\ svc \in Seq(Layers)
      /\ res[r] \in Result
    BY DEF Ascend, IInv, ReqInv, TypeOK
<1>3. svc[i] \in Layers /\ saved[r][i] \in Request \cup {NoReq}
    BY <1>1, <1>2 DEF IInv, TypeOK
<1>4. Post(svc[i], saved[r][i], res[r]) \in Result
    BY <1>2, <1>3, PostType
<1>5. TypeOK'
    BY <1>1, <1>2, <1>4 DEF Ascend, IInv, TypeOK
<1>6. \A q \in Req : ReqInv(q)'
    BY <1>2, <1>4 DEF Ascend, IInv, ReqInv, TypeOK
<1> QED
    BY <1>5, <1>6 DEF Ascend, IInv

(* hyper gets the outermost service's result.                            *)
LEMMA RespondIInv ==
    ASSUME IInv, NEW r \in Req, Respond(r) PROVE IInv'
<1>1. TypeOK'
    BY DEF Respond, IInv, ReqInv, TypeOK
<1>2. \A q \in Req : ReqInv(q)'
    BY DEF Respond, IInv, ReqInv, TypeOK
<1> QED
    BY <1>1, <1>2 DEF Respond, IInv

LEMMA NextIInv == IInv /\ [Next]_vars => IInv'
<1> SUFFICES ASSUME IInv, [Next]_vars PROVE IInv'
    OBVIOUS
<1>1. CASE \E c \in Calls : Build(c)
    BY <1>1, BuildIInv
<1>2. CASE Service
    BY <1>2, ServiceIInv
<1>3. CASE \E c \in Conns : CallConn(c) \/ Serve(c)
    BY <1>3, CallConnIInv, ServeIInv
<1>4. CASE \E r \in Req : Arrive(r)
    BY <1>4, ArriveIInv
<1>5. CASE \E r \in Req : Progress(r)
    BY <1>5, DescendIInv, LeafIInv, LeafLateIInv, TimeoutFiresIInv,
       AscendIInv, RespondIInv DEF Progress
<1>6. CASE UNCHANGED vars
    BY <1>6 DEF vars, IInv, ReqInv, TypeOK
<1> QED
    BY <1>1, <1>2, <1>3, <1>4, <1>5, <1>6 DEF Next

-----------------------------------------------------------------------------
(* HttpServer's stack is well formed in every run, for every bound: the  *)
(* builder calls never stack more than MaxLayers layers, each one a      *)
(* builder method's; each request walks only the layers of the service   *)
(* it was handed to, records a client's request at each, and hyper gets  *)
(* a result for it, a response, an error or a panic.                     *)
THEOREM TypeCorrect == Spec => []TypeOK
<1>1. Init => IInv
    BY InitIInv
<1>2. IInv /\ [Next]_vars => IInv'
    BY NextIInv
<1>3. IInv => TypeOK
    BY DEF IInv
<1> QED
    BY <1>1, <1>2, <1>3, PTL DEF Spec

=============================================================================
