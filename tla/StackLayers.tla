----------------------------- MODULE StackLayers -----------------------------
(***************************************************************************)
(* What the layers an HttpServer can stack do to one request and to its   *)
(* result.  The layers themselves live in rama's service crate and in     *)
(* tower-async-http, outside src/; their behaviour here is the contract   *)
(* of spec section 4.2 and of the builder methods' doc comments in        *)
(* src/src/http/server/service.rs.                                        *)
(*                                                                         *)
(* All header layers act on one header name, the only case in which       *)
(* their order can matter.  A request is its header values, its           *)
(* extensions, its body size and what the leaf service will do with it.   *)
(***************************************************************************)
EXTENDS Naturals, SequencesExt

CONSTANTS
    HdrVals,    \* header values a builder call or a client can give
    ExtVals,    \* values add_extension can insert
    Rid,        \* the id the request-id maker generates
    LeafKinds,  \* what the leaf does: "ok", "panic", "slow" (answers late) or
                \* "stall" (never answers)
    ReqHdrs,    \* the header value sequences a client sends
    Bodies,     \* the body sizes a client sends: "small", "big"
    Methods     \* the builder methods a run calls

(* A client sends header values and body sizes the model knows of.        *)
ASSUME LayersAssumption ==
    /\ ReqHdrs \subseteq Seq(HdrVals \cup {Rid})
    /\ Bodies \subseteq {"small", "big"}

NoVal == "-"

Lyr(k, m, v) == [kind |-> k, mode |-> m, val |-> v]

Pass == Lyr("pass", NoVal, NoVal)

(* The layer ServiceBuilder::<m>(v) adds, per the section 4.2 table.      *)
(* Layers whose effect no property observes (tracing, body mapping,        *)
(* compression, sensitive-header marking, path normalisation, redirects,  *)
(* which only a client acts on) pass the request and result through.      *)
SbLayer(m, v) ==
    IF m \in {"filter", "filter_async"} THEN Lyr("filter", NoVal, v)
    ELSE IF m = "timeout" THEN Lyr("timeout", NoVal, NoVal)
    ELSE IF m = "add_extension" THEN Lyr("ext", NoVal, v)
    ELSE IF m = "override_request_header" THEN Lyr("reqHdr", "override", v)
    ELSE IF m = "append_request_header" THEN Lyr("reqHdr", "append", v)
    ELSE IF m = "insert_request_header_if_not_present"
         THEN Lyr("reqHdr", "ifAbsent", v)
    ELSE IF m = "override_response_header" THEN Lyr("respHdr", "override", v)
    ELSE IF m = "append_response_header" THEN Lyr("respHdr", "append", v)
    ELSE IF m = "insert_response_header_if_not_present"
         THEN Lyr("respHdr", "ifAbsent", v)
    ELSE IF m \in {"set_request_id", "set_x_request_id"}
         THEN Lyr("reqHdr", "ifAbsent", Rid)
    ELSE IF m = "propagate_header" THEN Lyr("propagate", "override", NoVal)
    ELSE IF m \in {"propagate_request_id", "propagate_x_request_id"}
         THEN Lyr("propagate", "ifAbsent", NoVal)
    ELSE IF m = "catch_panic" THEN Lyr("catchPanic", NoVal, NoVal)
    ELSE IF m = "request_body_limit" THEN Lyr("limit", NoVal, NoVal)
    ELSE Pass

(* The arguments a call of method m takes in the model.                   *)
Params(m) ==
    IF m \in {"filter", "filter_async", "override_request_header",
              "append_request_header", "insert_request_header_if_not_present",
              "override_response_header", "append_response_header",
              "insert_response_header_if_not_present"}
    THEN HdrVals
    ELSE IF m = "add_extension" THEN ExtVals ELSE {NoVal}

AllHdrVals == HdrVals \cup {Rid}

(* One builder call: method m with argument v.  A call of `layer` passes *)
(* a custom layer: a pass-through one (sub = << >>) or a stack the caller *)
(* built with ServiceBuilder from the calls in sub, in call order.        *)
SubCalls ==
    UNION {{[m |-> m, v |-> v] : v \in Params(m)} : m \in Methods \ {"layer"}}

(* The layers the builder calls of a run can add.                         *)
Layers == {SbLayer(c.m, c.v) : c \in SubCalls} \cup {Pass}

Calls ==
    {[m |-> c.m, v |-> c.v, sub |-> << >>] : c \in SubCalls}
    \cup IF "layer" \in Methods
         THEN {[m |-> "layer", v |-> NoVal, sub |-> s] :
                  s \in {<< >>} \cup {<< a, b >> : a, b \in SubCalls}}
         ELSE {}

(* The layers a call adds, outermost first (spec 4.2: stacking [A, B, C]  *)
(* onto a leaf gives A(B(C(leaf))), and chained pushes keep their order). *)
CallLayers(c) ==
    IF c.m # "layer" THEN << SbLayer(c.m, c.v) >>
    ELSE IF c.sub = << >> THEN << Pass >>
    ELSE [i \in 1..Len(c.sub) |-> SbLayer(c.sub[i].m, c.sub[i].v)]

LayersOf(cs) == FlattenSeq([i \in 1..Len(cs) |-> CallLayers(cs[i])])

(* Header values as a sequence: override, append, insert-if-absent.       *)
SetHdr(mode, h, v) ==
    IF mode = "override" THEN << v >>
    ELSE IF mode = "append" THEN Append(h, v)
    ELSE IF h = << >> THEN << v >> ELSE h

Request == [hdr : Seq(AllHdrVals), ext : SUBSET ExtVals,
            body : {"small", "big"}, leaf : LeafKinds]

ClientRequests == [hdr : ReqHdrs, ext : {{}}, body : Bodies, leaf : LeafKinds]

NoReq == [hdr |-> << >>, ext |-> {}, body |-> "small", leaf |-> "none"]

(* A result: a response, an error returned through `?`, or a panic       *)
(* unwinding.  A response of the leaf echoes what the leaf saw.           *)
Seen == [hdr : Seq(AllHdrVals), ext : SUBSET ExtVals, leaf : BOOLEAN]

NoBody == [hdr |-> << >>, ext |-> {}, leaf |-> FALSE]

Resp(st, h, b) == [tag |-> "resp", status |-> st, hdr |-> h, body |-> b]

ErrRes(e) == [tag |-> "err", status |-> e, hdr |-> << >>, body |-> NoBody]

PanicRes == [tag |-> "panic", status |-> NoVal, hdr |-> << >>, body |-> NoBody]

NoRes == [tag |-> "none", status |-> NoVal, hdr |-> << >>, body |-> NoBody]

Result ==
    [tag : {"resp"}, status : {"200", "413", "500"}, hdr : Seq(AllHdrVals), body : Seen]
    \cup [tag : {"err"}, status : {"rejected", "timeout"}, hdr : {<< >>}, body : {NoBody}]
    \cup {PanicRes}

(* The leaf service: it answers 200 with what it saw, or panics.          *)
LeafResult(rq) ==
    IF rq.leaf = "panic" THEN PanicRes
    ELSE Resp("200", << >>, [hdr |-> rq.hdr, ext |-> rq.ext, leaf |-> TRUE])

(* What a layer does to the request before calling its inner service.    *)
Pre(l, rq) ==
    IF l.kind = "ext" THEN [rq EXCEPT !.ext = rq.ext \cup {l.val}]
    ELSE IF l.kind = "reqHdr" THEN [rq EXCEPT !.hdr = SetHdr(l.mode, rq.hdr, l.val)]
    ELSE rq

(* A layer that answers without calling its inner service: a filter     *)
(* whose predicate (the header must not carry l.val) fails, and the body  *)
(* limit on an over-sized body.                                           *)
Stops(l, rq) ==
    \/ l.kind = "filter" /\ \E i \in 1..Len(rq.hdr) : rq.hdr[i] = l.val
    \/ l.kind = "limit" /\ rq.body = "big"

StopResult(l) ==
    IF l.kind = "filter" THEN ErrRes("rejected") ELSE Resp("413", << >>, NoBody)

(* What a layer does to the result of its inner service; seen is the      *)
(* request as this layer received it.  Errors pass every layer; a panic  *)
(* unwinds through every layer up to a catch_panic.                        *)
Post(l, seen, x) ==
    IF x.tag = "panic" /\ l.kind = "catchPanic" THEN Resp("500", << >>, NoBody)
    ELSE IF x.tag = "resp" /\ l.kind = "respHdr"
         THEN [x EXCEPT !.hdr = SetHdr(l.mode, x.hdr, l.val)]
    ELSE IF x.tag = "resp" /\ l.kind = "propagate" /\ seen.hdr # << >>
         THEN [x EXCEPT !.hdr = SetHdr(l.mode, x.hdr, seen.hdr[1])]
    ELSE x

=============================================================================
