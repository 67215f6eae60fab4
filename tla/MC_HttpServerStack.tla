------------------------- MODULE MC_HttpServerStack -------------------------
(* Small instances of HttpServerStack for TLC.                            *)
EXTENDS HttpServerStackImpl

MCReq == {"q1", "q2"}

MCOneReq == {"q1"}

MCConns == {"c1"}

MCConnOf == [r \in MCReq |-> "c1"]

MCOneConnOf == [r \in MCOneReq |-> "c1"]

(* The calls whose order changes what the leaf sees or what the client  *)
(* gets: request and response headers, ids and extensions.              *)
MCOrderMethods ==
    {"add_extension", "override_request_header", "append_request_header",
     "propagate_header", "override_response_header", "set_request_id",
     "propagate_request_id"}

(* The layers that answer without the leaf, or instead of it.           *)
MCShortMethods ==
    {"timeout", "filter", "catch_panic", "request_body_limit",
     "override_response_header"}

MCReqHdrs == {<< >>, << "v1" >>}

=============================================================================
