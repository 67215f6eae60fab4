------------------------- MODULE HttpServerStackImpl -------------------------
(***************************************************************************)
(* HttpServerStack shown to implement the stack contract of               *)
(* HttpServerStackAbs, under a refinement mapping.                         *)
(***************************************************************************)
EXTENDS HttpServerStack

(* The refinement mapping: a request in the service is busy for the      *)
(* abstract server, and the builder calls made are its stack.            *)
Abstract == INSTANCE HttpServerStackAbs WITH
    aphase <- IF phase = "building" THEN "building" ELSE "serving",
    acalls <- calls,
    areq   <- req0,
    astage <- [r \in Req |-> IF stage[r] \in Busy THEN "busy" ELSE stage[r]],
    aout   <- out

(* HttpServer implements the stack contract: every response hyper gets  *)
(* is the one the abstract server gives for the request as delivered and *)
(* the builder calls in their order, whatever the other requests in     *)
(* flight do; this needs the Stack nesting of the builder methods and   *)
(* each layer's post-processing to see the request it received.          *)
Implements == Abstract!ASpec

=============================================================================
