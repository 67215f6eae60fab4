---------------------------- MODULE HttpServerConfig ----------------------------
(***************************************************************************)
(* The connection configuration of an HttpServer (lines 17-589 of          *)
(* src/src/http/server/service.rs).  HttpServer::http1(), h2() and auto() *)
(* pick hyper's connection builder; http1_mut and h2_mut hand out         *)
(* Http1Config / H2Config (on the plain builders) or AutoHttp1Config /    *)
(* AutoH2Config (on the two sub-builders of the auto builder), whose       *)
(* setters each forward one value to hyper.  serve(&self) serves a         *)
(* connection with the builder as it is, and keeps it borrowed until the  *)
(* connection ends; service(self) moves it into an Arc shared by every    *)
(* connection HttpService::call serves.                                    *)
(*                                                                         *)
(* A setting is a field name and a value: Dflt (hyper's default) or one   *)
(* of a few model values.  What hyper does with a value the setters'      *)
(* doc comments describe: a None passed to an Option setter does nothing  *)
(* (but disables keep_alive_interval), max_buf_size below its minimum and *)
(* max_send_buf_size above u32::MAX panic.  How hyper then reads the      *)
(* settings it is handed (adaptive_window over the window sizes, say) is  *)
(* hyper's and left out.                                                   *)
(***************************************************************************)
EXTENDS Naturals, Sequences

CONSTANTS
    Conns,     \* the TCP connections a run serves
    H1Fields,  \* the Http1 settings a run sets
    H2Fields,  \* the H2 settings a run sets
    MaxCalls,  \* bound on the setter calls
    MaxLayers  \* bound on the stack methods called

(* The bounds are naturals.                                               *)
ASSUME ConfigAssumption == MaxCalls \in Nat /\ MaxLayers \in Nat

None == "none"

Dflt == "default"

(* Values a setter is given: "a" and "b" stand for any two accepted ones *)
(* ("on"/"off" for a bool); "small" is a max_buf_size below the 8192      *)
(* minimum, "huge" a max_send_buf_size above u32::MAX.                    *)
ArgVals(f) ==
    IF f \in {"initial_stream_window_size", "initial_connection_window_size",
              "max_frame_size", "max_concurrent_streams", "keep_alive_interval"}
      THEN {"a", None}
    ELSE IF f = "max_buf_size" THEN {"a", "small"}
    ELSE IF f = "max_send_buf_size" THEN {"a", "huge"}
    ELSE IF f = "enable_connect_protocol" THEN {"on"}
    ELSE IF f \in {"half_close", "keep_alive", "title_case_headers",
                   "preserve_header_case", "writev", "pipeline_flush",
                   "adaptive_window"}
      THEN {"on", "off"}
    ELSE {"a", "b"}

Values == {"a", "b", "on", "off", "small", "huge", None}

(* The Option setters whose doc says passing None does nothing.           *)
NoneIsNoOp == {"initial_stream_window_size", "initial_connection_window_size",
               "max_frame_size", "max_concurrent_streams"}

(* The values whose setter panics.                                         *)
Panics(f, v) ==
    \/ f = "max_buf_size" /\ v = "small"
    \/ f = "max_send_buf_size" /\ v = "huge"

(* Mutant: every None read as a reset, the no-op Nones included.         *)
StoredNoneResets(f, v, old) == IF v = None THEN "off" ELSE v

(* What the hyper builder holds for f after a setter call with v.         *)
Stored(f, v, old) ==
    IF v = None THEN IF f \in NoneIsNoOp THEN old ELSE "off"
    ELSE v

Defaults(Fs) == [f \in Fs |-> Dflt]

VARIABLES
    kind,    \* the builder: "http1", "h2" or "auto"
    h1,      \* the Http1 settings the builder holds
    h2,      \* the H2 settings the builder holds
    phase,   \* "building", "service" (moved into HttpService) or "panicked"
    frozen,  \* the builder HttpService's Arc holds: [h1, h2]
    calls,   \* the setter calls made, in order: [p, f, v]
    conn,    \* per connection: "idle", "active" or "done", and what it ran with
    layers   \* how many stack methods were called (the stack is HttpServerStack's)

vars == << kind, h1, h2, phase, frozen, calls, conn, layers >>

(* The settings a connection of protocol pr is served with: the builder's *)
(* http1 or h2 half.                                                       *)
ConnCfg(pr, b1, b2) == IF pr = "http1" THEN b1 ELSE b2

(* The protocols a builder serves: auto negotiates either.                *)
Protocols(k) == IF k = "auto" THEN {"http1", "h2"} ELSE {k}

(* No serve(&self) connection holds the server borrowed.                  *)
NotBorrowed == \A c \in Conns : ~(conn[c].st = "active" /\ conn[c].via = "serve")

(* HttpServer::http1(), h2(), auto(): a builder with default settings.    *)
Init ==
    /\ kind \in {"http1", "h2", "auto"}
    /\ h1 = Defaults(H1Fields)
    /\ h2 = Defaults(H2Fields)
    /\ phase = "building"
    /\ frozen = [h1 |-> h1, h2 |-> h2]
    /\ calls = << >>
    /\ conn = [c \in Conns |-> [st |-> "idle", proto |-> None, via |-> None, at |-> 0,
                                  cfg |-> Defaults({})]]
    /\ layers = 0

(* One setter call on the Http1 settings b1 (or the H2 settings b2):      *)
(* it needs &mut self, so no serve borrows the server; it panics, or      *)
(* stores the value.                                                       *)
SetField(b, f, v, p) ==
    /\ phase = "building"
    /\ NotBorrowed
    /\ Len(calls) < MaxCalls
    /\ calls' = Append(calls, [p |-> p, f |-> f, v |-> v])
    /\ IF Panics(f, v)
       THEN /\ phase' = "panicked"
            /\ UNCHANGED << h1, h2 >>
       ELSE /\ UNCHANGED phase
            /\ IF p = "http1"
               THEN h1' = [h1 EXCEPT ![f] = Stored(f, v, b[f])] /\ UNCHANGED h2
               ELSE h2' = [h2 EXCEPT ![f] = Stored(f, v, b[f])] /\ UNCHANGED h1
    /\ UNCHANGED << kind, frozen, conn, layers >>

(* http1_mut on an http1 builder: Http1Config over &mut self.builder.     *)
Http1Set(f, v) ==
    /\ kind = "http1"
    /\ SetField(h1, f, v, "http1")

(* h2_mut on an h2 builder: H2Config over &mut self.builder.              *)
H2Set(f, v) ==
    /\ kind = "h2"
    /\ SetField(h2, f, v, "h2")

(* Mutant: the auto builder's http1 half copied, so a setting is lost.    *)
AutoHttp1SetOnCopy(f, v) ==
    /\ kind = "auto"
    /\ phase = "building"
    /\ NotBorrowed
    /\ Len(calls) < MaxCalls
    /\ calls' = Append(calls, [p |-> "http1", f |-> f, v |-> v])
    /\ phase' = IF Panics(f, v) THEN "panicked" ELSE phase
    /\ UNCHANGED << kind, h1, h2, frozen, conn, layers >>

(* http1_mut on an auto builder: AutoHttp1Config over builder.http1(),    *)
(* the auto builder's own http1 half.                                      *)
AutoHttp1Set(f, v) ==
    /\ kind = "auto"
    /\ SetField(h1, f, v, "http1")

(* h2_mut on an auto builder: AutoH2Config over builder.http2().          *)
AutoH2Set(f, v) ==
    /\ kind = "auto"
    /\ SetField(h2, f, v, "h2")

(* Mutant: a stack method that rebuilds the connection builder.           *)
AddLayerResets ==
    /\ phase = "building"
    /\ NotBorrowed
    /\ layers < MaxLayers
    /\ layers' = layers + 1
    /\ h1' = Defaults(H1Fields)
    /\ h2' = Defaults(H2Fields)
    /\ UNCHANGED << kind, phase, frozen, calls, conn >>

(* layer, timeout, ... : a new HttpServer with builder: self.builder.     *)
AddLayer ==
    /\ phase = "building"
    /\ NotBorrowed
    /\ layers < MaxLayers
    /\ layers' = layers + 1
    /\ UNCHANGED << kind, h1, h2, phase, frozen, calls, conn >>

(* service(self): the builder moves into HttpService's Arc.               *)
Service ==
    /\ phase = "building"
    /\ NotBorrowed
    /\ phase' = "service"
    /\ frozen' = [h1 |-> h1, h2 |-> h2]
    /\ UNCHANGED << kind, h1, h2, calls, conn, layers >>

(* serve(&self, stream, _): hyper_serve_connection with self.builder.     *)
Serve(c) ==
    /\ phase = "building"
    /\ conn[c].st = "idle"
    /\ \E pr \in Protocols(kind) :
         conn' = [conn EXCEPT ![c] = [st |-> "active", proto |-> pr, via |-> "serve",
                                      at |-> Len(calls), cfg |-> ConnCfg(pr, h1, h2)]]
    /\ UNCHANGED << kind, h1, h2, phase, frozen, calls, layers >>

(* HttpService::call: hyper_serve_connection with the shared builder.     *)
Call(c) ==
    /\ phase = "service"
    /\ conn[c].st = "idle"
    /\ \E pr \in Protocols(kind) :
         conn' = [conn EXCEPT ![c] = [st |-> "active", proto |-> pr, via |-> "service",
                                      at |-> Len(calls),
                                      cfg |-> ConnCfg(pr, frozen.h1, frozen.h2)]]
    /\ UNCHANGED << kind, h1, h2, phase, frozen, calls, layers >>

(* The connection ends; a serve future gives the borrow back.             *)
ConnEnd(c) ==
    /\ conn[c].st = "active"
    /\ conn' = [conn EXCEPT ![c] = [st |-> "done", proto |-> conn[c].proto,
                                    via |-> conn[c].via, at |-> conn[c].at,
                                    cfg |-> conn[c].cfg]]
    /\ UNCHANGED << kind, h1, h2, phase, frozen, calls, layers >>

Next ==
    \/ \E f \in H1Fields : \E v \in ArgVals(f) : Http1Set(f, v) \/ AutoHttp1Set(f, v)
    \/ \E f \in H2Fields : \E v \in ArgVals(f) : H2Set(f, v) \/ AutoH2Set(f, v)
    \/ AddLayer
    \/ Service
    \/ \E c \in Conns : Serve(c) \/ Call(c) \/ ConnEnd(c)

Spec == Init /\ [][Next]_vars

-----------------------------------------------------------------------------

(* The type invariant.                                                     *)
TypeOK ==
    /\ kind \in {"http1", "h2", "auto"}
    /\ DOMAIN h1 = H1Fields /\ DOMAIN h2 = H2Fields
    /\ phase \in {"building", "service", "panicked"}
    /\ calls \in Seq([p : {"http1", "h2"}, f : H1Fields \cup H2Fields, v : Values])
    /\ Len(calls) <= MaxCalls
    /\ DOMAIN conn = Conns
    /\ \A c \in Conns : conn[c].st \in {"idle", "active", "done"}
    /\ layers \in 0..MaxLayers

(* The calls of cs that take effect on field f of protocol p: all but a  *)
(* None given to a setter whose doc says None does nothing.               *)
Effective(cs, p, f) ==
    {i \in 1..Len(cs) : cs[i].p = p /\ cs[i].f = f /\ ~(f \in NoneIsNoOp /\ cs[i].v = None)}

(* The calls cs leave field f of protocol p at val: the default if none  *)
(* takes effect, else what the last one that does gave, a None read as   *)
(* "off".                                                                  *)
SetBy(cs, p, f, val) ==
    LET I == Effective(cs, p, f)
    IN  IF I = {} THEN val = Dflt
        ELSE \E i \in I : /\ \A j \in I : j <= i
                          /\ val = IF cs[i].v = None THEN "off" ELSE cs[i].v

(* Every connection, served by serve or by HttpService::call, is handed   *)
(* the settings of the setter calls made before it started (before        *)
(* service() for HttpService) for its negotiated protocol only, each one  *)
(* the last call's, None obeyed as documented, and never a value whose    *)
(* setter panics.                                                          *)
ConfigApplied ==
    \A c \in Conns : conn[c].st # "idle" =>
        LET cs == SubSeq(calls, 1, conn[c].at)
        IN  /\ DOMAIN conn[c].cfg = IF conn[c].proto = "http1" THEN H1Fields ELSE H2Fields
            /\ \A f \in DOMAIN conn[c].cfg : SetBy(cs, conn[c].proto, f, conn[c].cfg[f])
            /\ \A i \in 1..Len(cs) : ~Panics(cs[i].f, cs[i].v)

=============================================================================
