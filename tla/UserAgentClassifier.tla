------------------------- MODULE UserAgentClassifier -------------------------
(***************************************************************************)
(* The UserAgentClassifier of src/rama-http/src/layer/ua.rs.  The layer   *)
(* holds an optional overwrite header name; Layer::layer copies it into   *)
(* each service it builds.  serve reads the User-Agent header, then the   *)
(* overwrite header (a form of UserAgentOverwrites), puts the resulting   *)
(* UserAgent in the request's context and calls the inner service.        *)
(*                                                                         *)
(* A User-Agent string is a model value of UAs; what rama-ua derives from *)
(* it (kind, version, platform, default agents) is the value Derived.     *)
(***************************************************************************)
EXTENDS Naturals, Sequences

CONSTANTS
    UAs,         \* valid User-Agent strings
    HdrNames,    \* header names an overwrite header may have
    HttpAgents,  \* the HttpAgent values an overwrite may give
    TlsAgents,   \* the TlsAgent values an overwrite may give
    OuterUAs,    \* UAs an outer layer may have put in the context
    MaxServices  \* bound on the services built

None == "none"

Derived == "derived"

(* A UserAgent: its header string, its http and tls agents (Derived      *)
(* unless overwritten) and whether the UA header is to be preserved.     *)
UserAgent == [header : UAs, http : HttpAgents \cup {Derived},
              tls : TlsAgents \cup {Derived}, preserve : {"true", "false"}]

NoUA == [header |-> None, http |-> None, tls |-> None, preserve |-> None]

(* A UA string is never the sentinel for "no value", and an outer layer   *)
(* puts a UserAgent, or nothing, in the context.                          *)
ASSUME UAAssumption ==
    /\ MaxServices \in Nat
    /\ None \notin UAs
    /\ OuterUAs \subseteq UserAgent \cup {NoUA}

(* UserAgent::new(s).                                                     *)
UANew(s) == [header |-> s, http |-> Derived, tls |-> Derived, preserve |-> "false"]

(* UserAgentOverwrites: every field optional.                           *)
Overwrites == [ua : UAs \cup {None}, http : HttpAgents \cup {None},
               tls : TlsAgents \cup {None}, preserve : {"true", "false", None}]

NoOverwrites == [ua |-> None, http |-> None, tls |-> None, preserve |-> None]

(* The value of the overwrite header in a request: absent, a form that   *)
(* serde_html_form does not parse into UserAgentOverwrites, or one that  *)
(* does.                                                                 *)
AbsentHdr == [form |-> "absent", ov |-> NoOverwrites]

OverwriteHdr ==
    {AbsentHdr, [form |-> "garbled", ov |-> NoOverwrites]}
    \cup [form : {"parses"}, ov : Overwrites]

(* A request: its User-Agent header (absent, not a visible-ASCII string  *)
(* typed_get refuses, or valid) and the overwrite-like header it carries *)
(* (None, or one of HdrNames with its value).  A service only reads the *)
(* header it was built with, so one such header per request is enough.  *)
Request ==
    [ua : UAs \cup {"absent", "invalid"}, ovName : {None}, ovVal : {AbsentHdr}]
    \cup [ua : UAs \cup {"absent", "invalid"}, ovName : HdrNames,
          ovVal : OverwriteHdr \ {AbsentHdr}]

(* The value request req has for header h.                               *)
HdrValue(req, h) ==
    IF req.ovName = h THEN req.ovVal ELSE AbsentHdr

NoCall ==
    [svc |-> 0, req |-> [ua |-> "absent", ovName |-> None, ovVal |-> AbsentHdr],
     ctx0 |-> NoUA, ctx |-> NoUA]

VARIABLES
    layerHdr,   \* the UserAgentClassifierLayer's overwrite_header
    svcs,       \* the overwrite_header of each service built, in order
    last        \* the latest serve: service, request, UA in the context
                \* before and as the inner service gets it

vars == << layerHdr, svcs, last >>

(* An optional value, or d when it is absent.                             *)
OrElse(x, d) == IF x # None THEN x ELSE d

(* with_http_agent, with_tls_agent and with_preserve_ua_header for each   *)
(* field the overwrites give.                                             *)
WithOverwrites(ua, ov) ==
    [header   |-> ua.header,
     http     |-> OrElse(ov.http, ua.http),
     tls      |-> OrElse(ov.tls, ua.tls),
     preserve |-> OrElse(ov.preserve, ua.preserve)]

(* Mutant: the agent overwrites applied before the ua overwrite replaces *)
(* the UserAgent, so a ua overwrite discards them.                        *)
ClassifyAgentsFirst(oh, req, c0) ==
    LET ua1  == IF req.ua \in UAs THEN UANew(req.ua) ELSE NoUA
        some == oh # None /\ HdrValue(req, oh).form = "parses"
        ov   == HdrValue(req, oh).ov
        ua2  == IF some /\ ua1 # NoUA
                THEN WithOverwrites(ua1, ov)
                ELSE ua1
        ua3  == IF some /\ ov.ua # None THEN UANew(ov.ua) ELSE ua2
    IN  IF ua3 # NoUA THEN ua3 ELSE c0

(* The serve of one request by a service with overwrite header oh, given *)
(* the UA (or NoUA) the context already holds: the UA the inner service  *)
(* finds in its context.                                                  *)
Classify(oh, req, c0) ==
    LET ua1  == IF req.ua \in UAs THEN UANew(req.ua) ELSE NoUA
        some == oh # None /\ HdrValue(req, oh).form = "parses"
        ov   == HdrValue(req, oh).ov
        ua2  == IF some /\ ov.ua # None THEN UANew(ov.ua) ELSE ua1
        ua3  == IF some /\ ua2 # NoUA
                THEN WithOverwrites(ua2, ov)
                ELSE ua2
    IN  IF ua3 # NoUA THEN ua3 ELSE c0

(* UserAgentClassifierLayer::new() (and Default).                        *)
Init ==
    /\ layerHdr = None
    /\ svcs = << >>
    /\ last = NoCall

(* overwrite_header(self, h), by value.                                  *)
OverwriteHeader(h) ==
    /\ layerHdr' = h
    /\ UNCHANGED << svcs, last >>

(* set_overwrite_header(&mut self, h).                                   *)
SetOverwriteHeader(h) ==
    /\ layerHdr' = h
    /\ UNCHANGED << svcs, last >>

(* Layer::layer: a service with a clone of the layer's header name.      *)
LayerService ==
    /\ Len(svcs) < MaxServices
    /\ svcs' = Append(svcs, layerHdr)
    /\ UNCHANGED << layerHdr, last >>

(* UserAgentClassifier::new(inner, overwrite_header).                    *)
ServiceNew(oh) ==
    /\ Len(svcs) < MaxServices
    /\ svcs' = Append(svcs, oh)
    /\ UNCHANGED << layerHdr, last >>

(* UserAgentClassifier::default(): no overwrite header.                  *)
ServiceDefault ==
    /\ Len(svcs) < MaxServices
    /\ svcs' = Append(svcs, None)
    /\ UNCHANGED << layerHdr, last >>

(* Service::serve of service i: classify, insert, call the inner service. *)
(* Requests share nothing the serve changes (the service is only read),  *)
(* so one request per behaviour covers every order of requests.          *)
Serve(i, req, c0) ==
    /\ last = NoCall
    /\ last' = [svc |-> i, req |-> req, ctx0 |-> c0, ctx |-> Classify(svcs[i], req, c0)]
    /\ UNCHANGED << layerHdr, svcs >>

Next ==
    \/ \E h \in HdrNames : OverwriteHeader(h) \/ SetOverwriteHeader(h)
    \/ LayerService
    \/ \E oh \in HdrNames \cup {None} : ServiceNew(oh)
    \/ ServiceDefault
    \/ \E i \in 1..Len(svcs), req \in Request, c0 \in OuterUAs :
         Serve(i, req, c0)

Spec == Init /\ [][Next]_vars

-----------------------------------------------------------------------------

(* The type invariant.                                                    *)
TypeOK ==
    /\ layerHdr \in HdrNames \cup {None}
    /\ svcs \in Seq(HdrNames \cup {None})
    /\ Len(svcs) <= MaxServices
    /\ last \in [svc : 0..MaxServices, req : Request,
                 ctx0 : UserAgent \cup {NoUA}, ctx : UserAgent \cup {NoUA}]

(* The classification the doc comments and tests of ua.rs describe.  The  *)
(* UA string is the overwrite's ua, if the service's own overwrite header *)
(* parses and gives one, else the valid User-Agent header.  With a UA,   *)
(* each agent and preserve_ua is the overwrite's if it gives one, else   *)
(* rama-ua's default.  With no UA, the context keeps what it held, and   *)
(* the overwritten agents are dropped.                                    *)
Expected(oh, req, c0) ==
    LET ov  == IF oh # None /\ HdrValue(req, oh).form = "parses"
               THEN HdrValue(req, oh).ov ELSE NoOverwrites
        src == OrElse(ov.ua, IF req.ua \in UAs THEN req.ua ELSE None)
    IN  IF src = None THEN c0
        ELSE [header |-> src, http |-> OrElse(ov.http, Derived),
              tls |-> OrElse(ov.tls, Derived), preserve |-> OrElse(ov.preserve, "false")]

(* Every serve hands the inner service the UA the documented rules give,  *)
(* using the overwrite header of the service that served it (the one its *)
(* layer had when it was built), and leaves an outer layer's UA in place *)
(* when the request yields none.                                          *)
UAFaithful ==
    last # NoCall =>
        last.ctx = Expected(svcs[last.svc], last.req, last.ctx0)

(* The struct's doc comment: the context is updated with the UserAgent    *)
(* if the request contains a valid User-Agent header, and so only then.   *)
DocHeaderOnly ==
    last # NoCall /\ last.ctx # last.ctx0 => last.req.ua \in UAs

=============================================================================
