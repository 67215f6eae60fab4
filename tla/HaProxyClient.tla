--------------------------- MODULE HaProxyClient ---------------------------
(***************************************************************************)
(* The PROXY protocol client layer of src/src/proxy/pp/client/layer.rs.    *)
(*                                                                         *)
(* A HaProxyService wraps a connector (the inner service).  Every call of  *)
(* serve is a task of its own: it awaits the inner connect, resolves the   *)
(* source address from the request context (Forwarded first, SocketInfo   *)
(* second), checks that source and destination have one IP family,         *)
(* encodes a v1 or v2 header, awaits write_all of the header on the new    *)
(* connection and only then hands the connection to its caller, who may    *)
(* then write application bytes.  Several calls run concurrently on one    *)
(* service; a call may be cancelled (dropped) at either await point, and   *)
(* the connection it holds is then dropped with it.                        *)
(*                                                                         *)
(* Data is abstracted: an address is a model value of a family, a payload  *)
(* is its length, a chunk on the wire is a header record, a partial header *)
(* or a piece of application data.                                         *)
(***************************************************************************)
EXTENDS Naturals, Sequences, U16Arith

CONSTANTS
    Req,          \* the concurrent serve calls (tasks) on one service
    Addr4,        \* IPv4 socket addresses
    Addr6,        \* IPv6 socket addresses
    NoAddr,       \* "no socket address" (absent extension, or no client addr)
    PayloadLens,  \* lengths of the custom v2 payloads a layer may be given
    MaxAppWrites  \* bound on the application writes a caller makes

ASSUME ConstAssumption ==
    /\ Addr4 \cap Addr6 = {}
    /\ NoAddr \notin Addr4 \cup Addr6
    /\ PayloadLens \subseteq Nat
    /\ MaxAppWrites \in Nat

Addr == Addr4 \cup Addr6

Family(a) == IF a \in Addr4 THEN "V4" ELSE "V6"

(***************************************************************************)
(* The size of the address block of a v2 header (4+4+2+2 bytes for IPv4, *)
(* 16+16+2+2 bytes for IPv6); its 16 bit length field is U16Arith's.      *)
(***************************************************************************)
AddrBlockLen(fam) == IF fam = "V4" THEN 12 ELSE 36

-----------------------------------------------------------------------------
(***************************************************************************)
(* Layer configuration: HaProxyLayer / HaProxyService and the marker      *)
(* types of the protocol and version modules.  payload is an Option, the  *)
(* empty sequence for None.  v1() exists only on the (Tcp, Two) type and  *)
(* resets the version to its Default, dropping any payload; payload()     *)
(* exists only on version Two.                                            *)
(***************************************************************************)
tcp == [proto |-> "Tcp", version |-> 2, payload |-> << >>]

udp == [proto |-> "Udp", version |-> 2, payload |-> << >>]

payload(c, n) == [proto |-> c.proto, version |-> c.version, payload |-> <<n>>]

v1(c) == [proto |-> "Tcp", version |-> 1, payload |-> << >>]

VersionTwoConfigs ==
    {tcp, udp} \cup {payload(c, n) : c \in {tcp, udp}, n \in PayloadLens}

(* Every configuration the public constructors can produce. *)
Configs ==
    VersionTwoConfigs \cup {v1(c) : c \in {x \in VersionTwoConfigs : x.proto = "Tcp"}}

v2_protocol(p) == IF p = "Tcp" THEN "Stream" ELSE "Datagram"

-----------------------------------------------------------------------------
(***************************************************************************)
(* Header encoding.  v1::Addresses (TCP4/TCP6 text line) carries no       *)
(* payload and no length field; the v2 builder writes the address block   *)
(* and the payload and a big-endian u16 length of both.                   *)
(***************************************************************************)
V1Header(s, d) ==
    [version |-> 1, family |-> Family(d), protocol |-> "Stream",
     src |-> s, dst |-> d, payload |-> 0, lenField |-> 0]

(* v2::Builder::write_payload: refuses a payload the length field cannot count. *)
PayloadFits(fam, n) == AddrBlockLen(fam) + n < U16

V2Header(p, s, d, n) ==
    [version |-> 2, family |-> Family(d), protocol |-> v2_protocol(p),
     src |-> s, dst |-> d, payload |-> n,
     lenField |-> (AddrBlockLen(Family(d)) + n) % U16]

PayloadLen(c) == IF c.payload = << >> THEN 0 ELSE c.payload[1]

Header ==
    [version : {1, 2}, family : {"V4", "V6"}, protocol : {"Stream", "Datagram"},
     src : Addr, dst : Addr, payload : {0} \cup PayloadLens, lenField : U16Values]

NoHeader == [version |-> 0]

(* What a connection carries: a header, a header cut short, or app data. *)
Chunk(k, h) == [kind |-> k, hdr |-> h]

Chunks ==
    [kind : {"header"}, hdr : Header]
        \cup [kind : {"partial", "app"}, hdr : {NoHeader}]

-----------------------------------------------------------------------------
VARIABLES
    cfg,    \* the version field and protocol of the service (read-only)
    phase,  \* phase[r]: where call r is in serve
    err,    \* err[r]: the error call r returned
    fwd,    \* fwd[r]: Forwarded client socket address in r's context
    sock,   \* sock[r]: SocketInfo peer address in r's context
    peer,   \* peer[r]: conn.addr() of the connection r's inner call returned
    hdr,    \* hdr[r]: the header r encoded
    wire,   \* wire[r]: the chunks written on r's connection, in order
    conn    \* conn[r]: "none" before connect, then "open" or "closed"

vars == <<cfg, phase, err, fwd, sock, peer, hdr, wire, conn>>

Phases == {"idle", "connecting", "writing", "done", "failed"}

Errors == {"none", "inner", "missing_src", "mismatch", "encode", "io", "cancelled"}

TypeOK ==
    /\ cfg \in Configs
    /\ phase \in [Req -> Phases]
    /\ err \in [Req -> Errors]
    /\ fwd \in [Req -> Addr \cup {NoAddr}]
    /\ sock \in [Req -> Addr \cup {NoAddr}]
    /\ peer \in [Req -> Addr \cup {NoAddr}]
    /\ hdr \in [Req -> Header \cup {NoHeader}]
    /\ wire \in [Req -> Seq(Chunks)]
    /\ conn \in [Req -> {"none", "open", "closed"}]

-----------------------------------------------------------------------------
Init ==
    /\ cfg \in Configs
    /\ phase = [r \in Req |-> "idle"]
    /\ err = [r \in Req |-> "none"]
    /\ fwd = [r \in Req |-> NoAddr]
    /\ sock = [r \in Req |-> NoAddr]
    /\ peer = [r \in Req |-> NoAddr]
    /\ hdr = [r \in Req |-> NoHeader]
    /\ wire = [r \in Req |-> << >>]
    /\ conn = [r \in Req |-> "none"]

(* Mutant: SocketInfo consulted before Forwarded. *)
SrcSocketInfoFirst(r) == IF sock[r] # NoAddr THEN sock[r] ELSE fwd[r]

(* ctx.get::<Forwarded>().and_then(client_socket_addr).or_else(SocketInfo) *)
Src(r) == IF fwd[r] # NoAddr THEN fwd[r] ELSE sock[r]

(* The call returns Err(e). *)
Fail(r, e) ==
    /\ phase' = [phase EXCEPT ![r] = "failed"]
    /\ err' = [err EXCEPT ![r] = e]

(* The connection the call holds, if any, is dropped (and closed). *)
Drop(r) == conn' = [conn EXCEPT ![r] = IF @ = "open" THEN "closed" ELSE @]

(* serve(ctx, req) is called with a context the caller filled in; the   *)
(* call awaits self.inner.serve(ctx, req).                              *)
Start(r) ==
    /\ phase[r] = "idle"
    /\ \E f \in Addr \cup {NoAddr}, s \in Addr \cup {NoAddr} :
         /\ fwd' = [fwd EXCEPT ![r] = f]
         /\ sock' = [sock EXCEPT ![r] = s]
    /\ phase' = [phase EXCEPT ![r] = "connecting"]
    /\ UNCHANGED <<cfg, err, peer, hdr, wire, conn>>

(* The inner connector fails: map_err(Into::into)? *)
InnerFails(r) ==
    /\ phase[r] = "connecting"
    /\ Fail(r, "inner")
    /\ UNCHANGED <<cfg, fwd, sock, peer, hdr, wire, conn>>

(* The header is encoded and write_all of it begins. *)
Encoded(r, d) ==
    /\ phase' = [phase EXCEPT ![r] = "writing"]
    /\ hdr' = [hdr EXCEPT ![r] =
                 IF cfg.version = 1 THEN V1Header(Src(r), d)
                 ELSE V2Header(cfg.proto, Src(r), d, PayloadLen(cfg))]
    /\ UNCHANGED err

(* An early return after connect: the fresh connection is dropped unused. *)
ConnDropped(r) ==
    /\ conn' = [conn EXCEPT ![r] = "closed"]
    /\ UNCHANGED hdr

(* Mutant: a missing source address is not an error, the header is built *)
(* with whatever the lookup returned.                                     *)
ConnectedNoSrcCheck(r, d) ==
    /\ peer' = [peer EXCEPT ![r] = d]
    /\ \/ /\ Family(Src(r)) # Family(d)
          /\ Fail(r, "mismatch")
          /\ ConnDropped(r)
       \/ /\ Family(Src(r)) = Family(d)
          /\ cfg.version = 2
          /\ ~PayloadFits(Family(d), PayloadLen(cfg))
          /\ Fail(r, "encode")
          /\ ConnDropped(r)
       \/ /\ Family(Src(r)) = Family(d)
          /\ cfg.version = 2 => PayloadFits(Family(d), PayloadLen(cfg))
          /\ Encoded(r, d)
          /\ conn' = [conn EXCEPT ![r] = "open"]

(* Mutant: the Err of write_payload is ignored (no `?`), the header is  *)
(* built anyway and its u16 length wraps.                               *)
ConnectedPayloadErrIgnored(r, d) ==
    /\ peer' = [peer EXCEPT ![r] = d]
    /\ \/ /\ Src(r) = NoAddr
          /\ Fail(r, "missing_src")
          /\ ConnDropped(r)
       \/ /\ Src(r) # NoAddr
          /\ Family(Src(r)) # Family(d)
          /\ Fail(r, "mismatch")
          /\ ConnDropped(r)
       \/ /\ Src(r) # NoAddr
          /\ Family(Src(r)) = Family(d)
          /\ Encoded(r, d)
          /\ conn' = [conn EXCEPT ![r] = "open"]

(* The inner connector returns a connection to d; the synchronous rest  *)
(* of serve up to the write_all await: src lookup, family match,        *)
(* builder with payload, build.                                         *)
Connected(r, d) ==
    /\ peer' = [peer EXCEPT ![r] = d]
    /\ \/ /\ Src(r) = NoAddr
          /\ Fail(r, "missing_src")
          /\ ConnDropped(r)
       \/ /\ Src(r) # NoAddr
          /\ Family(Src(r)) # Family(d)
          /\ Fail(r, "mismatch")
          /\ ConnDropped(r)
       \/ /\ Src(r) # NoAddr
          /\ Family(Src(r)) = Family(d)
          /\ cfg.version = 2
          /\ ~PayloadFits(Family(d), PayloadLen(cfg))
          /\ Fail(r, "encode")
          /\ ConnDropped(r)
       \/ /\ Src(r) # NoAddr
          /\ Family(Src(r)) = Family(d)
          /\ cfg.version = 2 => PayloadFits(Family(d), PayloadLen(cfg))
          /\ Encoded(r, d)
          /\ conn' = [conn EXCEPT ![r] = "open"]

InnerReturnsConn(r) ==
    /\ phase[r] = "connecting"
    /\ \E d \in Addr : Connected(r, d)
    /\ UNCHANGED <<cfg, fwd, sock, wire>>

(* write_all completes: the header is on the wire, serve returns Ok. *)
WriteDone(r) ==
    /\ phase[r] = "writing"
    /\ wire' = [wire EXCEPT ![r] = Append(@, Chunk("header", hdr[r]))]
    /\ phase' = [phase EXCEPT ![r] = "done"]
    /\ UNCHANGED <<cfg, err, fwd, sock, peer, hdr, conn>>

(* A cut-short write_all may have sent part of the header. *)
MaybePartial(r) ==
    \/ UNCHANGED wire
    \/ wire' = [wire EXCEPT ![r] = Append(@, Chunk("partial", NoHeader))]

(* Mutant: the write error is logged and swallowed, serve returns Ok. *)
WriteFailsSwallowed(r) ==
    /\ phase[r] = "writing"
    /\ MaybePartial(r)
    /\ phase' = [phase EXCEPT ![r] = "done"]
    /\ UNCHANGED <<cfg, err, fwd, sock, peer, hdr, conn>>

(* Mutant: a failed header write is retried on a fresh connection. *)
WriteFailsRetried(r) ==
    /\ phase[r] = "writing"
    /\ phase' = [phase EXCEPT ![r] = "connecting"]
    /\ Drop(r)
    /\ UNCHANGED <<cfg, err, fwd, sock, peer, hdr, wire>>

(* write_all fails: .context("write header")? returns the error. *)
WriteFails(r) ==
    /\ phase[r] = "writing"
    /\ MaybePartial(r)
    /\ Fail(r, "io")
    /\ Drop(r)
    /\ UNCHANGED <<cfg, fwd, sock, peer, hdr>>

(* The task driving serve is dropped at one of its two await points     *)
(* (e.g. by an outer timeout layer); the connection is dropped with it. *)
Cancel(r) ==
    /\ \/ phase[r] = "connecting" /\ UNCHANGED wire
       \/ phase[r] = "writing" /\ MaybePartial(r)
    /\ Fail(r, "cancelled")
    /\ Drop(r)
    /\ UNCHANGED <<cfg, fwd, sock, peer, hdr>>

(* The caller of serve writes application data on the returned stream. *)
AppWrite(r) ==
    /\ phase[r] = "done"
    /\ conn[r] = "open"
    /\ Len(wire[r]) <= MaxAppWrites
    /\ wire' = [wire EXCEPT ![r] = Append(@, Chunk("app", NoHeader))]
    /\ UNCHANGED <<cfg, phase, err, fwd, sock, peer, hdr, conn>>

Next ==
    \E r \in Req :
        \/ Start(r)
        \/ InnerFails(r)
        \/ InnerReturnsConn(r)
        \/ WriteDone(r)
        \/ WriteFails(r)
        \/ Cancel(r)
        \/ AppWrite(r)

(***************************************************************************)
(* Fairness: the tokio executor polls every ready task, and the inner      *)
(* connector and write_all each end (with a result, an error or a          *)
(* timeout's cancellation).  Nothing forces a caller to write app data.    *)
(***************************************************************************)
Progress(r) ==
    \/ InnerFails(r) \/ InnerReturnsConn(r)
    \/ WriteDone(r) \/ WriteFails(r)

Spec == Init /\ [][Next]_vars

FairSpec == Spec /\ \A r \in Req : WF_vars(Progress(r))

-----------------------------------------------------------------------------
(***************************************************************************)
(* Properties.                                                             *)
(***************************************************************************)
HasApp(r) == \E i \in 1..Len(wire[r]) : wire[r][i].kind = "app"

(* Announced: a connection reaches the caller of serve, and carries       *)
(* application bytes, only after write_all has put one complete PROXY     *)
(* header on it as its very first bytes (layer.rs: write_all(..).await?   *)
(* before Ok(EstablishedClientConnection)); a call that failed or was     *)
(* cancelled after a partial write never hands its connection on.         *)
Announced ==
    \A r \in Req :
        (phase[r] = "done" \/ HasApp(r)) =>
            /\ phase[r] = "done"
            /\ Len(wire[r]) >= 1
            /\ wire[r][1] = Chunk("header", hdr[r])
            /\ \A i \in 2..Len(wire[r]) : wire[r][i].kind = "app"

(* HeaderFaithful: every header written on a connection names as source   *)
(* the Forwarded client address of the call's own context when there is   *)
(* one and else its SocketInfo peer, as destination the connection's      *)
(* peer, both of one IP family, and the version, v2 protocol and payload  *)
(* the service was configured with (serve, the src lookup and the family  *)
(* match); concurrent calls never see each other's contexts.              *)
HeaderFaithful ==
    \A r \in Req : \A i \in 1..Len(wire[r]) :
        wire[r][i].kind = "header" =>
            LET h == wire[r][i].hdr
                expected == IF fwd[r] # NoAddr THEN fwd[r] ELSE sock[r]
            IN  /\ h.src = expected
                /\ h.dst = peer[r]
                /\ Family(h.src) = Family(h.dst)
                /\ h.version = cfg.version
                /\ h.version = 2 =>
                       /\ h.protocol = v2_protocol(cfg.proto)
                       /\ h.payload = PayloadLen(cfg)

(* LengthField: the length field of every v2 header written counts       *)
(* exactly its address block and payload bytes, so a payload near 64 KiB  *)
(* is refused (encode error) rather than announced with a wrapped u16.    *)
LengthField ==
    \A r \in Req : \A i \in 1..Len(wire[r]) :
        (wire[r][i].kind = "header" /\ wire[r][i].hdr.version = 2) =>
            wire[r][i].hdr.lenField
                = AddrBlockLen(wire[r][i].hdr.family) + wire[r][i].hdr.payload

(* Completes: every call of serve that has begun eventually returns, Ok  *)
(* or Err; no error inside the layer is retried.                         *)
Completes ==
    \A r \in Req :
        phase[r] \in {"connecting", "writing"} ~> phase[r] \in {"done", "failed"}

=============================================================================
