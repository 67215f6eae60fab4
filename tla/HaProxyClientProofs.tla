------------------------- MODULE HaProxyClientProofs -------------------------
(***************************************************************************)
(* Proofs about HaProxyClient, for every value of its constants.           *)
(***************************************************************************)
EXTENDS HaProxyClient, TLAPS

USE ConstAssumption DEF Addr, ConstAssumption

(***************************************************************************)
(* What a configuration the constructors produce looks like: a version,   *)
(* a protocol, and a payload length that is 0 or one of PayloadLens, 0 in *)
(* version one (v1() drops the payload).                                  *)
(***************************************************************************)
LEMMA ConfigFacts ==
    ASSUME NEW c \in Configs
    PROVE  /\ c.version \in {1, 2}
           /\ c.proto \in {"Tcp", "Udp"}
           /\ PayloadLen(c) \in {0} \cup PayloadLens
           /\ PayloadLen(c) \in Nat
           /\ c.version = 1 => PayloadLen(c) = 0
<1>1. CASE c \in {tcp, udp}
  BY <1>1 DEF tcp, udp, PayloadLen
<1>2. CASE \E x \in {tcp, udp}, n \in PayloadLens : c = payload(x, n)
  <2>1. PICK x \in {tcp, udp}, n \in PayloadLens : c = payload(x, n)
    BY <1>2
  <2>2. n \in Nat
    BY <2>1
  <2>3. PayloadLen(c) = n /\ c.version = 2 /\ c.proto \in {"Tcp", "Udp"}
    BY <2>1 DEF tcp, udp, payload, PayloadLen
  <2>4. QED
    BY <2>1, <2>2, <2>3
<1>3. CASE \E x \in {x \in VersionTwoConfigs : x.proto = "Tcp"} : c = v1(x)
  BY <1>3 DEF v1, PayloadLen
<1>4. QED
  BY <1>1, <1>2, <1>3 DEF Configs, VersionTwoConfigs

(* A header built by the serve of either version is a Header. *)
LEMMA HeaderTyped ==
    ASSUME NEW c \in Configs, NEW s \in Addr, NEW d \in Addr
    PROVE  /\ V1Header(s, d) \in Header
           /\ V2Header(c.proto, s, d, PayloadLen(c)) \in Header
<1>1. Family(d) \in {"V4", "V6"}
  BY DEF Family
<1>2. PayloadLen(c) \in {0} \cup PayloadLens /\ PayloadLen(c) \in Nat
  BY ConfigFacts
<1>3. AddrBlockLen(Family(d)) + PayloadLen(c) \in Nat
  BY <1>2 DEF AddrBlockLen
<1>4. (AddrBlockLen(Family(d)) + PayloadLen(c)) % U16 \in U16Values
  BY <1>3, U16Mod
<1>5. 0 \in U16Values
  BY DEF U16, U16Values
<1>6. v2_protocol(c.proto) \in {"Stream", "Datagram"}
  BY DEF v2_protocol
<1>7. QED
  BY <1>1, <1>2, <1>4, <1>5, <1>6, Zenon DEF V1Header, V2Header, Header
(* A payload the v2 builder accepts is counted exactly by the u16 field. *)
LEMMA LenFieldExact ==
    ASSUME NEW fam \in {"V4", "V6"}, NEW n \in Nat, PayloadFits(fam, n)
    PROVE  (AddrBlockLen(fam) + n) % U16 = AddrBlockLen(fam) + n
<1>1. AddrBlockLen(fam) + n \in Nat
  BY DEF AddrBlockLen
<1>2. AddrBlockLen(fam) + n < U16
  BY DEF PayloadFits
<1>3. QED
  BY <1>1, <1>2, U16Mod

-----------------------------------------------------------------------------
(***************************************************************************)
(* The inductive invariant.  A call's wire stays empty until write_all    *)
(* completes; a writing call holds an open connection and a header that   *)
(* already says what the properties demand of it (its source is the      *)
(* call's Forwarded-else-SocketInfo address, its destination the peer,    *)
(* the length field exact); a finished call's wire is that header then    *)
(* app data; a failed call's wire holds at most cut-short headers.  The   *)
(* contexts and peers never change once set, so a header stays faithful.  *)
(***************************************************************************)
HdrOK(r, h) ==
    /\ h \in Header
    /\ h.src = Src(r)
    /\ h.dst = peer[r]
    /\ h.family = Family(h.dst)
    /\ Family(h.src) = Family(h.dst)
    /\ h.version = cfg.version
    /\ h.version = 2 => /\ h.protocol = v2_protocol(cfg.proto)
                        /\ h.payload = PayloadLen(cfg)
                        /\ h.lenField = AddrBlockLen(h.family) + h.payload

CallInv(r) ==
    /\ phase[r] \in {"idle", "connecting"} => wire[r] = << >> /\ conn[r] = "none"
    /\ phase[r] = "writing" =>
           /\ wire[r] = << >>
           /\ conn[r] = "open"
           /\ HdrOK(r, hdr[r])
    /\ phase[r] = "done" =>
           /\ Len(wire[r]) >= 1
           /\ wire[r][1] = Chunk("header", hdr[r])
           /\ \A i \in 2..Len(wire[r]) : wire[r][i] = Chunk("app", NoHeader)
           /\ conn[r] = "open"
           /\ HdrOK(r, hdr[r])
    /\ phase[r] = "failed" =>
           \A i \in 1..Len(wire[r]) : wire[r][i] = Chunk("partial", NoHeader)

IInv == TypeOK /\ \A r \in Req : CallInv(r)

-----------------------------------------------------------------------------
LEMMA InitIInv == Init => IInv
<1> SUFFICES ASSUME Init PROVE IInv
  OBVIOUS
<1>1. TypeOK
  BY DEF Init, TypeOK, Phases, Errors
<1>2. \A r \in Req : CallInv(r)
  BY DEF Init, CallInv
<1>3. QED
  BY <1>1, <1>2 DEF IInv

(* The steps of call r leave every other call's part of the state alone. *)
LEMMA OtherCalls ==
    ASSUME IInv, NEW r \in Req, NEW q \in Req, q # r,
           cfg' = cfg,
           phase'[q] = phase[q], fwd'[q] = fwd[q], sock'[q] = sock[q],
           peer'[q] = peer[q], hdr'[q] = hdr[q], wire'[q] = wire[q],
           conn'[q] = conn[q]
    PROVE  CallInv(q)'
BY DEF IInv, CallInv, HdrOK, Src

LEMMA StartStep ==
    ASSUME IInv, NEW r \in Req, Start(r) PROVE IInv'
<1>1. TypeOK'
  BY DEF IInv, Start, TypeOK, Phases
<1>2. CallInv(r)'
  BY DEF IInv, Start, TypeOK, CallInv
<1>3. ASSUME NEW q \in Req, q # r PROVE CallInv(q)'
  BY <1>3, OtherCalls DEF IInv, Start, TypeOK
<1>4. QED
  BY <1>1, <1>2, <1>3 DEF IInv

LEMMA InnerFailsStep ==
    ASSUME IInv, NEW r \in Req, InnerFails(r) PROVE IInv'
<1>1. TypeOK'
  BY DEF IInv, InnerFails, Fail, TypeOK, Errors, Phases
<1>2. CallInv(r)'
  BY DEF IInv, InnerFails, Fail, TypeOK, CallInv
<1>3. ASSUME NEW q \in Req, q # r PROVE CallInv(q)'
  BY <1>3, OtherCalls DEF IInv, InnerFails, Fail, TypeOK
<1>4. QED
  BY <1>1, <1>2, <1>3 DEF IInv

LEMMA InnerReturnsConnStep ==
    ASSUME IInv, NEW r \in Req, InnerReturnsConn(r) PROVE IInv'
<1>1. PICK d \in Addr : Connected(r, d)
  BY DEF InnerReturnsConn
<1>2. /\ phase[r] = "connecting"
      /\ UNCHANGED <<cfg, fwd, sock, wire>>
      /\ peer' = [peer EXCEPT ![r] = d]
  BY <1>1 DEF InnerReturnsConn, Connected
<1>3. /\ TypeOK
      /\ Src(r) \in Addr \cup {NoAddr}
      /\ wire[r] = << >>
  BY <1>2 DEF IInv, TypeOK, Src, CallInv
<1>4. CASE /\ Src(r) # NoAddr
           /\ Family(Src(r)) = Family(d)
           /\ cfg.version = 2 => PayloadFits(Family(d), PayloadLen(cfg))
           /\ Encoded(r, d)
           /\ conn' = [conn EXCEPT ![r] = "open"]
  <2>1. Src(r) \in Addr /\ Src(r)' = Src(r)
    BY <1>2, <1>3, <1>4 DEF Src
  <2>2. /\ PayloadLen(cfg) \in Nat
        /\ cfg.version \in {1, 2}
        /\ cfg.proto \in {"Tcp", "Udp"}
    BY <1>3, ConfigFacts DEF TypeOK
  <2>3. hdr'[r] \in Header
    BY <1>3, <1>4, <2>1, HeaderTyped DEF Encoded, TypeOK
  <2>4. cfg.version = 2 =>
          (AddrBlockLen(Family(d)) + PayloadLen(cfg)) % U16
             = AddrBlockLen(Family(d)) + PayloadLen(cfg)
    BY <1>4, <2>2, LenFieldExact DEF Family
  <2>5. HdrOK(r, hdr[r])'
    <3>1. peer'[r] = d
      BY <1>2, <1>3 DEF TypeOK
    <3>2. CASE cfg.version = 1
      <4>1. hdr'[r] = V1Header(Src(r), d)
        BY <1>3, <1>4, <3>2 DEF Encoded, TypeOK
      <4>2. QED
        BY <1>2, <1>4, <2>1, <2>3, <3>1, <3>2, <4>1 DEF HdrOK, V1Header
    <3>3. CASE cfg.version = 2
      <4>1. hdr'[r] = V2Header(cfg.proto, Src(r), d, PayloadLen(cfg))
        BY <1>3, <1>4, <3>3 DEF Encoded, TypeOK
      <4>2. QED
        BY <1>2, <1>4, <2>1, <2>3, <2>4, <3>1, <3>3, <4>1 DEF HdrOK, V2Header
    <3>4. QED
      BY <2>2, <3>2, <3>3
  <2>6. TypeOK'
    BY <1>2, <1>3, <1>4, <2>3 DEF TypeOK, Encoded, Phases
  <2>7. CallInv(r)'
    BY <1>2, <1>3, <1>4, <2>5 DEF Encoded, CallInv, TypeOK
  <2>8. ASSUME NEW q \in Req, q # r PROVE CallInv(q)'
    BY <1>2, <1>3, <1>4, <2>8, OtherCalls DEF TypeOK, Encoded
  <2>9. QED
    BY <2>6, <2>7, <2>8 DEF IInv
<1>5. CASE \E e \in Errors : Fail(r, e) /\ ConnDropped(r)
  <2>1. PICK e \in Errors : Fail(r, e) /\ ConnDropped(r)
    BY <1>5
  <2>2. TypeOK'
    BY <1>2, <1>3, <2>1 DEF TypeOK, Fail, ConnDropped, Phases
  <2>3. CallInv(r)'
    BY <1>2, <1>3, <2>1 DEF TypeOK, Fail, ConnDropped, CallInv
  <2>4. ASSUME NEW q \in Req, q # r PROVE CallInv(q)'
    BY <1>2, <1>3, <2>1, <2>4, OtherCalls DEF TypeOK, Fail, ConnDropped
  <2>5. QED
    BY <2>2, <2>3, <2>4 DEF IInv
<1>6. QED
  BY <1>1, <1>4, <1>5 DEF Connected, Errors

LEMMA WriteDoneStep ==
    ASSUME IInv, NEW r \in Req, WriteDone(r) PROVE IInv'
<1>1. HdrOK(r, hdr[r]) /\ wire[r] = << >>
  BY DEF WriteDone, IInv, CallInv
<1>2. wire'[r] = << Chunk("header", hdr[r]) >>
  BY <1>1 DEF WriteDone, IInv, TypeOK
<1>3. TypeOK'
  BY <1>1, <1>2 DEF WriteDone, IInv, TypeOK, HdrOK, Chunks, Chunk, Phases
<1>4. CallInv(r)'
  BY <1>1, <1>2 DEF WriteDone, IInv, TypeOK, CallInv, HdrOK, Src
<1>5. ASSUME NEW q \in Req, q # r PROVE CallInv(q)'
  BY <1>5, OtherCalls DEF WriteDone, IInv, TypeOK
<1>6. QED
  BY <1>3, <1>4, <1>5 DEF IInv

(* Both ways a call can end at the write_all await. *)
LEMMA WriteAbortStep ==
    ASSUME IInv, NEW r \in Req, NEW e \in {"io", "cancelled"},
           phase[r] \in {"connecting", "writing"},
           \/ phase[r] = "connecting" /\ UNCHANGED wire
           \/ phase[r] = "writing" /\ MaybePartial(r),
           Fail(r, e), Drop(r),
           UNCHANGED <<cfg, fwd, sock, peer, hdr>>
    PROVE  IInv'
<1>1. wire[r] = << >>
  BY DEF IInv, CallInv
<1>2. wire'[r] = << >> \/ wire'[r] = << Chunk("partial", NoHeader) >>
  BY <1>1 DEF MaybePartial, IInv, TypeOK
<1>3. TypeOK'
  <2>1. Chunk("partial", NoHeader) \in Chunks
    BY DEF Chunks, Chunk, NoHeader
  <2>2. wire' \in [Req -> Seq(Chunks)]
    <3>1. CASE wire' = wire
      BY <3>1 DEF IInv, TypeOK
    <3>2. CASE wire' = [wire EXCEPT ![r] = Append(@, Chunk("partial", NoHeader))]
      <4>1. Append(wire[r], Chunk("partial", NoHeader)) \in Seq(Chunks)
        BY <1>1, <2>1
      <4>2. QED
        BY <3>2, <4>1 DEF IInv, TypeOK
    <3>3. QED
      BY <3>1, <3>2 DEF MaybePartial
  <2>3. /\ phase' \in [Req -> Phases]
        /\ err' \in [Req -> Errors]
        /\ conn' \in [Req -> {"none", "open", "closed"}]
    BY DEF Fail, Drop, IInv, TypeOK, Errors, Phases
  <2>4. QED
    BY <2>2, <2>3 DEF IInv, TypeOK
<1>4. CallInv(r)'
  BY <1>2 DEF Fail, IInv, TypeOK, CallInv
<1>5. ASSUME NEW q \in Req, q # r PROVE CallInv(q)'
  <2>1. wire'[q] = wire[q]
    BY <1>5 DEF MaybePartial, IInv, TypeOK
  <2>2. QED
    BY <1>5, <2>1, OtherCalls DEF Fail, Drop, IInv, TypeOK
<1>6. QED
  BY <1>3, <1>4, <1>5 DEF IInv

LEMMA AppWriteStep ==
    ASSUME IInv, NEW r \in Req, AppWrite(r) PROVE IInv'
<1>1. /\ Len(wire[r]) >= 1
      /\ wire[r][1] = Chunk("header", hdr[r])
      /\ \A i \in 2..Len(wire[r]) : wire[r][i] = Chunk("app", NoHeader)
  BY DEF AppWrite, IInv, CallInv
<1>2. wire'[r] = Append(wire[r], Chunk("app", NoHeader))
  BY DEF AppWrite, IInv, TypeOK
<1>3. TypeOK'
  BY <1>2 DEF AppWrite, IInv, TypeOK, Chunks, Chunk, NoHeader
<1>4. CallInv(r)'
  BY <1>1, <1>2 DEF AppWrite, IInv, TypeOK, CallInv, HdrOK, Src
<1>5. ASSUME NEW q \in Req, q # r PROVE CallInv(q)'
  BY <1>5, OtherCalls DEF AppWrite, IInv, TypeOK
<1>6. QED
  BY <1>3, <1>4, <1>5 DEF IInv

LEMMA NextIInv == IInv /\ [Next]_vars => IInv'
<1> SUFFICES ASSUME IInv, [Next]_vars PROVE IInv'
  OBVIOUS
<1>1. ASSUME NEW r \in Req, WriteFails(r) PROVE IInv'
  BY <1>1, WriteAbortStep DEF WriteFails
<1>2. ASSUME NEW r \in Req, Cancel(r) PROVE IInv'
  BY <1>2, WriteAbortStep DEF Cancel
<1>3. CASE UNCHANGED vars
  BY <1>3 DEF vars, IInv, TypeOK, CallInv, HdrOK, Src
<1>4. QED
  BY <1>1, <1>2, <1>3, StartStep, InnerFailsStep, InnerReturnsConnStep,
     WriteDoneStep, AppWriteStep DEF Next

THEOREM IInvariant == Spec => []IInv
BY InitIInv, NextIInv, PTL DEF Spec

-----------------------------------------------------------------------------
(* Type correctness: every reachable state satisfies TypeOK. *)
THEOREM TypeCorrect == Spec => []TypeOK
BY IInvariant, PTL DEF IInv

(* The inductive invariant gives the three safety properties the run      *)
(* HaProxyClient checks.                                                 *)
LEMMA IInvSafe == IInv => Announced /\ HeaderFaithful /\ LengthField
<1> SUFFICES ASSUME IInv PROVE Announced /\ HeaderFaithful /\ LengthField
  OBVIOUS
<1>1. Announced
  BY DEF IInv, TypeOK, CallInv, Announced, HasApp, Chunk, Phases
<1>2. ASSUME NEW r \in Req, NEW i \in 1..Len(wire[r]),
             wire[r][i].kind = "header"
      PROVE  phase[r] = "done" /\ i = 1 /\ wire[r][i].hdr = hdr[r]
  <2>1. phase[r] \in Phases
    BY DEF IInv, TypeOK
  <2>2. CASE phase[r] \in {"idle", "connecting", "writing"}
    BY <1>2, <2>2 DEF IInv, CallInv
  <2>3. CASE phase[r] = "done"
    <3>1. i = 1
      <4>1. SUFFICES ASSUME i # 1 PROVE FALSE
        OBVIOUS
      <4>2. i \in 2..Len(wire[r])
        BY <4>1
      <4>3. wire[r][i] = Chunk("app", NoHeader)
        BY <2>3, <4>2 DEF IInv, CallInv
      <4>4. QED
        BY <1>2, <4>3 DEF Chunk
    <3>2. wire[r][1] = Chunk("header", hdr[r])
      BY <2>3 DEF IInv, CallInv
    <3>3. QED
      BY <2>3, <3>1, <3>2 DEF Chunk
  <2>4. CASE phase[r] = "failed"
    <3>1. wire[r][i] = Chunk("partial", NoHeader)
      BY <2>4 DEF IInv, CallInv
    <3>2. QED
      BY <1>2, <3>1 DEF Chunk
  <2>5. QED
    BY <2>1, <2>2, <2>3, <2>4 DEF Phases
<1>3. HeaderFaithful
  BY <1>2 DEF HeaderFaithful, IInv, CallInv, HdrOK, Src
<1>4. LengthField
  BY <1>2 DEF LengthField, IInv, CallInv, HdrOK
<1>5. QED
  BY <1>1, <1>3, <1>4

(* A connection reaches the caller only announced by one faithful header  *)
(* with an exact length field, for every number of calls and addresses.  *)
THEOREM HeaderSafety == Spec => [](Announced /\ HeaderFaithful /\ LengthField)
BY IInvariant, IInvSafe, PTL

(* serve hands a connection on, and lets app data follow, only after one   *)
(* complete header was written first (write_all(..).await? before Ok).    *)
THEOREM AnnouncedSafe == Spec => []Announced
BY HeaderSafety, PTL

(* Every header written names the Forwarded-else-SocketInfo source of its  *)
(* own call, the connection's peer, one IP family and the configuration.  *)
THEOREM FaithfulSafe == Spec => []HeaderFaithful
BY HeaderSafety, PTL

(* The u16 length field of every v2 header written is exact: write_payload *)
(* refuses what would wrap it.                                            *)
THEOREM LengthSafe == Spec => []LengthField
BY HeaderSafety, PTL

=============================================================================
