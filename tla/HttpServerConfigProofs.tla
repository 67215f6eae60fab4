------------------------ MODULE HttpServerConfigProofs ------------------------
(***************************************************************************)
(* Proofs about HttpServerConfig for every set of connections, settings   *)
(* and bounds: whatever the builder and the order of setter calls, serve  *)
(* and HttpService::call hand each connection the settings of the calls   *)
(* before it.                                                              *)
(***************************************************************************)
EXTENDS HttpServerConfig, TLAPS

USE ConfigAssumption

(* The fields of protocol p.                                               *)
FieldsOf(p) == IF p = "http1" THEN H1Fields ELSE H2Fields

(* The settings s of protocol p are what the calls cs leave them at.      *)
Holds(cs, p, s) == DOMAIN s = FieldsOf(p) /\ \A f \in FieldsOf(p) : SetBy(cs, p, f, s[f])

(* While building, the builder holds what the calls made so far give; an  *)
(* HttpService holds what they gave at service(); no call panicked unless *)
(* the builder is gone; a connection started after at most every call.    *)
BuilderInv ==
    /\ \A i \in 1..Len(calls) : calls[i].f \in FieldsOf(calls[i].p)
    /\ phase # "panicked" => \A i \in 1..Len(calls) : ~Panics(calls[i].f, calls[i].v)
    /\ phase = "building" => Holds(calls, "http1", h1) /\ Holds(calls, "h2", h2)
    /\ phase = "service" => Holds(calls, "http1", frozen.h1) /\ Holds(calls, "h2", frozen.h2)
    /\ \A c \in Conns : conn[c].st # "idle" =>
         conn[c].at \in 0..Len(calls) /\ conn[c].proto \in {"http1", "h2"}

IInv == TypeOK /\ BuilderInv /\ ConfigApplied

(* The setter calls.                                                       *)
CallRec == [p : {"http1", "h2"}, f : H1Fields \cup H2Fields, v : Values]

(* Every value a setter is given is one of Values.                        *)
LEMMA ArgValsType == \A f : ArgVals(f) \subseteq Values
BY DEF ArgVals, Values, None

(* One more call changes the calls that take effect on (p, g) by at most *)
(* its own index.                                                          *)
LEMMA EffectiveAppend ==
    ASSUME NEW cs \in Seq(CallRec), NEW x \in CallRec, NEW p, NEW g
    PROVE  Effective(Append(cs, x), p, g) =
             IF x.p = p /\ x.f = g /\ ~(g \in NoneIsNoOp /\ x.v = None)
             THEN Effective(cs, p, g) \cup {Len(cs) + 1}
             ELSE Effective(cs, p, g)
BY DEF Effective

(* What a field holds after one more call: the setter's Stored value for *)
(* the field it sets, the old value for every other.                       *)
LEMMA SetByAppend ==
    ASSUME NEW cs \in Seq(CallRec), NEW x \in CallRec, NEW p, NEW g, NEW old,
           SetBy(cs, p, g, old)
    PROVE  SetBy(Append(cs, x), p, g,
                 IF x.p = p /\ x.f = g THEN Stored(g, x.v, old) ELSE old)
<1>. DEFINE I == Effective(cs, p, g)
            J == Effective(Append(cs, x), p, g)
            n == Len(cs)
<1>1. I \subseteq 1..n
  BY DEF Effective
<1>2. CASE x.p = p /\ x.f = g /\ ~(g \in NoneIsNoOp /\ x.v = None)
  <2>1. J = I \cup {n + 1}
    BY <1>2, EffectiveAppend
  <2>2. \A j \in J : j <= n + 1
    BY <1>1, <2>1
  <2>3. Append(cs, x)[n + 1] = x
    OBVIOUS
  <2>4. Stored(g, x.v, old) = IF x.v = None THEN "off" ELSE x.v
    BY <1>2 DEF Stored
  <2>. QED
    BY <1>2, <2>1, <2>2, <2>3, <2>4 DEF SetBy
<1>3. CASE ~(x.p = p /\ x.f = g /\ ~(g \in NoneIsNoOp /\ x.v = None))
  <2>1. J = I
    BY <1>3, EffectiveAppend
  <2>2. \A i \in I : Append(cs, x)[i] = cs[i]
    BY <1>1
  <2>3. (IF x.p = p /\ x.f = g THEN Stored(g, x.v, old) ELSE old) = old
    BY <1>3 DEF Stored
  <2>. QED
    BY <2>1, <2>2, <2>3 DEF SetBy
<1>. QED
  BY <1>2, <1>3

(* The settings of p after one more call: the setter's field updated when *)
(* the call is for p, untouched otherwise.                                *)
LEMMA HoldsAppend ==
    ASSUME NEW cs \in Seq(CallRec), NEW x \in CallRec, NEW p, NEW s,
           Holds(cs, p, s), x.f \in FieldsOf(x.p)
    PROVE  Holds(Append(cs, x), p,
                 IF x.p = p THEN [s EXCEPT ![x.f] = Stored(x.f, x.v, s[x.f])] ELSE s)
<1>. DEFINE t == IF x.p = p THEN [s EXCEPT ![x.f] = Stored(x.f, x.v, s[x.f])] ELSE s
<1>1. DOMAIN t = FieldsOf(p)
  BY DEF Holds
<1>2. ASSUME NEW g \in FieldsOf(p)
      PROVE  SetBy(Append(cs, x), p, g, t[g])
  <2>1. SetBy(cs, p, g, s[g])
    BY DEF Holds
  <2>2. t[g] = IF x.p = p /\ x.f = g THEN Stored(g, x.v, s[g]) ELSE s[g]
    BY DEF Holds
  <2>. QED
    BY <2>1, <2>2, SetByAppend
<1>. QED
  BY <1>1, <1>2 DEF Holds

(* A later call leaves the prefix a running connection started after.     *)
LEMMA SubSeqAppend ==
    ASSUME NEW S, NEW cs \in Seq(S), NEW x \in S, NEW n \in 0..Len(cs)
    PROVE  SubSeq(Append(cs, x), 1, n) = SubSeq(cs, 1, n)
OBVIOUS

(* A setter call of any of the four config views preserves the invariant: *)
(* it appends to the calls, and either stores the value in the builder's *)
(* half for its protocol or ends the builder with a panic.                *)
LEMMA SetFieldStep ==
    ASSUME IInv, NEW p \in {"http1", "h2"}, NEW f \in FieldsOf(p), NEW v \in Values,
           SetField(IF p = "http1" THEN h1 ELSE h2, f, v, p)
    PROVE  IInv'
<1>. DEFINE x == [p |-> p, f |-> f, v |-> v]
<1>0. /\ x \in CallRec /\ calls \in Seq(CallRec) /\ calls' = Append(calls, x)
      /\ phase = "building" /\ Len(calls) < MaxCalls
      /\ UNCHANGED << kind, frozen, conn, layers >>
  BY DEF SetField, CallRec, TypeOK, IInv, FieldsOf
<1>1. TypeOK'
  <2>1. DOMAIN h1' = H1Fields /\ DOMAIN h2' = H2Fields
    BY DEF SetField, IInv, TypeOK
  <2>2. phase' \in {"building", "service", "panicked"}
    BY DEF SetField
  <2>. QED
    BY <1>0, <2>1, <2>2 DEF TypeOK, IInv, CallRec
<1>2. \A i \in 1..Len(calls') : calls'[i].f \in FieldsOf(calls'[i].p)
  BY <1>0 DEF IInv, BuilderInv
<1>3. phase' # "panicked" => \A i \in 1..Len(calls') : ~Panics(calls'[i].f, calls'[i].v)
  BY <1>0 DEF SetField, IInv, BuilderInv
<1>4. phase' = "building" => Holds(calls', "http1", h1') /\ Holds(calls', "h2", h2')
  <2> SUFFICES ASSUME phase' = "building" PROVE Holds(calls', "http1", h1') /\ Holds(calls', "h2", h2')
    OBVIOUS
  <2>1. ~Panics(f, v)
    BY DEF SetField
  <2>2. Holds(calls, "http1", h1) /\ Holds(calls, "h2", h2)
    BY <1>0 DEF IInv, BuilderInv
  <2>3. h1' = IF x.p = "http1" THEN [h1 EXCEPT ![x.f] = Stored(x.f, x.v, h1[x.f])] ELSE h1
    BY <2>1 DEF SetField
  <2>4. h2' = IF x.p = "h2" THEN [h2 EXCEPT ![x.f] = Stored(x.f, x.v, h2[x.f])] ELSE h2
    BY <2>1 DEF SetField
  <2>. QED
    BY <1>0, <2>2, <2>3, <2>4, HoldsAppend
<1>5. phase' = "service" => Holds(calls', "http1", frozen'.h1) /\ Holds(calls', "h2", frozen'.h2)
  BY DEF SetField
<1>6. \A c \in Conns : conn'[c].st # "idle" =>
        conn'[c].at \in 0..Len(calls') /\ conn'[c].proto \in {"http1", "h2"}
  BY <1>0 DEF IInv, BuilderInv
<1>7. ConfigApplied'
  <2> SUFFICES ASSUME NEW c \in Conns, conn[c].st # "idle"
               PROVE  SubSeq(calls', 1, conn[c].at) = SubSeq(calls, 1, conn[c].at)
    BY <1>0 DEF ConfigApplied, IInv
  <2>. QED
    BY <1>0, SubSeqAppend DEF IInv, BuilderInv
<1>. QED
  BY <1>1, <1>2, <1>3, <1>4, <1>5, <1>6, <1>7 DEF IInv, BuilderInv

LEMMA InitIInv == Init => IInv
<1> SUFFICES ASSUME Init PROVE IInv
  OBVIOUS
<1>1. \A p \in {"http1", "h2"} : Holds(<< >>, p, Defaults(FieldsOf(p)))
  BY DEF Holds, SetBy, Effective, Defaults, FieldsOf
<1>2. TypeOK
  BY DEF Init, TypeOK, Defaults
<1>3. BuilderInv
  BY <1>1 DEF Init, BuilderInv, FieldsOf
<1>4. ConfigApplied
  BY DEF Init, ConfigApplied
<1>. QED
  BY <1>2, <1>3, <1>4 DEF IInv

(* Connection c starts with protocol pr, handed the settings b1, b2.      *)
StartC(c, pr, w, b1, b2) ==
    /\ conn' = [conn EXCEPT ![c] = [st |-> "active", proto |-> pr, via |-> w,
                                    at |-> Len(calls), cfg |-> ConnCfg(pr, b1, b2)]]
    /\ UNCHANGED << kind, h1, h2, phase, frozen, calls, layers >>

(* A connection served now, by serve from the builder or by               *)
(* HttpService::call from the shared one, is handed settings the calls    *)
(* so far give, and no call so far panicked.                               *)
LEMMA StartConn ==
    ASSUME IInv, NEW c \in Conns, NEW pr \in {"http1", "h2"}, NEW w, NEW b1, NEW b2,
           phase \in {"building", "service"},
           Holds(calls, "http1", b1), Holds(calls, "h2", b2),
           StartC(c, pr, w, b1, b2)
    PROVE  IInv'
<1>. USE DEF StartC
<1>1. TypeOK'
  BY DEF IInv, TypeOK
<1>2. BuilderInv'
  BY DEF IInv, BuilderInv, TypeOK
<1>3. ConfigApplied'
  <2> SUFFICES ASSUME NEW d \in Conns, conn'[d].st # "idle"
               PROVE  LET cs == SubSeq(calls', 1, conn'[d].at)
                      IN  /\ DOMAIN conn'[d].cfg = IF conn'[d].proto = "http1" THEN H1Fields ELSE H2Fields
                          /\ \A f \in DOMAIN conn'[d].cfg : SetBy(cs, conn'[d].proto, f, conn'[d].cfg[f])
                          /\ \A i \in 1..Len(cs) : ~Panics(cs[i].f, cs[i].v)
    BY DEF ConfigApplied
  <2>1. CASE d = c
    <3>1. SubSeq(calls, 1, Len(calls)) = calls
      BY DEF IInv, TypeOK
    <3>2. conn'[d].proto = pr /\ conn'[d].at = Len(calls) /\ conn'[d].cfg = ConnCfg(pr, b1, b2)
      BY <2>1 DEF IInv, TypeOK
    <3>3. Holds(calls, pr, ConnCfg(pr, b1, b2))
      BY DEF ConnCfg
    <3>4. \A i \in 1..Len(calls) : ~Panics(calls[i].f, calls[i].v)
      BY DEF IInv, BuilderInv
    <3>. QED
      BY <3>1, <3>2, <3>3, <3>4 DEF Holds, FieldsOf
  <2>2. CASE d # c
    BY <2>2 DEF IInv, ConfigApplied, TypeOK
  <2>. QED
    BY <2>1, <2>2
<1>. QED
  BY <1>1, <1>2, <1>3 DEF IInv

LEMMA NextIInv == IInv /\ [Next]_vars => IInv'
<1> SUFFICES ASSUME IInv, [Next]_vars PROVE IInv'
  OBVIOUS
<1>0. TypeOK /\ BuilderInv /\ ConfigApplied
  BY DEF IInv
<1>1. ASSUME NEW f \in H1Fields, NEW v \in ArgVals(f), Http1Set(f, v) \/ AutoHttp1Set(f, v)
      PROVE  IInv'
  <2>1. v \in Values /\ f \in FieldsOf("http1")
    BY ArgValsType DEF FieldsOf
  <2>2. SetField(IF "http1" = "http1" THEN h1 ELSE h2, f, v, "http1")
    BY <1>1 DEF Http1Set, AutoHttp1Set
  <2>. QED
    BY <2>1, <2>2, SetFieldStep
<1>2. ASSUME NEW f \in H2Fields, NEW v \in ArgVals(f), H2Set(f, v) \/ AutoH2Set(f, v)
      PROVE  IInv'
  <2>1. v \in Values /\ f \in FieldsOf("h2")
    BY ArgValsType DEF FieldsOf
  <2>2. SetField(IF "h2" = "http1" THEN h1 ELSE h2, f, v, "h2")
    BY <1>2 DEF H2Set, AutoH2Set
  <2>. QED
    BY <2>1, <2>2, SetFieldStep
<1>3. CASE AddLayer
  BY <1>0, <1>3 DEF AddLayer, IInv, TypeOK, BuilderInv, ConfigApplied
<1>4. CASE Service
  BY <1>0, <1>4 DEF Service, IInv, TypeOK, BuilderInv, ConfigApplied
<1>5. ASSUME NEW c \in Conns, Serve(c)
      PROVE  IInv'
  <2>1. PICK pr \in Protocols(kind) :
          conn' = [conn EXCEPT ![c] = [st |-> "active", proto |-> pr, via |-> "serve",
                                       at |-> Len(calls), cfg |-> ConnCfg(pr, h1, h2)]]
    BY <1>5 DEF Serve
  <2>2. pr \in {"http1", "h2"}
    BY <1>0 DEF TypeOK, Protocols
  <2>3. Holds(calls, "http1", h1) /\ Holds(calls, "h2", h2)
    BY <1>0, <1>5 DEF Serve, BuilderInv
  <2>4. phase \in {"building", "service"} /\ StartC(c, pr, "serve", h1, h2)
    BY <1>5, <2>1 DEF Serve, StartC
  <2>. QED
    BY <2>2, <2>3, <2>4, StartConn
<1>6. ASSUME NEW c \in Conns, Call(c)
      PROVE  IInv'
  <2>1. PICK pr \in Protocols(kind) :
          conn' = [conn EXCEPT ![c] = [st |-> "active", proto |-> pr, via |-> "service",
                                       at |-> Len(calls),
                                       cfg |-> ConnCfg(pr, frozen.h1, frozen.h2)]]
    BY <1>6 DEF Call
  <2>2. pr \in {"http1", "h2"}
    BY <1>0 DEF TypeOK, Protocols
  <2>3. Holds(calls, "http1", frozen.h1) /\ Holds(calls, "h2", frozen.h2)
    BY <1>0, <1>6 DEF Call, BuilderInv
  <2>4. phase \in {"building", "service"} /\ StartC(c, pr, "service", frozen.h1, frozen.h2)
    BY <1>6, <2>1 DEF Call, StartC
  <2>. QED
    BY <2>2, <2>3, <2>4, StartConn
<1>7. ASSUME NEW c \in Conns, ConnEnd(c)
      PROVE  IInv'
  <2>1. \A d \in Conns : /\ conn'[d].st # "idle" <=> conn[d].st # "idle"
                         /\ conn'[d].at = conn[d].at /\ conn'[d].proto = conn[d].proto
                         /\ conn'[d].cfg = conn[d].cfg
    BY <1>0, <1>7 DEF ConnEnd, TypeOK
  <2>2. TypeOK'
    BY <1>0, <1>7 DEF ConnEnd, TypeOK
  <2>3. BuilderInv'
    BY <1>0, <1>7, <2>1 DEF ConnEnd, BuilderInv
  <2>4. ConfigApplied'
    BY <1>0, <1>7, <2>1 DEF ConnEnd, ConfigApplied
  <2>. QED
    BY <2>2, <2>3, <2>4 DEF IInv
<1>8. CASE UNCHANGED vars
  BY <1>0, <1>8 DEF vars, IInv, TypeOK, BuilderInv, ConfigApplied
<1>. QED
  BY <1>1, <1>2, <1>3, <1>4, <1>5, <1>6, <1>7, <1>8 DEF Next

(* Every reachable state is well typed, for every set of connections and *)
(* settings: the calls stay within MaxCalls and the builder's two halves *)
(* keep their fields.                                                     *)
THEOREM TypeCorrect == Spec => []TypeOK
<1>1. IInv => TypeOK
  BY DEF IInv
<1>. QED
  BY InitIInv, NextIInv, <1>1, PTL DEF Spec

(* For every set of connections, settings and bounds, each connection     *)
(* serve or HttpService::call hands to hyper carries the settings of the *)
(* setter calls made before it, on whichever builder and protocol, and   *)
(* none that panicked.                                                     *)
THEOREM ConfigAppliedSafe == Spec => []ConfigApplied
<1>1. IInv => ConfigApplied
  BY DEF IInv
<1>. QED
  BY InitIInv, NextIInv, <1>1, PTL DEF Spec

=============================================================================
