---------------------- MODULE UserAgentClassifierProofs ----------------------
(***************************************************************************)
(* Proofs about UserAgentClassifier for every value of its constants: the *)
(* classification UserAgentClassifier::serve computes is the documented  *)
(* one, and so every serve of every service satisfies UAFaithful.        *)
(***************************************************************************)
EXTENDS UserAgentClassifier, TLAPS

USE UAAssumption DEF UAAssumption, None, Derived

(* The overwrite value a request has for any header is one of the forms   *)
(* the model allows, and what it parses to is an UserAgentOverwrites.     *)
LEMMA HdrValueType ==
    ASSUME NEW req \in Request, NEW h \in HdrNames \cup {None}
    PROVE  /\ HdrValue(req, h) \in OverwriteHdr
           /\ HdrValue(req, h).ov \in Overwrites
<1>1. NoOverwrites \in Overwrites
  BY DEF NoOverwrites, Overwrites
<1>2. HdrValue(req, h) \in OverwriteHdr
  BY DEF HdrValue, Request, OverwriteHdr, AbsentHdr
<1>3. \A x \in OverwriteHdr : x.ov \in Overwrites
  BY <1>1 DEF OverwriteHdr, AbsentHdr
<1>. QED
  BY <1>2, <1>3

(* The code of serve (header UA, then the overwrite ua, then the agent    *)
(* and preserve overwrites on whatever UA there is, then insert or keep)  *)
(* computes exactly the rules its doc comments and tests state.           *)
LEMMA ClassifyIsExpected ==
    ASSUME NEW oh \in HdrNames \cup {None}, NEW req \in Request,
           NEW c0 \in UserAgent \cup {NoUA}
    PROVE  Classify(oh, req, c0) = Expected(oh, req, c0)
<1> DEFINE some == oh # None /\ HdrValue(req, oh).form = "parses"
           ov   == HdrValue(req, oh).ov
<1>1. ov \in Overwrites
  BY HdrValueType
<1>2. \A s \in UAs : UANew(s) # NoUA
  BY DEF UANew, NoUA
<1>3. CASE ~some
  BY <1>2, <1>3 DEF Classify, Expected, WithOverwrites, OrElse, UANew, NoOverwrites, NoUA
<1>4. CASE some /\ ov.ua # None
  BY <1>1, <1>4 DEF Classify, Expected, WithOverwrites, OrElse, UANew, NoUA, Overwrites
<1>5. CASE some /\ ov.ua = None /\ req.ua \in UAs
  BY <1>1, <1>5 DEF Classify, Expected, WithOverwrites, OrElse, UANew, NoUA, Overwrites
<1>6. CASE some /\ ov.ua = None /\ req.ua \notin UAs
  BY <1>1, <1>6 DEF Classify, Expected, WithOverwrites, OrElse, UANew, NoUA
<1>. QED
  BY <1>3, <1>4, <1>5, <1>6

(* What serve inserts is a UserAgent, or the context keeps what it held.  *)
LEMMA ClassifyType ==
    ASSUME NEW oh \in HdrNames \cup {None}, NEW req \in Request,
           NEW c0 \in UserAgent \cup {NoUA}
    PROVE  Classify(oh, req, c0) \in UserAgent \cup {NoUA}
<1> DEFINE ov == IF oh # None /\ HdrValue(req, oh).form = "parses"
                 THEN HdrValue(req, oh).ov ELSE NoOverwrites
<1>1. ov \in Overwrites
  BY HdrValueType DEF NoOverwrites, Overwrites
<1>2. Expected(oh, req, c0) \in UserAgent \cup {NoUA}
  BY <1>1 DEF Expected, OrElse, Overwrites, UserAgent
<1>. QED
  BY <1>2, ClassifyIsExpected

-----------------------------------------------------------------------------

(* The inductive invariant: the type, the serve recorded names a service  *)
(* that exists, and its UA is the documented one for that service.       *)
IInv ==
    /\ TypeOK
    /\ last # NoCall => last.svc \in 1..Len(svcs)
    /\ UAFaithful

LEMMA InitIInv == Init => IInv
<1> SUFFICES ASSUME Init PROVE IInv
  OBVIOUS
<1>1. NoCall \in [svc : 0..MaxServices, req : Request,
                  ctx0 : UserAgent \cup {NoUA}, ctx : UserAgent \cup {NoUA}]
  BY DEF NoCall, Request, AbsentHdr, OverwriteHdr, NoUA
<1>. QED
  BY <1>1 DEF Init, IInv, TypeOK, UAFaithful

LEMMA NextIInv == IInv /\ [Next]_vars => IInv'
<1> SUFFICES ASSUME IInv, [Next]_vars PROVE IInv'
  OBVIOUS
<1> USE DEF IInv, TypeOK
<1>1. ASSUME NEW h \in HdrNames, OverwriteHeader(h) \/ SetOverwriteHeader(h)
      PROVE  IInv'
  BY <1>1 DEF OverwriteHeader, SetOverwriteHeader, UAFaithful
<1>2. ASSUME NEW oh \in HdrNames \cup {None},
             Len(svcs) < MaxServices, svcs' = Append(svcs, oh),
             UNCHANGED << layerHdr, last >>
      PROVE  IInv'
  <2>1. \A i \in 1..Len(svcs) : svcs'[i] = svcs[i]
    BY <1>2
  <2>2. TypeOK'
    BY <1>2
  <2>3. (last # NoCall => last.svc \in 1..Len(svcs))'
    BY <1>2
  <2>4. UAFaithful'
    BY <1>2, <2>1 DEF UAFaithful
  <2>. QED
    BY <2>2, <2>3, <2>4
<1>3. CASE LayerService
  BY <1>3, <1>2 DEF LayerService
<1>4. ASSUME NEW oh \in HdrNames \cup {None}, ServiceNew(oh)
      PROVE  IInv'
  BY <1>4, <1>2 DEF ServiceNew
<1>5. CASE ServiceDefault
  BY <1>5, <1>2 DEF ServiceDefault
<1>6. ASSUME NEW i \in 1..Len(svcs), NEW req \in Request, NEW c0 \in OuterUAs,
             Serve(i, req, c0)
      PROVE  IInv'
  <2>1. svcs[i] \in HdrNames \cup {None} /\ c0 \in UserAgent \cup {NoUA}
    OBVIOUS
  <2>2. last' # NoCall
    BY <1>6 DEF Serve, NoCall
  <2>3. Classify(svcs[i], req, c0) \in UserAgent \cup {NoUA}
    BY <2>1, ClassifyType
  <2>4. Classify(svcs[i], req, c0) = Expected(svcs[i], req, c0)
    BY <2>1, ClassifyIsExpected
  <2>5. TypeOK'
    BY <1>6, <2>3 DEF Serve
  <2>6. (last # NoCall => last.svc \in 1..Len(svcs))'
    BY <1>6 DEF Serve
  <2>7. UAFaithful'
    BY <1>6, <2>2, <2>4 DEF Serve, UAFaithful
  <2>. QED
    BY <2>5, <2>6, <2>7
<1>7. CASE UNCHANGED vars
  BY <1>7 DEF vars, UAFaithful
<1>. QED
  BY <1>1, <1>3, <1>4, <1>5, <1>6, <1>7 DEF Next

(* Every reachable state is well typed, for every set of UA strings,     *)
(* header names and agents.                                               *)
THEOREM TypeCorrect == Spec => []TypeOK
<1>1. IInv => TypeOK
  BY DEF IInv
<1>. QED
  BY InitIInv, NextIInv, <1>1, PTL DEF Spec

(* Every serve, by any service built from any sequence of layer, setter   *)
(* and constructor calls, hands the inner service the UA the documented  *)
(* rules give for the overwrite header that service was built with.      *)
THEOREM FaithfulSafe == Spec => []UAFaithful
<1>1. IInv => UAFaithful
  BY DEF IInv
<1>. QED
  BY InitIInv, NextIInv, <1>1, PTL DEF Spec

=============================================================================
