-------------------------- MODULE HttpServerStackAbs --------------------------
(***************************************************************************)
(* What an HttpServer promises (spec sections 4.2 and 5): the builder     *)
(* calls made before serving fix a stack, the first call outermost, and   *)
(* each request is answered, in one step and independently of every      *)
(* other request, with one of the results of running it through that     *)
(* stack.  A timeout over a slow leaf may give either the leaf's answer  *)
(* or its error; a request whose leaf never answers and that no timeout  *)
(* bounds has no result and is never answered.                           *)
(***************************************************************************)
EXTENDS StackLayers

CONSTANTS Req, MaxLayers

VARIABLES aphase, acalls, areq, astage, aout

avars == << aphase, acalls, areq, astage, aout >>

(* Request rq, entering layer i, gets to the leaf and the leaf keeps it  *)
(* waiting: it answers late or never.                                    *)
RECURSIVE Waits(_, _, _)
Waits(ls, i, rq) ==
    IF i > Len(ls) THEN rq.leaf \in {"slow", "stall"}
    ELSE ~Stops(ls[i], rq) /\ Waits(ls, i + 1, Pre(ls[i], rq))

(* The results the layers ls, from the i-th one inwards, may give rq: a *)
(* timeout layer over a waiting leaf gives its error or, if the leaf is *)
(* only slow and beats the timer, what the leaf answered.               *)
RECURSIVE Outcomes(_, _, _)
Outcomes(ls, i, rq) ==
    IF i > Len(ls) THEN IF rq.leaf = "stall" THEN {} ELSE {LeafResult(rq)}
    ELSE IF Stops(ls[i], rq) THEN {StopResult(ls[i])}
    ELSE {Post(ls[i], rq, x) : x \in Outcomes(ls, i + 1, Pre(ls[i], rq))}
         \cup (IF ls[i].kind = "timeout" /\ Waits(ls, i + 1, Pre(ls[i], rq))
               THEN {ErrRes("timeout")} ELSE {})

AInit ==
    /\ aphase = "building"
    /\ acalls = << >>
    /\ areq = [r \in Req |-> NoReq]
    /\ astage = [r \in Req |-> "idle"]
    /\ aout = [r \in Req |-> NoRes]

ABuild ==
    /\ aphase = "building"
    /\ \E c \in Calls :
         /\ Len(LayersOf(Append(acalls, c))) <= MaxLayers
         /\ acalls' = Append(acalls, c)
    /\ UNCHANGED << aphase, areq, astage, aout >>

AServe ==
    /\ aphase = "building"
    /\ aphase' = "serving"
    /\ UNCHANGED << acalls, areq, astage, aout >>

AArrive(r) ==
    /\ aphase = "serving"
    /\ astage[r] = "idle"
    /\ \E rq \in ClientRequests : areq' = [areq EXCEPT ![r] = rq]
    /\ astage' = [astage EXCEPT ![r] = "busy"]
    /\ UNCHANGED << aphase, acalls, aout >>

ARespond(r) ==
    /\ astage[r] = "busy"
    /\ \E x \in Outcomes(LayersOf(acalls), 1, areq[r]) : aout' = [aout EXCEPT ![r] = x]
    /\ astage' = [astage EXCEPT ![r] = "done"]
    /\ UNCHANGED << aphase, acalls, areq >>

ANext ==
    \/ ABuild
    \/ AServe
    \/ \E r \in Req : AArrive(r) \/ ARespond(r)

ASpec == AInit /\ [][ANext]_avars

=============================================================================
