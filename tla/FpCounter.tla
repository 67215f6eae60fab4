------------------------------- MODULE FpCounter -------------------------------
(***************************************************************************)
(* The XHR number endpoints of src/rama-fp/src/service/endpoints.rs.  The *)
(* two GET endpoints answer ctx.state().counter.fetch_add(1, SeqCst) on   *)
(* one shared AtomicUsize; the two POST endpoints echo the number of the  *)
(* path, or 0 when it does not parse as a usize.  Every handler awaits    *)
(* get_request_info (and a POST also the Path extractor) before it        *)
(* answers, so handlers of concurrent requests interleave.                *)
(*                                                                         *)
(* usize is W bits wide: fetch_add wraps modulo 2^W.                       *)
(***************************************************************************)
EXTENDS Naturals, Sequences

CONSTANTS
    Req,      \* the requests of a run
    W,        \* the bit width of usize
    PathVals  \* numerals a POST path may carry; one of Mod or more is past
              \* usize::MAX and fails to parse, as a non-numeral does

Mod == 2 ^ W

(* usize has at least one bit, so it holds 0 and 1; path numerals are     *)
(* naturals.                                                               *)
ASSUME FpAssumption ==
    /\ W \in Nat \ {0}
    /\ Mod \in Nat \ {0, 1}
    /\ PathVals \subseteq Nat

(* The usize values.                                                       *)
USize == 0..(Mod - 1)

(* The four routes: GET or POST, of /api/fetch/number or /api/xml/number. *)
Endpoints == {"getFetch", "getXhr", "postFetch", "postXhr"}

GetEndpoints == {"getFetch", "getXhr"}

VARIABLES
    counter,  \* State::counter
    ep,       \* the endpoint each request was routed to, or "none"
    path,     \* the path segment a POST carries
    phase,    \* "idle", "info" (at the get_request_info await) or "done"
    num,      \* the "number" of the Json answer (a POST: the parsed path)
    issued    \* the values fetch_add returned, in order

vars == << counter, ep, path, phase, num, issued >>

(* Path::<APINumberParams>::from_request_parts: the segment as a usize,   *)
(* else the error arm's 0.  A numeral past usize::MAX does not parse.     *)
ParseNumber(p) == IF p \in USize THEN p ELSE 0

(* State::new: the counter starts at 0.                                    *)
Init ==
    /\ counter = 0
    /\ ep = [r \in Req |-> "none"]
    /\ path = [r \in Req |-> 0]
    /\ phase = [r \in Req |-> "idle"]
    /\ num = [r \in Req |-> 0]
    /\ issued = << >>

(* A GET handler's first part: get_http_info and into_parts, then the      *)
(* get_request_info await.                                                 *)
GetStart(r, e) ==
    /\ phase[r] = "idle"
    /\ e \in GetEndpoints
    /\ ep' = [ep EXCEPT ![r] = e]
    /\ phase' = [phase EXCEPT ![r] = "info"]
    /\ UNCHANGED << counter, path, num, issued >>

(* A POST handler's first part: get_http_info, into_parts and the Path    *)
(* extractor (its Err arm logs and gives 0), then the get_request_info    *)
(* await.                                                                  *)
PostStart(r, e, p) ==
    /\ phase[r] = "idle"
    /\ e \in Endpoints \ GetEndpoints
    /\ ep' = [ep EXCEPT ![r] = e]
    /\ path' = [path EXCEPT ![r] = p]
    /\ num' = [num EXCEPT ![r] = ParseNumber(p)]
    /\ phase' = [phase EXCEPT ![r] = "info"]
    /\ UNCHANGED << counter, issued >>

(* Mutant: the counter read with load and never incremented.              *)
FetchAddAsLoad(c) == c

(* AtomicUsize::fetch_add(1): the new value, wrapping at usize::MAX.      *)
FetchAdd(c) == (c + 1) % Mod

(* A GET handler after the await: the Json with "number" from fetch_add.   *)
GetAnswer(r) ==
    /\ phase[r] = "info"
    /\ ep[r] \in GetEndpoints
    /\ num' = [num EXCEPT ![r] = counter]
    /\ counter' = FetchAdd(counter)
    /\ issued' = Append(issued, counter)
    /\ phase' = [phase EXCEPT ![r] = "done"]
    /\ UNCHANGED << ep, path >>

(* A POST handler after the await: the Json with the parsed number.        *)
PostAnswer(r) ==
    /\ phase[r] = "info"
    /\ ep[r] \notin GetEndpoints
    /\ phase' = [phase EXCEPT ![r] = "done"]
    /\ UNCHANGED << counter, ep, path, num, issued >>

Next ==
    \E r \in Req :
        \/ \E e \in GetEndpoints : GetStart(r, e)
        \/ \E e \in Endpoints \ GetEndpoints, p \in PathVals : PostStart(r, e, p)
        \/ GetAnswer(r)
        \/ PostAnswer(r)

Spec == Init /\ [][Next]_vars

-----------------------------------------------------------------------------

(* The type invariant.                                                     *)
TypeOK ==
    /\ counter \in USize
    /\ ep \in [Req -> Endpoints \cup {"none"}]
    /\ path \in [Req -> PathVals \cup {0}]
    /\ phase \in [Req -> {"idle", "info", "done"}]
    /\ num \in [Req -> USize]
    /\ issued \in Seq(USize)

(* The GET requests answered so far.                                      *)
GetsDone == {r \in Req : phase[r] = "done" /\ ep[r] \in GetEndpoints}

(* However the GET handlers of both endpoints interleave across their     *)
(* awaits, and whatever POSTs run beside them: the numbers handed out, in *)
(* the order fetch_add ran, start at 0 and each is the one before plus 1  *)
(* modulo 2^W, and the counter holds the successor of the last one.  No   *)
(* number is skipped or given twice in a row, and POSTs never move the    *)
(* counter.                                                                *)
NumbersSequential ==
    /\ \A i \in 1..Len(issued) :
         issued[i] = IF i = 1 THEN 0 ELSE (issued[i - 1] + 1) % Mod
    /\ counter = IF issued = << >> THEN 0 ELSE (issued[Len(issued)] + 1) % Mod

(* Every answered GET got a number no other answered GET got, as long   *)
(* as at most 2^W GETs have been answered: the counter has not wrapped.   *)
AnswersDistinct ==
    Len(issued) <= Mod =>
        \A r1, r2 \in GetsDone : r1 # r2 => num[r1] # num[r2]

=============================================================================
