----------------------------- MODULE CaseRunner -----------------------------
(***************************************************************************)
(* One k6 virtual-user iteration of the case-list scripts                  *)
(* (src/resources/test/k6/30.js and 33.js; 32.js and 58.js write the same *)
(* loop body out once per request): the positive group walks the          *)
(* list returned by makePositiveCases(), the negative group the list of    *)
(* makeNegativeCases(); for every case the loop builds the headers, calls  *)
(* doRequest(), parses the body with j() and records two k6 checks.        *)
(*                                                                         *)
(* The target service (API firewall in front of the stub) is the          *)
(* environment: it answers as a correct target, fails at the transport    *)
(* level (k6 then reports status 0), or, when ArbitraryTarget holds,       *)
(* answers anything.  k6's http_req_failed metric is kept as a counter.    *)
(*                                                                         *)
(* Data is abstracted to what the checks tell apart: a header map is a     *)
(* record of the schema id, whether Content-Type: application/json is set  *)
(* and whether the auxiliary identification (rl-* headers, session         *)
(* cookie) is set; a body is "none" (undefined: '' on the wire), "empty"   *)
(* ({}), "min" (the endpoint's minimal payload) or "bad" (a payload the    *)
(* schema rejects); a path or query is "ok", "bad" or "missing".           *)
(***************************************************************************)
EXTENDS Naturals, Sequences, FiniteSets

CONSTANTS
    Pos,              \* the list makePositiveCases() returns
    Neg,              \* the list makeNegativeCases() returns
    H,                \* header map H of the script
    H_JSON,           \* header map H_JSON of the script
    Sid,              \* the schema id the target serves for this script
    NeedAux,          \* the target also requires the auxiliary identification
    StubForms,        \* encodings of the stub body the target may emit
    ArbitraryTarget   \* the target may answer anything

Methods    == {"GET", "POST", "PATCH", "DELETE"}
BodyKinds  == {"none", "empty", "min", "bad"}
PartKinds  == {"ok", "bad", "missing"}
\* "stub" is the stub with the keys in the order of EXPECTED,
\* "stubReordered" the same JSON object with another key order.
RespBodies == {"stub", "stubReordered", "error", "garbage", "none"}
Statuses   == {0, 200, 400}
\* The optional headers field of a case: {} when the case has none, {h}
\* when it names the header map h.
Unset      == {}

Headers == [sid : STRING, ct : BOOLEAN, aux : BOOLEAN]

Cases ==
    [ep : STRING, m : Methods, hdr : SUBSET Headers,
     path : PartKinds, query : PartKinds, body : BodyKinds, want : BodyKinds]

ASSUME ConstantsAssumption ==
    /\ Sid \in STRING
    /\ H \in Headers /\ H_JSON \in Headers
    /\ Pos \in Seq(Cases) /\ Neg \in Seq(Cases)
    /\ NeedAux \in BOOLEAN
    /\ StubForms \subseteq {"stub", "stubReordered"} /\ StubForms # {}
    /\ ArbitraryTarget \in BOOLEAN

Requests ==
    [ep : STRING, m : Methods, sid : STRING, ct : BOOLEAN, aux : BOOLEAN,
     path : PartKinds, query : PartKinds, body : BodyKinds, want : BodyKinds]
Responses == [status : Statuses, body : RespBodies, faithful : BOOLEAN]
NoReq == [m |-> "none"]
NoRes == [status |-> 0, body |-> "none", faithful |-> FALSE]
NoCheck == [ph |-> "none"]

VARIABLES
    phase,          \* "pos" (positive group), "neg" (negative group), "done"
    idx,            \* loop index into the current group's list
    pc,             \* "send", "wait" (request on the wire), "recv"
    req,            \* the request in flight
    res,            \* the response k6 returned
    last,           \* the two checks recorded for the latest case
    httpReqFailed,  \* k6 metric http_req_failed: count of failed requests
    allFaithful     \* history: every response so far came from a correct target

vars == <<phase, idx, pc, req, res, last, httpReqFailed, allFaithful>>

CurList == IF phase = "pos" THEN Pos ELSE Neg

(***************************************************************************)
(* Header choice.  Positive loop: GET and DELETE get H, every other method *)
(* H_JSON.  Negative loop: n.headers ?? H.                                 *)
(***************************************************************************)
\* Mutant: the positive loop sends H whatever the method.
PosHeadersAlwaysH(c) == H

PosHeaders(c) == IF c.m \in {"GET", "DELETE"} THEN H ELSE H_JSON

NegHeaders(c) == IF c.hdr = Unset THEN H ELSE CHOOSE h \in c.hdr : TRUE

(***************************************************************************)
(* doRequest: GET sends no body, DELETE a null body, POST and PATCH        *)
(* JSON.stringify(body) when body is truthy ({} is) and '' otherwise.      *)
(***************************************************************************)
SentBody(c) == IF c.m \in {"POST", "PATCH"} THEN c.body ELSE "none"

Request(c, hdrs) ==
    [ep |-> c.ep, m |-> c.m, sid |-> hdrs.sid, ct |-> hdrs.ct, aux |-> hdrs.aux,
     path |-> c.path, query |-> c.query, body |-> SentBody(c), want |-> c.want]

CaseRequest(ph, c) ==
    IF ph = "pos" THEN Request(c, PosHeaders(c)) ELSE Request(c, NegHeaders(c))

(***************************************************************************)
(* A correct target accepts a request iff it names the served schema, has  *)
(* the auxiliary identification when required, matches a route with valid *)
(* path and query, carries exactly the body kind the operation's schema    *)
(* admits, and declares the JSON content type when it has a body.          *)
(***************************************************************************)
Accept(r) ==
    /\ r.sid = Sid
    /\ NeedAux => r.aux
    /\ r.path = "ok"
    /\ r.query = "ok"
    /\ r.body = r.want
    /\ r.body # "none" => r.ct

CorrectResponses(r) ==
    IF Accept(r)
    THEN {[status |-> 200, body |-> f, faithful |-> TRUE] : f \in StubForms}
    ELSE {[status |-> 400, body |-> "error", faithful |-> TRUE]}

(***************************************************************************)
(* j(r): r.json() inside try/catch, null on a parse failure.  eq(a, b):    *)
(* JSON.stringify(a) === JSON.stringify(b), so key order matters.          *)
(***************************************************************************)
J(b) == IF b \in {"stub", "stubReordered", "error"} THEN b ELSE "null"

Eq(a, b) == a = b

EXPECTED == "stub"

\* The two checks of one case: the positive group wants status 200 and the
\* stub, the negative group a status other than 200 and a body other than it.
CheckResults(ph, r) ==
    IF ph = "pos"
    THEN [status |-> r.status = 200, body |-> Eq(J(r.body), EXPECTED)]
    ELSE [status |-> r.status # 200, body |-> ~Eq(J(r.body), EXPECTED)]

\* k6 counts a response as failed when its status is outside 200..399.
ReqFailed(r) == r.status < 200 \/ r.status > 399

-----------------------------------------------------------------------------
Init ==
    /\ phase = "pos"
    /\ idx = 1
    /\ pc = "send"
    /\ req = NoReq
    /\ res = NoRes
    /\ last = NoCheck
    /\ httpReqFailed = 0
    /\ allFaithful = TRUE

\* Loop body up to the HTTP call: url, headers, doRequest().
Send ==
    /\ phase \in {"pos", "neg"}
    /\ pc = "send"
    /\ idx <= Len(CurList)
    /\ req' = CaseRequest(phase, CurList[idx])
    /\ pc' = "wait"
    /\ UNCHANGED <<phase, idx, res, last, httpReqFailed, allFaithful>>

\* The HTTP call returns: the target's answer, or a transport error that k6
\* reports as status 0 with no body; k6 updates http_req_failed.
Respond ==
    /\ pc = "wait"
    /\ \E r \in Responses :
          /\ \/ r \in CorrectResponses(req)
             \/ r = [status |-> 0, body |-> "none", faithful |-> FALSE]
             \/ ArbitraryTarget /\ ~r.faithful
          /\ res' = r
          /\ httpReqFailed' = IF ReqFailed(r) THEN httpReqFailed + 1
                                               ELSE httpReqFailed
          /\ allFaithful' = (allFaithful /\ r.faithful)
    /\ pc' = "recv"
    /\ UNCHANGED <<phase, idx, req, last>>

\* Mutant: j() without try/catch; r.json() throws on a body that is not JSON
\* and the exception ends the iteration, so no step follows.
CheckUncaught ==
    /\ res.body \in {"stub", "stubReordered", "error"}
    /\ pc = "recv"
    /\ last' = [ph |-> phase, i |-> idx, res |-> res,
                ok |-> CheckResults(phase, res)]
    /\ idx' = idx + 1
    /\ pc' = "send"
    /\ req' = NoReq
    /\ res' = NoRes
    /\ UNCHANGED <<phase, httpReqFailed, allFaithful>>

\* Loop body after the HTTP call: j(res), the two check() calls, next case.
Check ==
    /\ pc = "recv"
    /\ last' = [ph |-> phase, i |-> idx, res |-> res,
                ok |-> CheckResults(phase, res)]
    /\ idx' = idx + 1
    /\ pc' = "send"
    /\ req' = NoReq
    /\ res' = NoRes
    /\ UNCHANGED <<phase, httpReqFailed, allFaithful>>

\* Mutant: the loop index is not reset for the next group.
NextGroupNoReset ==
    /\ phase \in {"pos", "neg"}
    /\ pc = "send"
    /\ idx > Len(CurList)
    /\ phase' = IF phase = "pos" THEN "neg" ELSE "done"
    /\ UNCHANGED <<idx, pc, req, res, last, httpReqFailed, allFaithful>>

\* The for-loop of a group ends: the negative group starts after the
\* positive one, and the iteration ends after the negative one.
NextGroup ==
    /\ phase \in {"pos", "neg"}
    /\ pc = "send"
    /\ idx > Len(CurList)
    /\ phase' = IF phase = "pos" THEN "neg" ELSE "done"
    /\ idx' = 1
    /\ UNCHANGED <<pc, req, res, last, httpReqFailed, allFaithful>>

Next == Send \/ Respond \/ Check \/ NextGroup

\* k6 runs the iteration to its end and every request returns or times out.
Spec == Init /\ [][Next]_vars /\ WF_vars(Next)

-----------------------------------------------------------------------------
TypeOK ==
    /\ phase \in {"pos", "neg", "done"}
    /\ phase # "done" => idx \in 1..Len(CurList) + 1
    /\ pc \in {"send", "wait", "recv"}
    /\ req \in Requests \cup {NoReq}
    /\ res \in Responses
    /\ last \in [ph : {"pos", "neg"}, i : Nat \ {0}, res : Responses,
                 ok : [status : BOOLEAN, body : BOOLEAN]] \cup {NoCheck}
    /\ httpReqFailed \in Nat
    /\ allFaithful \in BOOLEAN

(***************************************************************************)
(* Against a correct target every check of the suite passes: whenever the  *)
(* latest case was answered as a correct target answers, both of its       *)
(* checks passed.  This ties the header choice of the loops, the body      *)
(* doRequest() sends, j()/eq() and the two check() calls to the case lists *)
(* (a negative case a correct target accepts, or a positive case it        *)
(* rejects, breaks it).                                                    *)
(***************************************************************************)
CorrectTargetAllPass ==
    last # NoCheck /\ last.res.faithful => last.ok.status /\ last.ok.body

(***************************************************************************)
(* One case's failure never stops the iteration (spec 4.5): every case of  *)
(* both groups is eventually checked, whatever the target answers.         *)
(***************************************************************************)
Termination == <>(phase = "done")

(***************************************************************************)
(* Spec 4.4: a negative case passes when the status is not 200 OR the      *)
(* body is not the stub (deep equality).  Checked against the code's two  *)
(* separate checks.                                                        *)
(***************************************************************************)
SpecNegPass(r) == r.status # 200 \/ r.body \notin {"stub", "stubReordered"}

NegVerdictPerSpec ==
    last # NoCheck /\ last.ph = "neg" /\ SpecNegPass(last.res)
        => last.ok.status /\ last.ok.body

(***************************************************************************)
(* The options.thresholds of the script (http_req_failed rate==0) hold at  *)
(* the end of an iteration against a correct target.                       *)
(***************************************************************************)
ThresholdMet == phase = "done" /\ allFaithful => httpReqFailed = 0

(***************************************************************************)
(* Spec 3 and 4.2 (single-fault isolation): a negative case changes one   *)
(* fault dimension and leaves everything else valid, so that a rejection  *)
(* can be attributed to it.  The request the negative loop sends breaks    *)
(* exactly one of the conditions under which a correct target accepts.     *)
(***************************************************************************)
Violated(r) ==
    [schema |-> r.sid # Sid, aux |-> NeedAux /\ ~r.aux,
     path |-> r.path # "ok", query |-> r.query # "ok",
     body |-> r.body # r.want, ct |-> r.body # "none" /\ ~r.ct]

Faults(r) == {d \in DOMAIN Violated(r) : Violated(r)[d]}

SingleFault == phase = "neg" /\ pc = "wait" => Cardinality(Faults(req)) = 1

=============================================================================
