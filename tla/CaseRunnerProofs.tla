-------------------------- MODULE CaseRunnerProofs --------------------------
(***************************************************************************)
(* Proofs about CaseRunner for every pair of case lists and every header   *)
(* and target configuration that ConstantsAssumption admits.               *)
(***************************************************************************)
EXTENDS CaseRunner, TLAPS

(***************************************************************************)
(* TypeInv strengthens TypeOK with what holds while a request is out: the  *)
(* iteration is inside a group, the index points into its list and the     *)
(* request is the one the loop built for that case.                        *)
(***************************************************************************)
InFlight ==
    pc # "send" =>
        /\ phase \in {"pos", "neg"}
        /\ idx \in 1..Len(CurList)
        /\ req = CaseRequest(phase, CurList[idx])

TypeInv == TypeOK /\ InFlight

LEMMA CurListType ==
    ASSUME NEW ph, phase = ph
    PROVE  CurList \in Seq(Cases)
BY ConstantsAssumption DEF CurList

\* The request the loops build for a case is a well-formed request.
LEMMA CaseRequestType ==
    ASSUME NEW ph \in {"pos", "neg"}, NEW c \in Cases
    PROVE  CaseRequest(ph, c) \in Requests
<1>1. PosHeaders(c) \in Headers
    BY ConstantsAssumption DEF PosHeaders
<1>2. NegHeaders(c) \in Headers
    <2>1. CASE c.hdr = Unset
        BY <2>1, ConstantsAssumption DEF NegHeaders
    <2>2. CASE c.hdr # Unset
        <3>1. (CHOOSE h \in c.hdr : TRUE) \in c.hdr
            BY <2>2 DEF Unset
        <3>2. c.hdr \subseteq Headers
            BY DEF Cases
        <3>3. QED
            BY <2>2, <3>1, <3>2 DEF NegHeaders
    <2>3. QED
        BY <2>1, <2>2
<1>3. SentBody(c) \in BodyKinds
    BY DEF SentBody, Cases, BodyKinds
<1>4. ASSUME NEW hd \in Headers PROVE Request(c, hd) \in Requests
    BY <1>3 DEF Request, Requests, Headers, Cases
<1>5. QED
    BY <1>1, <1>2, <1>4 DEF CaseRequest

LEMMA InitTypeInv == Init => TypeInv
BY ConstantsAssumption DEF Init, TypeInv, TypeOK, InFlight, CurList, NoReq,
    NoRes, Requests, Responses, Statuses, RespBodies, NoCheck

LEMMA NextTypeInv == TypeInv /\ [Next]_vars => TypeInv'
<1> SUFFICES ASSUME TypeInv, [Next]_vars PROVE TypeInv'
    OBVIOUS
<1>0. CurList \in Seq(Cases)
    BY CurListType
<1>1. CASE Send
    <2>1. idx \in 1..Len(CurList) /\ phase \in {"pos", "neg"}
        BY <1>1 DEF Send, TypeInv, TypeOK
    <2>2. CurList[idx] \in Cases
        BY <1>0, <2>1
    <2>3. req' \in Requests
        BY <1>1, <2>1, <2>2, CaseRequestType DEF Send
    <2>4. CurList' = CurList
        BY <1>1 DEF Send, CurList
    <2>5. QED
        BY <1>1, <2>1, <2>3, <2>4 DEF Send, TypeInv, TypeOK, InFlight
<1>2. CASE Respond
    <2>1. res' \in Responses
        BY <1>2 DEF Respond
    <2>2. httpReqFailed' \in Nat /\ allFaithful' \in BOOLEAN
        BY <1>2 DEF Respond, TypeInv, TypeOK
    <2>3. CurList' = CurList
        BY <1>2 DEF Respond, CurList
    <2>4. QED
        BY <1>2, <2>1, <2>2, <2>3 DEF Respond, TypeInv, TypeOK, InFlight
<1>3. CASE Check
    <2>1. phase \in {"pos", "neg"} /\ idx \in 1..Len(CurList)
        BY <1>3 DEF Check, TypeInv, InFlight
    <2>2. CheckResults(phase, res) \in [status : BOOLEAN, body : BOOLEAN]
        BY DEF CheckResults, J, Eq, EXPECTED
    <2>3. res \in Responses
        BY DEF TypeInv, TypeOK
    <2>4. CurList' = CurList
        BY <1>3 DEF Check, CurList
    <2>5. last' \in [ph : {"pos", "neg"}, i : Nat \ {0}, res : Responses,
                      ok : [status : BOOLEAN, body : BOOLEAN]]
        BY <1>3, <2>1, <2>2, <2>3 DEF Check
    <2>6. res' \in Responses /\ req' = NoReq
        BY <1>3 DEF Check, NoRes, Responses, Statuses, RespBodies
    <2>7. phase' # "done" => idx' \in 1..Len(CurList') + 1
        BY <1>3, <2>1, <2>4 DEF Check
    <2>8. QED
        BY <1>3, <2>5, <2>6, <2>7 DEF Check, TypeInv, TypeOK, InFlight
<1>4. CASE NextGroup
    <2>1. Len(Pos) \in Nat /\ Len(Neg) \in Nat
        BY ConstantsAssumption
    <2>2. QED
        BY <1>4, <2>1 DEF NextGroup, TypeInv, TypeOK, InFlight, CurList
<1>5. CASE UNCHANGED vars
    BY <1>5 DEF vars, TypeInv, TypeOK, InFlight, CurList
<1>6. QED
    BY <1>1, <1>2, <1>3, <1>4, <1>5 DEF Next

(***************************************************************************)
(* Every state of an iteration is well typed; in particular the loop index *)
(* stays within the current list (plus the position past its end).         *)
(***************************************************************************)
THEOREM TypeCorrect == Spec => []TypeOK
<1>1. Spec => []TypeInv
    BY InitTypeInv, NextTypeInv, PTL DEF Spec
<1>2. QED
    BY <1>1, PTL DEF TypeInv

-----------------------------------------------------------------------------
(***************************************************************************)
(* The fixtures are sound when a correct target accepts the request the    *)
(* positive loop builds for every positive case and rejects the request    *)
(* the negative loop builds for every negative case.  (33.js's lists are   *)
(* not: see the run MC33_wrong_id.)                                        *)
(***************************************************************************)
FixturesSound ==
    /\ \A i \in 1..Len(Pos) : Accept(CaseRequest("pos", Pos[i]))
    /\ \A i \in 1..Len(Neg) : ~Accept(CaseRequest("neg", Neg[i]))

\* A response k6 holds while checking came from a correct target for the
\* request in flight, unless it is marked unfaithful.
FaithfulRes == pc = "recv" /\ res.faithful => res \in CorrectResponses(req)

CorrectInv == TypeInv /\ FaithfulRes /\ CorrectTargetAllPass

\* The two checks of a case pass on any correct answer to its request.
LEMMA ChecksPassOnCorrectAnswer ==
    ASSUME FixturesSound, StubForms = {"stub"},
           NEW ph \in {"pos", "neg"},
           NEW i \in 1..Len(IF ph = "pos" THEN Pos ELSE Neg),
           NEW r \in CorrectResponses(CaseRequest(ph, (IF ph = "pos" THEN Pos ELSE Neg)[i]))
    PROVE  CheckResults(ph, r).status /\ CheckResults(ph, r).body
<1>1. CASE ph = "pos"
    <2>1. Accept(CaseRequest(ph, Pos[i]))
        BY <1>1 DEF FixturesSound
    <2>2. r = [status |-> 200, body |-> "stub", faithful |-> TRUE]
        BY <1>1, <2>1 DEF CorrectResponses
    <2>3. QED
        BY <1>1, <2>2 DEF CheckResults, J, Eq, EXPECTED
<1>2. CASE ph = "neg"
    <2>1. ~Accept(CaseRequest(ph, Neg[i]))
        BY <1>2 DEF FixturesSound
    <2>2. r = [status |-> 400, body |-> "error", faithful |-> TRUE]
        BY <1>2, <2>1 DEF CorrectResponses
    <2>3. J(r.body) = "error"
        BY <2>2 DEF J
    <2>4. CheckResults(ph, r) = [status |-> r.status # 200,
                                 body |-> ~Eq(J(r.body), EXPECTED)]
        BY <1>2 DEF CheckResults
    <2>5. ~Eq(J(r.body), EXPECTED) /\ r.status # 200
        BY <2>2, <2>3 DEF Eq, EXPECTED
    <2>6. CheckResults(ph, r).status = (r.status # 200)
        BY <2>4
    <2>7. CheckResults(ph, r).body = ~Eq(J(r.body), EXPECTED)
        BY <2>4
    <2>8. QED
        BY <2>5, <2>6, <2>7, Zenon
<1>3. QED
    BY <1>1, <1>2

LEMMA InitCorrectInv == Init => CorrectInv
BY InitTypeInv DEF Init, CorrectInv, FaithfulRes, CorrectTargetAllPass

LEMMA NextCorrectInv ==
    ASSUME FixturesSound, StubForms = {"stub"}
    PROVE  CorrectInv /\ [Next]_vars => CorrectInv'
<1> SUFFICES ASSUME CorrectInv, [Next]_vars PROVE CorrectInv'
    OBVIOUS
<1>0. TypeInv'
    BY NextTypeInv DEF CorrectInv
<1>1. CASE Send
    BY <1>0, <1>1 DEF Send, CorrectInv, FaithfulRes, CorrectTargetAllPass
<1>2. CASE Respond
    <2>1. res'.faithful => res' \in CorrectResponses(req)
        BY <1>2 DEF Respond
    <2>2. QED
        BY <1>0, <1>2, <2>1 DEF Respond, CorrectInv, FaithfulRes, CorrectTargetAllPass
<1>3. CASE Check
    <2>1. phase \in {"pos", "neg"} /\ idx \in 1..Len(CurList)
          /\ req = CaseRequest(phase, CurList[idx])
        BY <1>3 DEF Check, CorrectInv, TypeInv, InFlight
    <2>2. res.faithful => res \in CorrectResponses(req)
        BY <1>3 DEF Check, CorrectInv, FaithfulRes
    <2>3. res.faithful => CheckResults(phase, res).status /\ CheckResults(phase, res).body
        BY <2>1, <2>2, ChecksPassOnCorrectAnswer DEF CurList
    <2>4. CorrectTargetAllPass'
        BY <1>3, <2>3 DEF Check, CorrectTargetAllPass, NoCheck
    <2>5. FaithfulRes'
        BY <1>3 DEF Check, FaithfulRes
    <2>6. QED
        BY <1>0, <2>4, <2>5 DEF CorrectInv
<1>4. CASE NextGroup
    BY <1>0, <1>4 DEF NextGroup, CorrectInv, FaithfulRes, CorrectTargetAllPass
<1>5. CASE UNCHANGED vars
    BY <1>0, <1>5 DEF vars, CorrectInv, FaithfulRes, CorrectTargetAllPass
<1>6. QED
    BY <1>1, <1>2, <1>3, <1>4, <1>5 DEF Next

(***************************************************************************)
(* For every pair of sound case lists and a target that emits the stub in  *)
(* the key order of EXPECTED, every check the loops record on a correct    *)
(* answer passes: the loops' header choice, doRequest()'s body, j(), eq()  *)
(* and the two check() calls never turn a correct answer into a failure.   *)
(***************************************************************************)
THEOREM CorrectTargetAllPassThm ==
    ASSUME FixturesSound, StubForms = {"stub"}
    PROVE  Spec => []CorrectTargetAllPass
<1>1. CorrectInv /\ [Next]_vars => CorrectInv'
    BY NextCorrectInv
<1>2. Spec => []CorrectInv
    BY <1>1, InitCorrectInv, PTL DEF Spec
<1>3. QED
    BY <1>2, PTL DEF CorrectInv

=============================================================================
