---------------------------- MODULE ScriptRunner ----------------------------
(***************************************************************************)
(* One k6 iteration of src/resources/test/specification/script.js: the     *)
(* default function runs its groups in order, each sending one or more     *)
(* requests, and after each request one check() call.  The check object   *)
(* has two entries, evaluated in order: "Is response status 200", then     *)
(* "Is response body status 200", which reads                              *)
(* r.json("summary.0.status_code") with no try/catch (the HEAD group has   *)
(* only the first).  With a selector, k6's Response.json() returns         *)
(* undefined for a body that is not JSON and throws when the body is null, *)
(* which is what a transport error leaves; k6 records the throwing entry   *)
(* as failed, the exception escapes check() and ends the iteration.       *)
(*                                                                         *)
(* options.thresholds asks for checks rate==1; the model counts the        *)
(* passed and failed checks.  The target is the environment: it answers    *)
(* as a correct target, fails at the transport level, or, when             *)
(* ArbitraryTarget holds, answers anything.                                *)
(***************************************************************************)
EXTENDS Naturals, Sequences, FiniteSets

CONSTANTS
    Reqs,             \* the requests of the script, in program order
    ArbitraryTarget   \* the target may answer anything

Methods == {"GET", "POST", "PUT", "PATCH", "DELETE", "OPTIONS", "TRACE", "HEAD"}

\* A request: its group, its method and whether its check has the body entry.
ReqRecs == [g : STRING, m : Methods, bodyCheck : BOOLEAN]

\* Response bodies: the stub, the firewall's JSON error, a body that is not
\* JSON, an empty body (HEAD), and null (a transport error).
Bodies == {"stub", "error", "garbage", "empty", "null"}

Responses == [status : {0, 200, 400}, body : Bodies, faithful : BOOLEAN]

ASSUME ReqsAssumption ==
    /\ Reqs \in Seq(ReqRecs)
    /\ ArbitraryTarget \in BOOLEAN

NoRes == [status |-> 0, body |-> "null", faithful |-> FALSE]

\* What a correct target answers: every request of the script is valid and
\* gets 200 with the stub (HEAD: with no body).
CorrectResponse(q) ==
    [status |-> 200, body |-> IF q.m = "HEAD" THEN "empty" ELSE "stub",
     faithful |-> TRUE]

\* What k6 reports on a transport error or a timeout.
TransportError == [status |-> 0, body |-> "null", faithful |-> FALSE]

\* r.json("summary.0.status_code") === 200 on a body that is not null: the
\* stub carries 200, the firewall's error body its own code, and a body that
\* is not JSON (or is empty) gives undefined.
BodyStatus200(b) == b = "stub"

VARIABLES
    i,            \* index of the current request in Reqs
    pc,           \* "send", "recv" within a request; "end"
    res,          \* the response of the current request
    nPass,        \* checks passed
    nFail,        \* checks failed
    aborted,      \* the iteration ended by an exception
    allFaithful   \* history: every answer so far was a correct one

vars == <<i, pc, res, nPass, nFail, aborted, allFaithful>>

-----------------------------------------------------------------------------
Init ==
    /\ i = 1
    /\ pc = IF Len(Reqs) = 0 THEN "end" ELSE "send"
    /\ res = NoRes
    /\ nPass = 0
    /\ nFail = 0
    /\ aborted = FALSE
    /\ allFaithful = TRUE

\* The group builds url and params and calls http.get/post/...: the call
\* returns the target's answer or a transport error.
Request ==
    /\ pc = "send"
    /\ \E r \in Responses :
          /\ \/ r = CorrectResponse(Reqs[i])
             \/ r = TransportError
             \/ /\ ArbitraryTarget
                /\ ~r.faithful
                /\ r.status \in {200, 400}
                /\ r.body # "null"
          /\ res' = r
          /\ allFaithful' = (allFaithful /\ r.faithful)
    /\ pc' = "recv"
    /\ UNCHANGED <<i, nPass, nFail, aborted>>

\* The outcomes of the entries of a check() on response r, in their order.
Entries(q, r) ==
    IF q.bodyCheck THEN <<r.status = 200, BodyStatus200(r.body)>>
                   ELSE <<r.status = 200>>

\* k6 adds one sample to the checks rate per evaluated entry.
Record(e) ==
    /\ nPass' = nPass + Cardinality({k \in 1..Len(e) : e[k]})
    /\ nFail' = nFail + Cardinality({k \in 1..Len(e) : ~e[k]})

\* Mutant: the selector is read before check() is called
\* (const sc = r.json(...); check(r, {...: () => sc === 200})), so the
\* exception leaves before any entry is recorded.
CheckThrowsBeforeCheck ==
    /\ pc = "recv"
    /\ Reqs[i].bodyCheck
    /\ res.body = "null"
    /\ aborted' = TRUE
    /\ pc' = "end"
    /\ UNCHANGED <<i, res, nPass, nFail, allFaithful>>

\* check() records the status entry, then the body entry throws on a null
\* body: k6 records the throwing entry as failed and rethrows, and the
\* exception leaves check(), the group and the default function.
CheckThrows ==
    /\ pc = "recv"
    /\ Reqs[i].bodyCheck
    /\ res.body = "null"
    /\ Record(<<res.status = 200, FALSE>>)
    /\ aborted' = TRUE
    /\ pc' = "end"
    /\ UNCHANGED <<i, res, allFaithful>>

\* Mutant: every request's check has the body entry, the HEAD group's too.
CheckAlwaysBody ==
    /\ pc = "recv"
    /\ ~(Reqs[i].bodyCheck /\ res.body = "null")
    /\ Record(Entries([Reqs[i] EXCEPT !.bodyCheck = TRUE], res))
    /\ i' = i + 1
    /\ pc' = IF i = Len(Reqs) THEN "end" ELSE "send"
    /\ res' = NoRes
    /\ UNCHANGED <<aborted, allFaithful>>

\* Mutant: the end of the script is detected one request late.
CheckPastEnd ==
    /\ pc = "recv"
    /\ ~(Reqs[i].bodyCheck /\ res.body = "null")
    /\ Record(Entries(Reqs[i], res))
    /\ i' = i + 1
    /\ pc' = IF i > Len(Reqs) THEN "end" ELSE "send"
    /\ res' = NoRes
    /\ UNCHANGED <<aborted, allFaithful>>

\* check() records its entries and the script goes on to the next request,
\* through sleep() and the next group; after the last one the function ends.
Check ==
    /\ pc = "recv"
    /\ ~(Reqs[i].bodyCheck /\ res.body = "null")
    /\ Record(Entries(Reqs[i], res))
    /\ i' = i + 1
    /\ pc' = IF i = Len(Reqs) THEN "end" ELSE "send"
    /\ res' = NoRes
    /\ UNCHANGED <<aborted, allFaithful>>

Next == Request \/ CheckThrows \/ Check

\* The iteration runs to its end and every request returns or times out.
Spec == Init /\ [][Next]_vars /\ WF_vars(Next)

-----------------------------------------------------------------------------
TypeOK ==
    /\ i \in 1..Len(Reqs) + 1
    /\ pc \in {"send", "recv", "end"}
    /\ pc \in {"send", "recv"} => i \in 1..Len(Reqs)
    /\ res \in Responses
    /\ nPass \in Nat /\ nFail \in Nat
    /\ aborted \in BOOLEAN
    /\ allFaithful \in BOOLEAN

(***************************************************************************)
(* The checks rate==1 threshold holds only for a complete iteration: when  *)
(* the iteration ends with no failed check, every request of the script    *)
(* was sent and checked.  The exception that cuts an iteration short must  *)
(* leave a failed sample behind: it does because r.json(selector) is read  *)
(* inside check(), which records the throwing entry as failed; read before *)
(* check(), it would abort the iteration with nothing recorded.            *)
(***************************************************************************)
ThresholdSound ==
    pc = "end" /\ nFail = 0 => ~aborted /\ i = Len(Reqs) + 1

(***************************************************************************)
(* Against a correct target the iteration meets checks rate==1: every      *)
(* entry of every check() passes, the status-only check of HEAD included.  *)
(***************************************************************************)
ChecksThresholdMet == pc = "end" /\ allFaithful => nFail = 0

(***************************************************************************)
(* Spec 4.5 and 7: a transport error fails its case and the run goes on;  *)
(* one case never aborts the scenario, so every request is checked.        *)
(***************************************************************************)
FailureIsolation == pc = "end" => i = Len(Reqs) + 1

=============================================================================
