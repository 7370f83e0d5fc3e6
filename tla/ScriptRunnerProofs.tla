------------------------- MODULE ScriptRunnerProofs -------------------------
(***************************************************************************)
(* Proofs about ScriptRunner for every list of requests ReqsAssumption     *)
(* admits and for both target configurations.                              *)
(***************************************************************************)
EXTENDS ScriptRunner, FiniteSetTheorems, TLAPS

\* The number of passed and of failed entries of a check() is a natural.
LEMMA CountNat ==
    ASSUME NEW e \in Seq(BOOLEAN)
    PROVE  /\ Cardinality({k \in 1..Len(e) : e[k]}) \in Nat
           /\ Cardinality({k \in 1..Len(e) : ~e[k]}) \in Nat
<1>1. IsFiniteSet(1..Len(e))
    BY FS_Interval
<1>2. IsFiniteSet({k \in 1..Len(e) : e[k]}) /\ IsFiniteSet({k \in 1..Len(e) : ~e[k]})
    BY <1>1, FS_Subset
<1>3. QED
    BY <1>2, FS_CardinalityType

\* The entries of a check() are Booleans.
LEMMA EntriesType ==
    ASSUME NEW q \in ReqRecs, NEW r \in Responses
    PROVE  Entries(q, r) \in Seq(BOOLEAN)
<1>1. (r.status = 200) \in BOOLEAN /\ BodyStatus200(r.body) \in BOOLEAN
    BY DEF BodyStatus200
<1>2. \A x, y \in BOOLEAN : <<x, y>> \in Seq(BOOLEAN) /\ <<x>> \in Seq(BOOLEAN)
    OBVIOUS
<1>3. QED
    BY <1>1, <1>2 DEF Entries

(***************************************************************************)
(* The inductive invariant.  Besides the types, it says that a null body   *)
(* only comes with status 0 (k6 leaves a null body only on a transport    *)
(* error), that an aborted iteration has ended with a failed check, and    *)
(* that an iteration that ended without an exception has gone past the    *)
(* last request.                                                           *)
(***************************************************************************)
IInv ==
    /\ TypeOK
    /\ res.body = "null" => res.status = 0
    /\ pc \in {"send", "recv"} => ~aborted
    /\ aborted => pc = "end" /\ nFail >= 1
    /\ pc = "end" /\ ~aborted => i = Len(Reqs) + 1

LEMMA InitIInv == Init => IInv
<1> SUFFICES ASSUME Init PROVE IInv
    OBVIOUS
<1>1. Len(Reqs) \in Nat
    BY ReqsAssumption
<1>2. res \in Responses /\ res.body = "null" /\ res.status = 0
    BY DEF Init, NoRes, Responses, Bodies
<1>3. pc \in {"send", "recv", "end"} /\ i \in 1..Len(Reqs) + 1
      /\ (pc \in {"send", "recv"} => i \in 1..Len(Reqs))
      /\ (pc = "end" => i = Len(Reqs) + 1)
    BY <1>1 DEF Init
<1>4. QED
    BY <1>2, <1>3 DEF Init, IInv, TypeOK

LEMMA NextIInv == IInv /\ [Next]_vars => IInv'
<1> SUFFICES ASSUME IInv, [Next]_vars PROVE IInv'
    OBVIOUS
<1>0. Reqs \in Seq(ReqRecs)
    BY ReqsAssumption
<1>1. CASE Request
    <2>1. PICK r \in Responses :
              /\ \/ r = CorrectResponse(Reqs[i])
                 \/ r = TransportError
                 \/ ArbitraryTarget /\ ~r.faithful /\ r.status \in {200, 400}
                                    /\ r.body # "null"
              /\ res' = r
              /\ allFaithful' = (allFaithful /\ r.faithful)
        BY <1>1 DEF Request
    <2>2. r.body = "null" => r.status = 0
        BY <2>1 DEF CorrectResponse, TransportError
    <2>3. pc = "send" /\ pc' = "recv" /\ i' = i /\ i \in 1..Len(Reqs) /\ ~aborted
        BY <1>1 DEF Request, IInv, TypeOK
    <2>4. allFaithful' \in BOOLEAN
        BY <2>1 DEF IInv, TypeOK
    <2>5. QED
        BY <1>1, <2>1, <2>2, <2>3, <2>4 DEF Request, IInv, TypeOK
<1>2. CASE CheckThrows
    <2> DEFINE e == <<res.status = 200, FALSE>>
               Failed == {k \in 1..Len(e) : ~e[k]}
               Passed == {k \in 1..Len(e) : e[k]}
    <2>1. 1..Len(e) = 1..2
        BY DEF e
    <2>2. IsFiniteSet(1..Len(e))
        <3>1. IsFiniteSet(1..2)
            <4>1. 1 \in Int /\ 2 \in Int
                OBVIOUS
            <4>2. QED
                BY <4>1, FS_Interval
        <3>2. QED
            BY <2>1, <3>1, Zenon
    <2>3. Failed # {}
        <3>1. 2 \in 1..Len(e)
            BY <2>1
        <3>2. ~e[2]
            BY DEF e, Zenon
        <3>3. QED
            BY <3>1, <3>2, Zenon DEF Failed
    <2>4. IsFiniteSet(Failed) /\ IsFiniteSet(Passed)
        BY <2>2, FS_Subset DEF Failed, Passed
    <2>5. Cardinality(Failed) \in Nat \ {0} /\ Cardinality(Passed) \in Nat
        BY <2>3, <2>4, FS_CardinalityType, FS_EmptySet
    <2>6. nFail' = nFail + Cardinality(Failed) /\ nPass' = nPass + Cardinality(Passed)
        BY <1>2 DEF CheckThrows, Record, e, Failed, Passed
    <2>7. nFail' \in Nat /\ nPass' \in Nat /\ nFail' >= 1
        <3>1. \A x \in Nat \ {0}, y \in Nat :
                 nFail + x \in Nat /\ nPass + y \in Nat /\ nFail + x >= 1
            BY DEF IInv, TypeOK
        <3>2. QED
            BY <2>5, <2>6, <3>1, Zenon
    <2>8. pc' = "end" /\ aborted' /\ UNCHANGED <<i, res, allFaithful>>
        BY <1>2 DEF CheckThrows
    <2>9. QED
        BY <2>7, <2>8 DEF IInv, TypeOK
<1>3. CASE Check
    <2>1. i \in 1..Len(Reqs) /\ ~aborted
        BY <1>3 DEF Check, IInv, TypeOK
    <2>2. Entries(Reqs[i], res) \in Seq(BOOLEAN)
        BY <1>0, <2>1, EntriesType DEF IInv, TypeOK
    <2> DEFINE E == Entries(Reqs[i], res)
    <2>3. /\ Cardinality({k \in 1..Len(E) : E[k]}) \in Nat
          /\ Cardinality({k \in 1..Len(E) : ~E[k]}) \in Nat
        BY <2>2, CountNat
    <2>4. /\ nPass' = nPass + Cardinality({k \in 1..Len(E) : E[k]})
          /\ nFail' = nFail + Cardinality({k \in 1..Len(E) : ~E[k]})
        BY <1>3 DEF Check, Record
    <2>5. nPass' \in Nat /\ nFail' \in Nat /\ nFail' >= nFail
        BY <2>3, <2>4 DEF IInv, TypeOK
    <2>6. i' = i + 1 /\ (pc' = "end" <=> i = Len(Reqs)) /\ pc' \in {"send", "end"}
        BY <1>3 DEF Check
    <2>7. res' = NoRes /\ aborted' = aborted /\ allFaithful' = allFaithful
        BY <1>3 DEF Check
    <2>8. Len(Reqs) \in Nat
        BY <1>0
    <2>9. res' \in Responses
        BY <2>7 DEF NoRes, Responses, Bodies
    <2>10. QED
        BY <2>1, <2>5, <2>6, <2>7, <2>8, <2>9 DEF IInv, TypeOK, NoRes
<1>4. CASE UNCHANGED vars
    BY <1>4 DEF vars, IInv, TypeOK
<1>5. QED
    BY <1>1, <1>2, <1>3, <1>4 DEF Next

(***************************************************************************)
(* Every reachable state of a script.js iteration is well typed.           *)
(***************************************************************************)
THEOREM ScriptTypeCorrect == Spec => []TypeOK
<1>1. Spec => []IInv
    BY InitIInv, NextIInv, PTL DEF Spec
<1>2. QED
    BY <1>1, PTL DEF IInv

(***************************************************************************)
(* For every script and every target, the checks rate==1 threshold of      *)
(* script.js is met only by an iteration that sent and checked every       *)
(* request: the status entry of a check() fails on a transport error       *)
(* before the body entry's r.json() throws and ends the iteration.         *)
(***************************************************************************)
THEOREM ThresholdSoundThm == Spec => []ThresholdSound
<1>1. IInv => ThresholdSound
    BY DEF IInv, ThresholdSound
<1>2. QED
    BY <1>1, InitIInv, NextIInv, PTL DEF Spec

-----------------------------------------------------------------------------
(***************************************************************************)
(* The checks of script.js fit its requests: only a request whose answer   *)
(* has a body gets the body entry, so the HEAD group's check has the      *)
(* status entry alone.                                                     *)
(***************************************************************************)
HeadChecksStatusOnly ==
    \A k \in 1..Len(Reqs) : Reqs[k].m = "HEAD" => ~Reqs[k].bodyCheck

\* Every entry of a check() passes on a correct answer to its request.
LEMMA CorrectAnswerPasses ==
    ASSUME NEW q \in ReqRecs, q.m = "HEAD" => ~q.bodyCheck
    PROVE  LET e == Entries(q, CorrectResponse(q))
           IN  {k \in 1..Len(e) : ~e[k]} = {}
<1> DEFINE r == CorrectResponse(q)
           e == Entries(q, r)
<1>1. r.status = 200
    BY DEF CorrectResponse, r
<1>2. \A k \in 1..Len(e) : e[k] = TRUE
    <2>1. CASE q.bodyCheck
        <3>1. r.body = "stub"
            BY <2>1 DEF CorrectResponse, r
        <3>2. e = <<r.status = 200, BodyStatus200(r.body)>>
            BY <2>1 DEF Entries, e
        <3>3. BodyStatus200(r.body)
            BY <3>1 DEF BodyStatus200
        <3>4. e = <<TRUE, TRUE>>
            BY <1>1, <3>2, <3>3, Zenon
        <3>5. Len(e) = 2
            BY <3>4
        <3>6. \A k \in 1..Len(e) : k = 1 \/ k = 2
            BY <3>5
        <3>7. e[1] = TRUE /\ e[2] = TRUE
            BY <3>4
        <3>8. QED
            BY <3>6, <3>7, Zenon
    <2>2. CASE ~q.bodyCheck
        <3>1. e = <<r.status = 200>>
            BY <2>2 DEF Entries, e
        <3>2. e = <<TRUE>>
            BY <1>1, <3>1, Zenon
        <3>3. Len(e) = 1
            BY <3>2
        <3>4. \A k \in 1..Len(e) : k = 1
            BY <3>3
        <3>5. e[1] = TRUE
            BY <3>2
        <3>6. QED
            BY <3>4, <3>5, Zenon
    <2>3. QED
        BY <2>1, <2>2
<1>3. QED
    BY <1>2, Zenon DEF e, r

(***************************************************************************)
(* While every answer was a correct one, no entry has failed and the       *)
(* answer being checked is the correct answer to the current request.      *)
(***************************************************************************)
FaithfulSoFar ==
    allFaithful => /\ nFail = 0
                   /\ pc = "recv" => res = CorrectResponse(Reqs[i])

ChecksInv == IInv /\ FaithfulSoFar

LEMMA InitChecksInv == Init => ChecksInv
BY InitIInv DEF Init, ChecksInv, FaithfulSoFar

LEMMA NextChecksInv ==
    ASSUME HeadChecksStatusOnly
    PROVE  ChecksInv /\ [Next]_vars => ChecksInv'
<1> SUFFICES ASSUME ChecksInv, [Next]_vars PROVE ChecksInv'
    OBVIOUS
<1>0. IInv'
    BY NextIInv DEF ChecksInv
<1>1. CASE Request
    <2>1. PICK r \in Responses :
              /\ \/ r = CorrectResponse(Reqs[i])
                 \/ r = TransportError
                 \/ ArbitraryTarget /\ ~r.faithful /\ r.status \in {200, 400}
                                    /\ r.body # "null"
              /\ res' = r
              /\ allFaithful' = (allFaithful /\ r.faithful)
        BY <1>1 DEF Request
    <2>2. r.faithful => r = CorrectResponse(Reqs[i])
        BY <2>1 DEF TransportError
    <2>3. UNCHANGED <<i, nFail>> /\ pc' = "recv"
        BY <1>1 DEF Request
    <2>4. QED
        BY <1>0, <2>1, <2>2, <2>3 DEF ChecksInv, FaithfulSoFar
\* A correct answer has a body, so the body entry never throws on it.
<1>2. CASE CheckThrows
    <2>1. res.body = "null" /\ pc = "recv" /\ allFaithful' = allFaithful
        BY <1>2 DEF CheckThrows
    <2>2. CorrectResponse(Reqs[i]).body # "null"
        BY DEF CorrectResponse
    <2>3. ~allFaithful'
        BY <2>1, <2>2 DEF ChecksInv, FaithfulSoFar
    <2>4. QED
        BY <1>0, <2>3 DEF ChecksInv, FaithfulSoFar
<1>3. CASE Check
    <2>1. i \in 1..Len(Reqs) /\ pc = "recv"
        BY <1>3 DEF Check, ChecksInv, IInv, TypeOK
    <2>2. Reqs[i] \in ReqRecs /\ (Reqs[i].m = "HEAD" => ~Reqs[i].bodyCheck)
        BY <2>1, ReqsAssumption DEF HeadChecksStatusOnly
    <2>3. allFaithful' = allFaithful /\ pc' # "recv"
        BY <1>3 DEF Check
    <2>4. CASE allFaithful
        <3> DEFINE E == Entries(Reqs[i], res)
        <3>1. res = CorrectResponse(Reqs[i]) /\ nFail = 0
            BY <2>1, <2>4 DEF ChecksInv, FaithfulSoFar
        <3>2. {k \in 1..Len(E) : ~E[k]} = {}
            BY <2>2, <3>1, CorrectAnswerPasses
        <3>3. nFail' = nFail + Cardinality({k \in 1..Len(E) : ~E[k]})
            BY <1>3 DEF Check, Record
        <3>4. Cardinality({k \in 1..Len(E) : ~E[k]}) = 0
            BY <3>2, FS_EmptySet, Zenon
        <3>5. nFail' = 0
            BY <3>1, <3>3, <3>4
        <3>6. QED
            BY <1>0, <2>3, <3>5 DEF ChecksInv, FaithfulSoFar
    <2>5. CASE ~allFaithful
        BY <1>0, <2>3, <2>5 DEF ChecksInv, FaithfulSoFar
    <2>6. QED
        BY <2>4, <2>5
<1>4. CASE UNCHANGED vars
    BY <1>0, <1>4 DEF vars, ChecksInv, FaithfulSoFar
<1>5. QED
    BY <1>1, <1>2, <1>3, <1>4 DEF Next

(***************************************************************************)
(* For every script whose HEAD requests are checked on their status only:  *)
(* an iteration answered by a correct target throughout ends with no       *)
(* failed check, so it meets checks rate==1.  The body entry's             *)
(* r.json() never throws on a correct answer, and HEAD's empty body never  *)
(* meets the body entry.                                                   *)
(***************************************************************************)
THEOREM ChecksThresholdMetThm ==
    ASSUME HeadChecksStatusOnly
    PROVE  Spec => []ChecksThresholdMet
<1>1. ChecksInv /\ [Next]_vars => ChecksInv'
    BY NextChecksInv
<1>2. ChecksInv => ChecksThresholdMet
    BY DEF ChecksInv, FaithfulSoFar, ChecksThresholdMet
<1>3. QED
    BY <1>1, <1>2, InitChecksInv, PTL DEF Spec

=============================================================================
