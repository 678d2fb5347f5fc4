------------------------- MODULE WorkspaceWriteProofs -------------------------
(***************************************************************************)
(* Proofs about WorkspaceWrite, for any processes, calls, contents, Tools  *)
(* and allowlists.  A step of the system changes one call, or those of one *)
(* process that dies; so the inductive invariant is a statement about each *)
(* call, CallInv, and every step is split into what it does to its call    *)
(* and the remark that it leaves the others alone.                         *)
(***************************************************************************)
EXTENDS WorkspaceWrite, TLAPS

Gone(c) == temp[c] = NoTemp \/ c \in stuck
Holds(c) == target # NoFile /\ target.by = c
Permitted(c) ==
  /\ request[c].fits /\ request[c].name \in Allowed
  /\ EffectOf[request[c].name] \notin DENIED_SIDE_EFFECTS
Admitted(r) ==
  /\ r.prepared = "same" /\ r.decision = "allowed" /\ r.status = "none"
  /\ ~ r.reached /\ ~ r.truncated

\* which Tool a call in flight is for, and what a call has not done yet
Place(c) ==
  /\ pc[c] = "new" => /\ stage[c] = "none" /\ temp[c] = NoTemp
                      /\ ~ record[c].reached /\ ~ Holds(c)
  /\ pc[c] = "other" => /\ stage[c] = "none" /\ temp[c] = NoTemp
                        /\ request[c].name # WriteTool
  /\ pc[c] \in {"staging"} \cup InLoop => request[c].name = WriteTool
  /\ stage[c] \in {"queued", "create", "write"}
       => pc[c] \in {"staging", "timed_out", "gone"}

\* the temporary file is complete when it is handed over
Staged(c) ==
  /\ pc[c] \in {"checking", "replacing"} => stage[c] = "staged"
  /\ pc[c] \in {"staging", "checking", "replacing"} /\ stage[c] = "staged"
       => temp[c] = Pieces[c]
  /\ pc[c] = "discarding" => stage[c] \in {"late", "denied"}
  /\ stage[c] = "write" => temp[c] \in Nat /\ temp[c] <= Pieces[c]

\* and it is gone when the call has failed or has succeeded
Cleared(c) ==
  /\ stage[c] \in {"queued", "create"} => temp[c] = NoTemp
  /\ stage[c] \in {"late", "denied"} /\ pc[c] # "discarding" => Gone(c)
  /\ pc[c] \in {"replaced", "answered"} => Gone(c)

Recorded(c) ==
  /\ pc[c] \in Active => Admitted(record[c])
  /\ pc[c] \in {"answered", "timed_out"} => Consistent(record[c])

Justified(c) ==
  \/ pc[c] \in Active \/ record[c].reached \/ stage[c] # "none"
  \/ temp[c] # NoTemp \/ Holds(c)
  => Permitted(c)

CallInv(c) == Place(c) /\ Staged(c) /\ Cleared(c) /\ Recorded(c) /\ Justified(c)

IInv == TypeOK /\ OutputIsWhole /\ \A c \in Calls : CallInv(c)

-----------------------------------------------------------------------------
(* The executor's decisions *)

\* _failure's result is a result, whatever record it completes.
LEMMA FailureType ==
  ASSUME NEW r \in Record, NEW code \in Codes
  PROVE  /\ Failure(r, code) \in Record
         /\ Failure(r, code).status = "failed" /\ Failure(r, code).answers = "same"
         /\ Failure(r, code).prepared = r.prepared /\ Failure(r, code).decision = r.decision
         /\ Failure(r, code).reached <=> r.reached
         /\ Failure(r, code).truncated <=> r.truncated
BY DEF Failure, Record, Identities

\* What the policy lets through is allowed by name and by side effect; whatever
\* else it or the policy port does ends in a consistent record.
LEMMA DecidedMeans ==
  ASSUME NEW name \in Registered, NEW verdict
  PROVE  LET r == Decided(name, verdict)
         IN  /\ r \in Record
             /\ IsAdmitted(r) => /\ Admitted(r) /\ name \in Allowed
                                 /\ EffectOf[name] \notin DENIED_SIDE_EFFECTS
             /\ ~ IsAdmitted(r) => Consistent(r) /\ ~ r.reached /\ r.status = "failed"
<1> DEFINE prepared == [NoRecord EXCEPT !.prepared = "same"]
           decided == [prepared EXCEPT !.decision = Evaluate(name)]
<1>1. Evaluate(name) \in Reasons
  BY DEF Evaluate, Reasons
<1>2. /\ prepared \in Record /\ prepared.prepared = "same" /\ prepared.decision = "none"
      /\ ~ prepared.reached /\ ~ prepared.truncated
  BY DEF NoRecord, Record, Identities
<1>3. /\ decided \in Record /\ decided.prepared = "same" /\ decided.decision = Evaluate(name)
      /\ decided.answers = "none" /\ decided.status = "none" /\ decided.code = "none"
      /\ ~ decided.reached /\ ~ decided.truncated
  BY <1>1 DEF NoRecord, Record, Identities
<1> HIDE DEF prepared, decided
<1>4. CASE verdict # "decides"
  <2>1. Decided(name, verdict) = Failure(prepared, "TOOL_ERROR")
    BY <1>4 DEF Decided, prepared
  <2>2. QED
    BY <2>1, <1>2, <1>3, FailureType DEF IsAdmitted, Consistent, Codes
<1>5. CASE verdict = "decides" /\ Evaluate(name) = "allowed"
  <2>1. Decided(name, verdict) = decided
    BY <1>5, <1>3 DEF Decided, prepared, decided
  <2>2. Admitted(decided)
    BY <1>5, <1>3 DEF Admitted
  <2>3. name \in Allowed /\ EffectOf[name] \notin DENIED_SIDE_EFFECTS
    BY <1>5 DEF Evaluate
  <2>4. QED
    BY <2>1, <2>2, <2>3, <1>3 DEF IsAdmitted, Admitted
<1>6. CASE verdict = "decides" /\ Evaluate(name) # "allowed"
  <2>1. Decided(name, verdict) = Failure(decided, "TOOL_PERMISSION_DENIED")
    BY <1>6, <1>3 DEF Decided, prepared, decided
  <2>2. QED
    BY <2>1, <1>2, <1>3, FailureType DEF IsAdmitted, Consistent, Codes
<1>7. QED
  BY <1>4, <1>5, <1>6

\* The same of everything _execute does before it awaits.
LEMMA AdmissionMeans ==
  ASSUME NEW q \in Request, NEW preparation, NEW verdict
  PROVE  LET r == Admission(q, preparation, verdict)
         IN  /\ r \in Record
             /\ IsAdmitted(r) => /\ Admitted(r) /\ q.fits /\ q.name \in Allowed
                                 /\ EffectOf[q.name] \notin DENIED_SIDE_EFFECTS
             /\ ~ IsAdmitted(r) => Consistent(r) /\ ~ r.reached /\ r.status = "failed"
<1>1. NoRecord \in Record /\ NoRecord.answers = "none" /\ NoRecord.prepared = "none"
      /\ NoRecord.reached = FALSE /\ NoRecord.truncated = FALSE
  BY DEF NoRecord, Record, Identities
<1>2. CASE q.name \in Registered /\ q.fits /\ preparation = "same"
  <2>1. Admission(q, preparation, verdict) = Decided(q.name, verdict)
    BY <1>2 DEF Admission
  <2>2. QED
    BY <2>1, <1>2, DecidedMeans
<1>3. CASE ~ (q.name \in Registered /\ q.fits /\ preparation = "same")
  <2>1. PICK code \in {"TOOL_NOT_FOUND", "TOOL_INVALID_INPUT"} :
          Admission(q, preparation, verdict) = Failure(NoRecord, code)
    BY <1>3 DEF Admission
  <2>2. code \in Codes
    BY DEF Codes
  <2>3. QED
    BY <2>1, <2>2, <1>1, FailureType DEF IsAdmitted, Consistent
<1>4. QED
  BY <1>2, <1>3

\* Whatever an admitted Tool answers, the record of it is consistent.
LEMMA ConcludedMeans ==
  ASSUME NEW r \in Record, Admitted(r), NEW answer \in ToolAnswers, NEW code \in Codes
  PROVE  LET t == Concluded(r, answer, code)
         IN  /\ t \in Record /\ Consistent(t) /\ t.reached
             /\ t.status = IF answer = "succeeded" THEN "succeeded" ELSE "failed"
<1> DEFINE reached == [r EXCEPT !.reached = TRUE]
<1>1. /\ reached \in Record /\ reached.prepared = "same" /\ reached.decision = "allowed"
      /\ reached.reached /\ ~ reached.truncated
  BY DEF Admitted, Record
<1> HIDE DEF reached
<1>3. CASE answer = "succeeded"
  <2>1. Concluded(r, answer, code)
          = [reached EXCEPT !.answers = "same", !.status = "succeeded"]
    BY <1>3 DEF Concluded, reached
  <2>2. QED
    BY <2>1, <1>1, <1>3 DEF Record, Consistent, Identities, Reasons
<1>4. CASE answer # "succeeded"
  <2>1. PICK any \in Codes : Concluded(r, answer, code) = Failure(reached, any)
    BY <1>4 DEF Concluded, ToolAnswers, Codes, reached
  <2>2. QED
    BY <2>1, <1>1, <1>4, FailureType DEF Consistent
<1>5. QED
  BY <1>3, <1>4

-----------------------------------------------------------------------------
(* One step, one call *)

\* a step leaves the call d alone; another call may take the output file over
Untouched(d) ==
  /\ pc'[d] = pc[d] /\ request'[d] = request[d] /\ record'[d] = record[d]
  /\ stage'[d] = stage[d] /\ temp'[d] = temp[d]
  /\ (d \in stuck') <=> (d \in stuck)
  /\ Holds(d)' => Holds(d)

\* What the invariant says of a call survives a step that does not touch the call.
LEMMA UntouchedKeeps ==
  ASSUME NEW d \in Calls, CallInv(d), Untouched(d)
  PROVE  CallInv(d)'
<1>1. Gone(d)' <=> Gone(d)
  BY DEF Untouched, Gone
<1>2. Place(d)' /\ Staged(d)' /\ Cleared(d)'
  BY <1>1 DEF CallInv, Untouched, Place, Staged, Cleared
<1>3. Recorded(d)'
  BY DEF CallInv, Untouched, Recorded, Admitted, Consistent
<1>4. Justified(d)'
  BY DEF CallInv, Untouched, Justified, Permitted
<1>5. QED
  BY <1>2, <1>3, <1>4 DEF CallInv

\* What a step has to show.
LEMMA OneCall ==
  ASSUME IInv, NEW c \in Calls, TypeOK', OutputIsWhole', CallInv(c)',
         \A d \in Calls \ {c} : Untouched(d)
  PROVE  IInv'
<1>1. ASSUME NEW d \in Calls PROVE CallInv(d)'
  <2>1. CASE d = c
    BY <2>1
  <2>2. CASE d # c
    BY <2>2, UntouchedKeeps DEF IInv
  <2>3. QED
    BY <2>1, <2>2
<1>2. QED
  BY <1>1 DEF IInv

\* The invariant holds before the first call.
LEMMA InitHolds == Init => IInv
<1> SUFFICES ASSUME Init PROVE IInv
  OBVIOUS
<1> USE DEF Init
<1>1. NoRecord \in Record /\ ~ NoRecord.reached
  BY DEF NoRecord, Record, Identities
<1>2. TypeOK
  <2>1. WriteTool \in ToolNames
    BY CallsAssumption, RegistryAssumption
  <2>2. QED
    BY <1>1, <2>1 DEF TypeOK, Request, NoTemp
<1>3. ASSUME NEW c \in Calls PROVE CallInv(c)
  BY <1>1 DEF CallInv, Place, Staged, Cleared, Recorded, Justified, Holds, Gone,
              InLoop, Active
<1>4. QED
  BY <1>2, <1>3 DEF IInv, OutputIsWhole

\* A call that begins, whether it is admitted or answered at once, keeps the invariant.
LEMMA StartStep ==
  ASSUME IInv, NEW c \in Calls, Start(c)
  PROVE  IInv' /\ \A d \in Calls \ {c} : Untouched(d)
<1>1. PICK a \in Asks[c] :
        LET admission == Admission(a.request, a.preparation, a.verdict)
            writes == IsAdmitted(admission) /\ a.request.name = WriteTool
        IN  /\ request' = [request EXCEPT ![c] = a.request]
            /\ record' = [record EXCEPT ![c] = admission]
            /\ pc' = [pc EXCEPT ![c] = IF ~ IsAdmitted(admission) THEN "answered"
                                       ELSE IF writes THEN "staging" ELSE "other"]
            /\ stage' = IF writes THEN [stage EXCEPT ![c] = "queued"] ELSE stage
  BY DEF Start, Goto
<1> DEFINE admission == Admission(a.request, a.preparation, a.verdict)
<1>2. a.request \in Request
  BY CallsAssumption DEF Ask
<1>3. /\ admission \in Record
      /\ IsAdmitted(admission) => /\ Admitted(admission) /\ a.request.fits
                                  /\ a.request.name \in Allowed
                                  /\ EffectOf[a.request.name] \notin DENIED_SIDE_EFFECTS
      /\ ~ IsAdmitted(admission) => Consistent(admission) /\ ~ admission.reached
  BY <1>2, AdmissionMeans
<1> HIDE DEF admission
<1>4. /\ pc[c] = "new" /\ UNCHANGED <<elapsed, temp, stuck, target>>
      /\ request' = [request EXCEPT ![c] = a.request]
      /\ record' = [record EXCEPT ![c] = admission]
      /\ \/ /\ ~ IsAdmitted(admission)
            /\ pc' = [pc EXCEPT ![c] = "answered"] /\ stage' = stage
         \/ /\ IsAdmitted(admission) /\ a.request.name = WriteTool
            /\ pc' = [pc EXCEPT ![c] = "staging"] /\ stage' = [stage EXCEPT ![c] = "queued"]
         \/ /\ IsAdmitted(admission) /\ a.request.name # WriteTool
            /\ pc' = [pc EXCEPT ![c] = "other"] /\ stage' = stage
  BY <1>1 DEF Start, admission
<1>5. TypeOK'
  BY <1>2, <1>3, <1>4 DEF IInv, TypeOK, Active, Ended, InLoop, Working
<1>6. /\ request'[c] = a.request /\ record'[c] = admission /\ temp'[c] = NoTemp
      /\ ~ Holds(c)' /\ stage[c] = "none"
  BY <1>4 DEF IInv, TypeOK, CallInv, Place, Holds
<1>7. CallInv(c)'
  <2>1. CASE ~ IsAdmitted(admission)
    <3>1. pc'[c] = "answered" /\ stage'[c] = "none"
      BY <1>4, <1>6, <2>1 DEF IInv, TypeOK
    <3>2. QED
      BY <3>1, <1>3, <1>6, <2>1
        DEF CallInv, Place, Staged, Cleared, Recorded, Justified, Gone, InLoop, Active
  <2>2. CASE IsAdmitted(admission) /\ a.request.name = WriteTool
    <3>1. pc'[c] = "staging" /\ stage'[c] = "queued"
      BY <1>4, <2>2 DEF IInv, TypeOK
    <3>2. QED
      BY <3>1, <1>3, <1>6, <2>2
        DEF CallInv, Place, Staged, Cleared, Recorded, Justified, Permitted, Gone, InLoop,
            Active
  <2>3. CASE IsAdmitted(admission) /\ a.request.name # WriteTool
    <3>1. pc'[c] = "other" /\ stage'[c] = "none"
      BY <1>4, <1>6, <2>3 DEF IInv, TypeOK
    <3>2. QED
      BY <3>1, <1>3, <1>6, <2>3
        DEF CallInv, Place, Staged, Cleared, Recorded, Justified, Permitted, Gone, InLoop,
            Active
  <2>4. QED
    BY <2>1, <2>2, <2>3
<1>8. ASSUME NEW d \in Calls \ {c} PROVE Untouched(d)
  BY <1>4 DEF IInv, TypeOK, Untouched, Holds
<1>9. OutputIsWhole'
  BY <1>4 DEF IInv, OutputIsWhole
<1>10. QED
  BY <1>5, <1>7, <1>8, <1>9, OneCall

\* The passing of a call's deadline changes nothing the invariant speaks of.
LEMMA ElapseStep ==
  ASSUME IInv, NEW c \in Calls, Elapse(c)
  PROVE  IInv' /\ \A d \in Calls \ {c} : Untouched(d)
<1>1. /\ UNCHANGED <<pc, request, record, stage, temp, stuck, target>>
      /\ elapsed[c] < 2 /\ elapsed' = [elapsed EXCEPT ![c] = @ + 1]
  BY DEF Elapse
<1>2. TypeOK'
  BY <1>1 DEF IInv, TypeOK
<1>3. ASSUME NEW d \in Calls PROVE Untouched(d)
  BY <1>1 DEF Untouched, Holds
<1>4. CallInv(c)' /\ OutputIsWhole'
  BY <1>1, <1>3, UntouchedKeeps DEF IInv, OutputIsWhole
<1>5. QED
  BY <1>2, <1>3, <1>4, OneCall

\* Concluding an admitted call leaves a consistent record of it.
LEMMA ConcludeRecords ==
  ASSUME IInv, NEW c \in Calls, pc[c] \in Active, NEW answer \in ToolAnswers,
         NEW code \in Codes \cup {"none"}, answer = "failed" => code \in Codes,
         Conclude(c, answer, code)
  PROVE  /\ record' \in [Calls -> Record] /\ Consistent(record'[c])
         /\ record'[c].status = IF answer = "succeeded" THEN "succeeded" ELSE "failed"
         /\ \A d \in Calls \ {c} : record'[d] = record[d]
<1>1. record[c] \in Record /\ Admitted(record[c])
  BY DEF IInv, TypeOK, CallInv, Recorded
<1>2. PICK any \in Codes :
        Concluded(record[c], answer, code) = Concluded(record[c], answer, any)
  <2>1. CASE answer = "failed"
    BY <2>1
  <2>2. CASE answer # "failed"
    <3>1. Concluded(record[c], answer, code) = Concluded(record[c], answer, "TOOL_ERROR")
      BY <2>2 DEF Concluded
    <3>2. QED
      BY <3>1 DEF Codes
  <2>3. QED
    BY <2>1, <2>2
<1> DEFINE t == Concluded(record[c], answer, any)
<1>3. /\ t \in Record /\ Consistent(t)
      /\ t.status = IF answer = "succeeded" THEN "succeeded" ELSE "failed"
  BY <1>1, ConcludedMeans
<1>4. record' = [record EXCEPT ![c] = t]
  BY <1>2 DEF Conclude
<1> HIDE DEF t
<1>5. record'[c] = t
  BY <1>4 DEF IInv, TypeOK
<1>6. QED
  BY <1>3, <1>4, <1>5 DEF IInv, TypeOK

\* The answer of a Tool other than workspace.write keeps the invariant.
LEMMA OtherAnswersStep ==
  ASSUME IInv, NEW c \in Calls, OtherAnswers(c)
  PROVE  IInv' /\ \A d \in Calls \ {c} : Untouched(d)
<1>1. /\ pc[c] = "other" /\ pc' = [pc EXCEPT ![c] = "answered"]
      /\ UNCHANGED <<request, elapsed, stage, temp, stuck, target>>
      /\ \E answer \in ToolAnswers : Conclude(c, answer, "TOOL_ERROR")
  BY DEF OtherAnswers, Goto
<1>2. /\ record' \in [Calls -> Record] /\ Consistent(record'[c])
      /\ \A d \in Calls \ {c} : record'[d] = record[d]
  BY <1>1, ConcludeRecords DEF Active, Codes
<1>3. TypeOK'
  BY <1>1, <1>2 DEF IInv, TypeOK, Active, Ended
<1>4. CallInv(c)'
  <2>1. /\ pc'[c] = "answered" /\ stage'[c] = "none" /\ temp'[c] = NoTemp
        /\ request'[c] = request[c] /\ Permitted(c)
    BY <1>1 DEF IInv, TypeOK, CallInv, Place, Justified, Active
  <2>2. QED
    BY <1>2, <2>1
      DEF CallInv, Place, Staged, Cleared, Recorded, Justified, Permitted, Gone, InLoop,
          Active
<1>5. ASSUME NEW d \in Calls \ {c} PROVE Untouched(d)
  BY <1>1, <1>2 DEF IInv, TypeOK, Untouched, Holds
<1>6. OutputIsWhole'
  BY <1>1 DEF IInv, OutputIsWhole
<1>7. QED
  BY <1>3, <1>4, <1>5, <1>6, OneCall

\* So does the coroutine that takes up its worker's result.
LEMMA ResumeStep ==
  ASSUME IInv, NEW c \in Calls, Resume(c)
  PROVE  IInv' /\ \A d \in Calls \ {c} : Untouched(d)
<1>1. /\ pc[c] = "staging" /\ UNCHANGED <<request, elapsed, stage, temp, stuck, target>>
      /\ \/ /\ stage[c] = "staged" /\ pc' = [pc EXCEPT ![c] = "checking"]
            /\ record' = record
         \/ /\ stage[c] \in {"late", "denied"} /\ pc' = [pc EXCEPT ![c] = "answered"]
            /\ Conclude(c, "failed", Faults[stage[c]])
  BY DEF Resume, Goto, Faults
<1>2. Permitted(c)
  BY <1>1 DEF IInv, CallInv, Justified, Active
<1>3. CASE stage[c] = "staged" /\ pc' = [pc EXCEPT ![c] = "checking"] /\ record' = record
  <2>1. TypeOK'
    BY <1>1, <1>3 DEF IInv, TypeOK, Active, InLoop
  <2>2. CallInv(c)'
    <3>1. /\ pc'[c] = "checking" /\ stage'[c] = "staged" /\ temp'[c] = temp[c]
          /\ request'[c] = request[c] /\ record'[c] = record[c]
      BY <1>1, <1>3 DEF IInv, TypeOK
    <3>2. QED
      BY <3>1, <1>1, <1>2
        DEF IInv, CallInv, Place, Staged, Cleared, Recorded, Justified, Permitted, Gone,
            InLoop, Active, Admitted
  <2>3. ASSUME NEW d \in Calls \ {c} PROVE Untouched(d)
    BY <1>1, <1>3 DEF IInv, TypeOK, Untouched, Holds
  <2>4. OutputIsWhole'
    BY <1>1 DEF IInv, OutputIsWhole
  <2>5. QED
    BY <2>1, <2>2, <2>3, <2>4, OneCall
<1>4. CASE /\ stage[c] \in {"late", "denied"} /\ pc' = [pc EXCEPT ![c] = "answered"]
           /\ Conclude(c, "failed", Faults[stage[c]])
  <2>1. Faults[stage[c]] \in Codes
    BY <1>4 DEF Faults, Codes
  <2>2. /\ record' \in [Calls -> Record] /\ Consistent(record'[c])
        /\ \A d \in Calls \ {c} : record'[d] = record[d]
    BY <1>1, <1>4, <2>1, ConcludeRecords DEF Active, ToolAnswers
  <2>3. TypeOK'
    BY <1>1, <1>4, <2>2 DEF IInv, TypeOK, Active, Ended
  <2>4. CallInv(c)'
    <3>1. /\ pc'[c] = "answered" /\ stage'[c] = stage[c] /\ temp'[c] = temp[c]
          /\ request'[c] = request[c] /\ Gone(c)'
      BY <1>1, <1>4 DEF IInv, TypeOK, CallInv, Cleared, Gone
    <3>2. QED
      BY <3>1, <1>4, <1>2, <2>2
        DEF CallInv, Place, Staged, Cleared, Recorded, Justified, Permitted, InLoop, Active
  <2>5. ASSUME NEW d \in Calls \ {c} PROVE Untouched(d)
    BY <1>1, <1>4, <2>2 DEF IInv, TypeOK, Untouched, Holds
  <2>6. OutputIsWhole'
    BY <1>1 DEF IInv, OutputIsWhole
  <2>7. QED
    BY <2>3, <2>4, <2>5, <2>6, OneCall
<1>5. QED
  BY <1>1, <1>3, <1>4

\* So does the last look at the destination and the clock before the commit.
LEMMA CheckCommitStep ==
  ASSUME IInv, NEW c \in Calls, CheckCommit(c)
  PROVE  IInv' /\ \A d \in Calls \ {c} : Untouched(d)
<1>1. /\ pc[c] = "checking" /\ UNCHANGED <<request, record, elapsed, temp, stuck, target>>
      /\ \E found \in {"denied", "late", "staged"} :
           /\ stage' = [stage EXCEPT ![c] = found]
           /\ pc' = [pc EXCEPT ![c] = IF found = "staged" THEN "replacing" ELSE "discarding"]
  BY DEF CheckCommit, Checked, Goto
<1>2. TypeOK'
  BY <1>1 DEF IInv, TypeOK, Active, InLoop, Faults
<1>3. CallInv(c)'
  <2>1. /\ \/ stage'[c] = "staged" /\ pc'[c] = "replacing"
           \/ stage'[c] \in {"late", "denied"} /\ pc'[c] = "discarding"
        /\ temp'[c] = temp[c] /\ request'[c] = request[c] /\ record'[c] = record[c]
        /\ Permitted(c) /\ temp[c] = Pieces[c]
    BY <1>1 DEF IInv, TypeOK, CallInv, Staged, Justified, Active, InLoop
  <2>2. QED
    BY <2>1, <1>1
      DEF IInv, CallInv, Place, Staged, Cleared, Recorded, Justified, Permitted, Gone,
          InLoop, Active, Admitted
<1>4. ASSUME NEW d \in Calls \ {c} PROVE Untouched(d)
  BY <1>1 DEF IInv, TypeOK, Untouched, Holds
<1>5. OutputIsWhole'
  BY <1>1 DEF IInv, OutputIsWhole
<1>6. QED
  BY <1>2, <1>3, <1>4, <1>5, OneCall

\* The replacement: what is moved to the output file is complete.
LEMMA ReplaceStep ==
  ASSUME IInv, NEW c \in Calls, Replace(c)
  PROVE  IInv' /\ \A d \in Calls \ {c} : Untouched(d)
<1>1. /\ pc[c] = "replacing" /\ UNCHANGED <<request, record, elapsed, stuck>>
      /\ \/ /\ target' = [by |-> c, pieces |-> temp[c]]
            /\ temp' = [temp EXCEPT ![c] = NoTemp] /\ pc' = [pc EXCEPT ![c] = "replaced"]
            /\ stage' = stage
         \/ /\ stage' = [stage EXCEPT ![c] = "denied"] /\ pc' = [pc EXCEPT ![c] = "discarding"]
            /\ temp' = temp /\ target' = target
  BY DEF Replace, Goto
<1>2. Permitted(c) /\ temp[c] = Pieces[c] /\ Pieces[c] \in Nat /\ stage[c] = "staged"
  BY <1>1, CallsAssumption DEF IInv, CallInv, Staged, Justified, Active, InLoop
<1>3. CASE /\ target' = [by |-> c, pieces |-> temp[c]]
           /\ temp' = [temp EXCEPT ![c] = NoTemp] /\ pc' = [pc EXCEPT ![c] = "replaced"]
           /\ stage' = stage
  <2>1. TypeOK'
    BY <1>1, <1>2, <1>3 DEF IInv, TypeOK, Active, InLoop
  <2>2. CallInv(c)'
    <3>1. /\ pc'[c] = "replaced" /\ stage'[c] = "staged" /\ temp'[c] = NoTemp
          /\ request'[c] = request[c] /\ record'[c] = record[c]
      BY <1>1, <1>2, <1>3 DEF IInv, TypeOK
    <3>2. QED
      BY <3>1, <1>1, <1>2
        DEF IInv, CallInv, Place, Staged, Cleared, Recorded, Justified, Permitted, Gone,
            InLoop, Active, Admitted
  <2>3. ASSUME NEW d \in Calls \ {c} PROVE Untouched(d)
    BY <1>1, <1>3 DEF IInv, TypeOK, Untouched, Holds
  <2>4. OutputIsWhole'
    BY <1>2, <1>3 DEF OutputIsWhole
  <2>5. QED
    BY <2>1, <2>2, <2>3, <2>4, OneCall
<1>4. CASE /\ stage' = [stage EXCEPT ![c] = "denied"] /\ pc' = [pc EXCEPT ![c] = "discarding"]
           /\ temp' = temp /\ target' = target
  <2>1. TypeOK'
    BY <1>1, <1>4 DEF IInv, TypeOK, Active, InLoop, Faults
  <2>2. CallInv(c)'
    <3>1. /\ pc'[c] = "discarding" /\ stage'[c] = "denied" /\ temp'[c] = temp[c]
          /\ request'[c] = request[c] /\ record'[c] = record[c]
      BY <1>1, <1>4 DEF IInv, TypeOK
    <3>2. QED
      BY <3>1, <1>1, <1>2
        DEF IInv, CallInv, Place, Staged, Cleared, Recorded, Justified, Permitted, Gone,
            InLoop, Active, Admitted
  <2>3. ASSUME NEW d \in Calls \ {c} PROVE Untouched(d)
    BY <1>1, <1>4 DEF IInv, TypeOK, Untouched, Holds
  <2>4. OutputIsWhole'
    BY <1>4 DEF IInv, OutputIsWhole
  <2>5. QED
    BY <2>1, <2>2, <2>3, <2>4, OneCall
<1>5. QED
  BY <1>1, <1>3, <1>4

\* A success is recorded only of a call whose file has been replaced.
LEMMA SucceedStep ==
  ASSUME IInv, NEW c \in Calls, Succeed(c)
  PROVE  IInv' /\ \A d \in Calls \ {c} : Untouched(d)
<1>1. /\ pc[c] = "replaced" /\ pc' = [pc EXCEPT ![c] = "answered"]
      /\ UNCHANGED <<request, elapsed, stage, temp, stuck, target>>
      /\ Conclude(c, "succeeded", "none")
  BY DEF Succeed, Goto
<1>2. /\ record' \in [Calls -> Record] /\ Consistent(record'[c])
      /\ \A d \in Calls \ {c} : record'[d] = record[d]
  BY <1>1, ConcludeRecords DEF Active, InLoop, ToolAnswers
<1>3. TypeOK'
  BY <1>1, <1>2 DEF IInv, TypeOK, Active, Ended
<1>4. CallInv(c)'
  <2>1. /\ pc'[c] = "answered" /\ stage'[c] = stage[c] /\ temp'[c] = temp[c]
        /\ request'[c] = request[c] /\ Permitted(c) /\ Gone(c)'
    BY <1>1 DEF IInv, TypeOK, CallInv, Cleared, Gone, Justified, Active, InLoop
  <2>2. QED
    BY <1>1, <1>2, <2>1
      DEF IInv, CallInv, Place, Staged, Cleared, Recorded, Justified, Permitted, InLoop,
          Active
<1>5. ASSUME NEW d \in Calls \ {c} PROVE Untouched(d)
  BY <1>1, <1>2 DEF IInv, TypeOK, Untouched, Holds
<1>6. OutputIsWhole'
  BY <1>1 DEF IInv, OutputIsWhole
<1>7. QED
  BY <1>3, <1>4, <1>5, <1>6, OneCall

\* After an attempt to unlink, the temporary file is gone or known to be stuck.
LEMMA UnlinkClears ==
  ASSUME IInv, NEW c \in Calls, Unlink(c)
  PROVE  /\ Gone(c)' /\ temp' \in [Calls -> Nat \cup {NoTemp}] /\ stuck' \subseteq Calls
         /\ temp'[c] \in {temp[c], NoTemp}
         /\ \A d \in Calls \ {c} : temp'[d] = temp[d] /\ ((d \in stuck') <=> (d \in stuck))
BY DEF IInv, TypeOK, Unlink, Gone

\* A failure is recorded once the temporary file has been dealt with.
LEMMA DiscardStep ==
  ASSUME IInv, NEW c \in Calls, Discard(c)
  PROVE  IInv' /\ \A d \in Calls \ {c} : Untouched(d)
<1>1. /\ pc[c] = "discarding" /\ pc' = [pc EXCEPT ![c] = "answered"]
      /\ UNCHANGED <<request, elapsed, stage, target>>
      /\ Conclude(c, "failed", Faults[stage[c]]) /\ Unlink(c)
  BY DEF Discard, Goto
<1>2. stage[c] \in {"late", "denied"} /\ Permitted(c) /\ request[c].name = WriteTool
  BY <1>1 DEF IInv, CallInv, Place, Staged, Justified, Active, InLoop
<1>3. Faults[stage[c]] \in Codes
  BY <1>2 DEF Faults, Codes
<1>4. /\ record' \in [Calls -> Record] /\ Consistent(record'[c])
      /\ \A d \in Calls \ {c} : record'[d] = record[d]
  BY <1>1, <1>3, ConcludeRecords DEF Active, InLoop, ToolAnswers
<1>5. /\ Gone(c)' /\ temp' \in [Calls -> Nat \cup {NoTemp}] /\ stuck' \subseteq Calls
      /\ \A d \in Calls \ {c} : temp'[d] = temp[d] /\ ((d \in stuck') <=> (d \in stuck))
  BY <1>1, UnlinkClears
<1>6. TypeOK'
  BY <1>1, <1>4, <1>5 DEF IInv, TypeOK, Active, Ended
<1>7. CallInv(c)'
  <2>1. pc'[c] = "answered" /\ stage'[c] = stage[c] /\ request'[c] = request[c]
    BY <1>1 DEF IInv, TypeOK
  <2>2. QED
    BY <1>2, <1>4, <1>5, <2>1
      DEF CallInv, Place, Staged, Cleared, Recorded, Justified, Permitted, InLoop, Active
<1>8. ASSUME NEW d \in Calls \ {c} PROVE Untouched(d)
  BY <1>1, <1>4, <1>5 DEF IInv, TypeOK, Untouched, Holds
<1>9. OutputIsWhole'
  BY <1>1 DEF IInv, OutputIsWhole
<1>10. QED
  BY <1>6, <1>7, <1>8, <1>9, OneCall

\* The coroutine leaves its await; a worker that is running keeps its place.
LEMMA AbandonStep ==
  ASSUME IInv, NEW c \in Calls, Abandon(c), NEW label \in {"timed_out", "gone"},
         pc' = [pc EXCEPT ![c] = label], record' \in [Calls -> Record],
         label = "timed_out" => Consistent(record'[c]),
         \A d \in Calls \ {c} : record'[d] = record[d]
  PROVE  IInv' /\ \A d \in Calls \ {c} : Untouched(d)
<1>1. /\ pc[c] \in {"staging", "other"} /\ UNCHANGED <<request, elapsed, temp, stuck, target>>
      /\ stage' = IF stage[c] = "queued" THEN [stage EXCEPT ![c] = "none"] ELSE stage
  BY DEF Abandon
<1>2. /\ pc'[c] = label /\ temp'[c] = temp[c] /\ request'[c] = request[c]
      /\ stage'[c] = IF stage[c] = "queued" THEN "none" ELSE stage[c]
  BY <1>1 DEF IInv, TypeOK
<1>3. TypeOK'
  BY <1>1 DEF IInv, TypeOK, Ended
<1>4. CallInv(c)'
  <2>1. Permitted(c)
    BY <1>1 DEF IInv, CallInv, Justified, Active
  <2>2. Place(c)' /\ Recorded(c)' /\ Justified(c)'
    BY <1>2, <2>1 DEF Place, Recorded, Justified, Permitted, InLoop, Active
  <2>3. Staged(c)' /\ Cleared(c)'
    BY <1>1, <1>2 DEF IInv, CallInv, Staged, Cleared, Gone
  <2>4. QED
    BY <2>2, <2>3 DEF CallInv
<1>5. ASSUME NEW d \in Calls \ {c} PROVE Untouched(d)
  BY <1>1 DEF IInv, TypeOK, Untouched, Holds
<1>6. OutputIsWhole'
  BY <1>1 DEF IInv, OutputIsWhole
<1>7. QED
  BY <1>3, <1>4, <1>5, <1>6, OneCall

\* A call that times out leaves its worker running, and the invariant intact.
LEMMA TimerFiresStep ==
  ASSUME IInv, NEW c \in Calls, TimerFires(c)
  PROVE  IInv' /\ \A d \in Calls \ {c} : Untouched(d)
<1>1. /\ Abandon(c) /\ pc' = [pc EXCEPT ![c] = "timed_out"]
      /\ Conclude(c, "times_out", "none")
  BY DEF TimerFires, Goto
<1>2. /\ record' \in [Calls -> Record] /\ Consistent(record'[c])
      /\ \A d \in Calls \ {c} : record'[d] = record[d]
  BY <1>1, ConcludeRecords DEF Abandon, Active, ToolAnswers
<1>3. QED
  BY <1>1, <1>2, AbandonStep

\* And so does a call that is cancelled.
LEMMA CancelStep ==
  ASSUME IInv, NEW c \in Calls, Cancel(c)
  PROVE  IInv' /\ \A d \in Calls \ {c} : Untouched(d)
<1>1. Abandon(c) /\ pc' = [pc EXCEPT ![c] = "gone"] /\ record' = record
  BY DEF Cancel, Goto
<1>2. record' \in [Calls -> Record] /\ \A d \in Calls \ {c} : record'[d] = record[d]
  BY <1>1 DEF IInv, TypeOK
<1>3. QED
  BY <1>1, <1>2, AbandonStep

\* The worker's first step: the directories of the output file.
LEMMA StageDirectoryStep ==
  ASSUME IInv, NEW c \in Calls, StageDirectory(c)
  PROVE  IInv' /\ \A d \in Calls \ {c} : Untouched(d)
<1>1. /\ stage[c] = "queued" /\ UNCHANGED <<pc, request, record, elapsed, temp, stuck, target>>
      /\ \E found \in {"denied", "late", "create"} : stage' = [stage EXCEPT ![c] = found]
  BY DEF StageDirectory, Checked
<1>2. /\ stage'[c] \in {"denied", "late", "create"} /\ temp'[c] = NoTemp
      /\ pc'[c] = pc[c] /\ request'[c] = request[c] /\ record'[c] = record[c]
  BY <1>1 DEF IInv, TypeOK, CallInv, Cleared
<1>3. TypeOK'
  BY <1>1 DEF IInv, TypeOK, Working, Faults
<1>4. CallInv(c)'
  <2>1. /\ pc[c] \in {"staging", "timed_out", "gone"} /\ Permitted(c)
        /\ (Holds(c)' <=> Holds(c))
    BY <1>1 DEF IInv, CallInv, Place, Justified, Holds
  <2>2. QED
    BY <1>2, <2>1
      DEF IInv, CallInv, Place, Staged, Cleared, Recorded, Justified, Permitted, Gone,
          InLoop, Active, Admitted, Consistent
<1>5. ASSUME NEW d \in Calls \ {c} PROVE Untouched(d)
  BY <1>1 DEF IInv, TypeOK, Untouched, Holds
<1>6. OutputIsWhole'
  BY <1>1 DEF IInv, OutputIsWhole
<1>7. QED
  BY <1>3, <1>4, <1>5, <1>6, OneCall

\* Its second: the temporary file, which no other call writes.
LEMMA StageCreateStep ==
  ASSUME IInv, NEW c \in Calls, StageCreate(c)
  PROVE  IInv' /\ \A d \in Calls \ {c} : Untouched(d)
<1>1. /\ stage[c] = "create" /\ UNCHANGED <<pc, request, record, elapsed, stuck, target>>
      /\ \/ temp' = [temp EXCEPT ![c] = 0] /\ stage' = [stage EXCEPT ![c] = "write"]
         \/ stage' = [stage EXCEPT ![c] = "denied"] /\ temp' = temp
  BY DEF StageCreate
<1>2. /\ \/ stage'[c] = "write" /\ temp'[c] = 0
         \/ stage'[c] = "denied" /\ temp'[c] = NoTemp
      /\ pc'[c] = pc[c] /\ request'[c] = request[c] /\ record'[c] = record[c]
  BY <1>1 DEF IInv, TypeOK, CallInv, Cleared
<1>3. TypeOK'
  BY <1>1 DEF IInv, TypeOK, Working, Faults
<1>4. CallInv(c)'
  <2>1. /\ pc[c] \in {"staging", "timed_out", "gone"}
        /\ Permitted(c) /\ (Holds(c)' <=> Holds(c)) /\ Pieces[c] \in Nat
    BY <1>1, CallsAssumption DEF IInv, CallInv, Place, Justified, Holds
  <2>2. QED
    BY <1>2, <2>1
      DEF IInv, CallInv, Place, Staged, Cleared, Recorded, Justified, Permitted, Gone,
          InLoop, Active, Admitted, Consistent
<1>5. ASSUME NEW d \in Calls \ {c} PROVE Untouched(d)
  BY <1>1 DEF IInv, TypeOK, Untouched, Holds
<1>6. OutputIsWhole'
  BY <1>1 DEF IInv, OutputIsWhole
<1>7. QED
  BY <1>3, <1>4, <1>5, <1>6, OneCall

\* Its third: one more piece of the content, and the end of the staging.
LEMMA StageWriteStep ==
  ASSUME IInv, NEW c \in Calls, StageWrite(c)
  PROVE  IInv' /\ \A d \in Calls \ {c} : Untouched(d)
<1>1. /\ stage[c] = "write" /\ UNCHANGED <<pc, request, record, elapsed, target>>
      /\ \/ /\ temp[c] < Pieces[c] /\ temp' = [temp EXCEPT ![c] = @ + 1]
            /\ stage' = stage /\ stuck' = stuck
         \/ /\ ~ (temp[c] < Pieces[c]) /\ stage' = [stage EXCEPT ![c] = "staged"]
            /\ temp' = temp /\ stuck' = stuck
         \/ /\ \E found \in {"late", "denied"} : stage' = [stage EXCEPT ![c] = found]
            /\ Unlink(c)
  BY DEF StageWrite, Checked
<1>2. /\ pc[c] \in {"staging", "timed_out", "gone"} /\ Permitted(c)
      /\ temp[c] \in Nat /\ temp[c] <= Pieces[c] /\ Pieces[c] \in Nat
      /\ (Holds(c)' <=> Holds(c))
  BY <1>1, CallsAssumption DEF IInv, CallInv, Place, Staged, Justified, Holds
<1>3. /\ pc'[c] = pc[c] /\ request'[c] = request[c] /\ record'[c] = record[c]
      /\ \/ stage'[c] = "write" /\ temp'[c] \in Nat /\ temp'[c] <= Pieces[c]
         \/ stage'[c] = "staged" /\ temp'[c] = Pieces[c]
         \/ stage'[c] \in {"late", "denied"} /\ Gone(c)'
  BY <1>1, <1>2, UnlinkClears DEF IInv, TypeOK
<1>4. /\ temp' \in [Calls -> Nat \cup {NoTemp}] /\ stuck' \subseteq Calls
      /\ \A d \in Calls \ {c} : /\ temp'[d] = temp[d] /\ stage'[d] = stage[d]
                                /\ (d \in stuck') <=> (d \in stuck)
  BY <1>1, <1>2, UnlinkClears DEF IInv, TypeOK
<1>5. TypeOK'
  BY <1>1, <1>4 DEF IInv, TypeOK, Working, Faults
<1>6. CallInv(c)'
  <2>1. Place(c)' /\ Justified(c)'
    BY <1>2, <1>3 DEF IInv, CallInv, Place, Justified, Permitted, InLoop, Active
  <2>2. Staged(c)' /\ Cleared(c)'
    BY <1>2, <1>3 DEF Staged, Cleared
  <2>3. Recorded(c)'
    BY <1>3 DEF IInv, CallInv, Recorded, Admitted, Consistent
  <2>4. QED
    BY <2>1, <2>2, <2>3 DEF CallInv
<1>7. ASSUME NEW d \in Calls \ {c} PROVE Untouched(d)
  BY <1>1, <1>4 DEF Untouched, Holds
<1>8. OutputIsWhole'
  BY <1>1 DEF IInv, OutputIsWhole
<1>9. QED
  BY <1>5, <1>6, <1>7, <1>8, OneCall

\* A process dies: each of its calls in flight is gone, its workers vanish, and
\* what they wrote stays where it is.
LEMMA CrashStep ==
  ASSUME IInv, NEW p \in Processes, Crash(p)
  PROVE  IInv'
<1>1. /\ UNCHANGED <<request, record, elapsed, temp, stuck, target>>
      /\ pc' \in [Calls -> {"new"} \cup Active \cup Ended]
      /\ stage' \in [Calls -> {"none", "staged"} \cup Working \cup DOMAIN Faults]
      /\ \A d \in Calls :
           \/ pc'[d] = pc[d] /\ stage'[d] = stage[d]
           \/ pc[d] \in Active /\ pc'[d] = "gone" /\ stage'[d] = "none"
           \/ stage[d] \in Working /\ pc'[d] = pc[d] /\ stage'[d] = "none"
  BY DEF Crash, IInv, TypeOK, Ended, Active
<1>2. TypeOK' /\ OutputIsWhole'
  BY <1>1 DEF IInv, TypeOK, OutputIsWhole
<1>3. ASSUME NEW d \in Calls PROVE CallInv(d)'
  <2>1. CASE pc'[d] = pc[d] /\ stage'[d] = stage[d]
    <3>1. Untouched(d)
      BY <1>1, <2>1 DEF Untouched, Holds
    <3>2. QED
      BY <3>1, UntouchedKeeps DEF IInv
  <2>2. /\ request'[d] = request[d] /\ record'[d] = record[d] /\ temp'[d] = temp[d]
        /\ (Gone(d)' <=> Gone(d)) /\ (Holds(d)' <=> Holds(d)) /\ CallInv(d)
    BY <1>1 DEF Gone, Holds, IInv
  <2>3. CASE pc[d] \in Active /\ pc'[d] = "gone" /\ stage'[d] = "none"
    BY <2>2, <2>3
      DEF CallInv, Place, Staged, Cleared, Recorded, Justified, Permitted, InLoop, Active
  <2>4. CASE stage[d] \in Working /\ pc'[d] = pc[d] /\ stage'[d] = "none"
    <3>1. pc[d] \in {"staging", "timed_out", "gone"} /\ Permitted(d)
      BY <2>2, <2>4 DEF CallInv, Place, Justified, Working
    <3>2. QED
      BY <2>2, <2>4, <3>1
        DEF CallInv, Place, Staged, Cleared, Recorded, Justified, Permitted, InLoop,
            Active, Admitted, Consistent
  <2>5. QED
    BY <1>1, <2>1, <2>3, <2>4
<1>4. QED
  BY <1>2, <1>3 DEF IInv

\* Every step of every actor keeps the invariant.
LEMMA Inductive == IInv /\ [Next]_vars => IInv'
<1> SUFFICES ASSUME IInv, [Next]_vars PROVE IInv'
  OBVIOUS
<1>1. ASSUME NEW c \in Calls, Start(c) PROVE IInv'
  BY <1>1, StartStep
<1>2. ASSUME NEW c \in Calls, Coroutine(c) PROVE IInv'
  BY <1>2, OtherAnswersStep, ResumeStep, CheckCommitStep, ReplaceStep, SucceedStep,
     DiscardStep DEF Coroutine
<1>3. ASSUME NEW c \in Calls, Worker(c) PROVE IInv'
  BY <1>3, StageDirectoryStep, StageCreateStep, StageWriteStep DEF Worker
<1>4. ASSUME NEW c \in Calls, Elapse(c) \/ TimerFires(c) \/ Cancel(c) PROVE IInv'
  BY <1>4, ElapseStep, TimerFiresStep, CancelStep
<1>5. ASSUME NEW p \in Processes, Crash(p) PROVE IInv'
  BY <1>5, CrashStep
<1>6. CASE UNCHANGED vars
  <2>1. ASSUME NEW d \in Calls PROVE CallInv(d)'
    <3>1. Untouched(d)
      BY <1>6 DEF vars, Untouched, Holds
    <3>2. QED
      BY <3>1, UntouchedKeeps DEF IInv
  <2>2. TypeOK' /\ OutputIsWhole'
    BY <1>6 DEF vars, IInv, TypeOK, OutputIsWhole
  <2>3. QED
    BY <2>1, <2>2 DEF IInv
<1>7. QED
  BY <1>1, <1>2, <1>3, <1>4, <1>5, <1>6 DEF Next

\* The inductive invariant holds throughout.
THEOREM Invariance == Spec => []IInv
BY InitHolds, Inductive, PTL DEF Spec

-----------------------------------------------------------------------------
(* The invariants the runs check *)

\* The variables keep their types, for every number of calls and processes.
THEOREM TypeCorrect == Spec => []TypeOK
BY Invariance, PTL DEF IInv

\* The output file never holds a part of what a call was to write: commit_output
\* only moves a temporary file that stage_output has completed.
THEOREM WholeOutput == Spec => []OutputIsWhole
BY Invariance, PTL DEF IInv

\* A Tool is only run for a request that fits, whose name is on the allowlist of
\* FixedToolPolicy and whose side effect is not denied.
THEOREM DeniedIsNotReached == Spec => []DeniedNeverReached
<1>1. IInv => DeniedNeverReached
  BY DEF IInv, CallInv, Justified, Holds, Permitted, DeniedNeverReached
<1>2. QED
  BY <1>1, Invariance, PTL

\* ToolExecutionRecord's validator accepts every record execute_recorded returns
\* and every compact one the Agent loop stores in its place.
THEOREM ValidatorAccepts == Spec => []RecordsConsistent
<1>1. ASSUME NEW c \in Calls PROVE Consistent(Compacted(record[c]))
  <2>1. /\ Failure(NoRecord, "TOOL_OUTPUT_TOO_LARGE").answers = "same"
        /\ Failure(NoRecord, "TOOL_OUTPUT_TOO_LARGE") \in Record
        /\ Failure(NoRecord, "TOOL_OUTPUT_TOO_LARGE").prepared = "none"
        /\ Failure(NoRecord, "TOOL_OUTPUT_TOO_LARGE").decision = "none"
        /\ Failure(NoRecord, "TOOL_OUTPUT_TOO_LARGE").status = "failed"
        /\ Failure(NoRecord, "TOOL_OUTPUT_TOO_LARGE").code = "TOOL_OUTPUT_TOO_LARGE"
    BY DEF Failure, NoRecord, Record, Identities, Codes
  <2> DEFINE f == Failure(NoRecord, "TOOL_OUTPUT_TOO_LARGE")
             t == [f EXCEPT !.reached = record[c].reached, !.truncated = TRUE]
  <2> HIDE DEF f
  <2>2. /\ t.answers = "same" /\ t.prepared = "none" /\ t.decision = "none"
        /\ t.status = "failed" /\ t.code = "TOOL_OUTPUT_TOO_LARGE" /\ t.truncated
    BY <2>1 DEF f, Record
  <2>3. Compacted(record[c]) = t
    BY DEF Compacted, f
  <2> HIDE DEF t
  <2>4. QED
    BY <2>2, <2>3 DEF Consistent
<1>2. IInv => RecordsConsistent
  BY <1>1 DEF IInv, CallInv, Recorded, RecordsConsistent
<1>3. QED
  BY <1>2, Invariance, PTL

\* Only a call that was given up, or whose file could not be unlinked, leaves a
\* temporary file behind.
THEOREM OnlyExplainedLeftovers == Spec => []LeftoversExplained
<1>1. IInv => LeftoversExplained
  <2> SUFFICES ASSUME IInv, NEW c \in Calls, temp[c] # NoTemp, c \notin stuck
               PROVE  \/ pc[c] \in Active \/ stage[c] \in Working
                      \/ pc[c] \in {"timed_out", "gone"} /\ stage[c] \in {"staged", "none"}
    BY DEF LeftoversExplained
  <2>1. pc[c] \in {"new"} \cup Active \cup Ended
        /\ stage[c] \in {"none", "staged"} \cup Working \cup {"late", "denied"}
    BY DEF IInv, TypeOK, Faults
  <2>2. pc[c] # "new" /\ pc[c] # "answered" /\ ~ Gone(c)
    BY DEF IInv, CallInv, Place, Cleared, Gone
  <2>3. stage[c] \in {"late", "denied"} => pc[c] \in Active
    BY <2>2 DEF IInv, CallInv, Cleared, Active, InLoop
  <2>4. QED
    BY <2>1, <2>2, <2>3 DEF Ended
<1>2. QED
  BY <1>1, Invariance, PTL

-----------------------------------------------------------------------------
(* workspace.write implements the atomic output file *)

Output == IF target = NoFile THEN NoFile ELSE target.by

\* the step of a call that moves it from one phase to another
LEMMA OnePhase ==
  ASSUME NEW c \in Calls, \A d \in Calls \ {c} : Untouched(d), NEW from, NEW to,
         Phase(c) \in from, Phase(c)' = to
  PROVE  Abstract!Move(c, from, to)
<1>1. ASSUME NEW d \in Calls \ {c} PROVE Phase(d)' = Phase(d)
  BY DEF Untouched, Phase
<1>2. QED
  BY <1>1 DEF Abstract!Move

\* and one that moves none
LEMMA SamePhase ==
  ASSUME NEW c \in Calls, \A d \in Calls \ {c} : Untouched(d),
         Phase(c)' = Phase(c), target' = target
  PROVE  UNCHANGED Abstract!vars
<1>1. ASSUME NEW d \in Calls PROVE Phase(d)' = Phase(d)
  <2>1. CASE d = c
    BY <2>1
  <2>2. CASE d # c
    BY <2>2 DEF Untouched, Phase
  <2>3. QED
    BY <2>1, <2>2
<1>2. QED
  BY <1>1 DEF Abstract!vars

\* A call that begins is one that begins, or fails at once, in the contract.
LEMMA StartMaps ==
  ASSUME IInv, NEW c \in Calls, Start(c)
  PROVE  [Abstract!Next]_Abstract!vars
<1>1. PICK a \in Asks[c] :
        LET admission == Admission(a.request, a.preparation, a.verdict)
            writes == IsAdmitted(admission) /\ a.request.name = WriteTool
        IN  /\ request' = [request EXCEPT ![c] = a.request]
            /\ record' = [record EXCEPT ![c] = admission]
            /\ pc' = [pc EXCEPT ![c] = IF ~ IsAdmitted(admission) THEN "answered"
                                       ELSE IF writes THEN "staging" ELSE "other"]
  BY DEF Start, Goto
<1> DEFINE admission == Admission(a.request, a.preparation, a.verdict)
<1>2. /\ request'[c] = a.request /\ record'[c] = admission /\ Phase(c) = "new"
      /\ pc'[c] = IF ~ IsAdmitted(admission) THEN "answered"
                  ELSE IF a.request.name = WriteTool THEN "staging" ELSE "other"
      /\ target' = target
  BY <1>1 DEF Start, IInv, TypeOK, Phase
<1>3. ~ IsAdmitted(admission) => admission.status = "failed"
  <2>1. a.request \in Request
    BY CallsAssumption DEF Ask
  <2>2. QED
    BY <2>1, AdmissionMeans
<1> HIDE DEF admission
<1>4. \A d \in Calls \ {c} : Untouched(d)
  BY StartStep
<1>5. CASE a.request.name # WriteTool
  <2>1. Phase(c)' = "new"
    BY <1>2, <1>5 DEF Phase
  <2>2. QED
    BY <1>2, <1>4, <2>1, SamePhase
<1>6. CASE a.request.name = WriteTool /\ IsAdmitted(admission)
  <2>1. Phase(c)' = "pending"
    BY <1>2, <1>6 DEF Phase, Active
  <2>2. Abstract!Begin(c)
    <3>1. Abstract!Move(c, {"new"}, "pending")
      BY <1>2, <1>4, <2>1, OnePhase
    <3>2. QED
      BY <3>1, <1>2 DEF Abstract!Begin
  <2>3. QED
    BY <2>2 DEF Abstract!Next
<1>7. CASE a.request.name = WriteTool /\ ~ IsAdmitted(admission)
  <2>1. Phase(c)' = "failed"
    BY <1>2, <1>3, <1>7 DEF Phase, Active, InLoop
  <2>2. Abstract!Fail(c)
    <3>1. Abstract!Move(c, {"new", "pending"}, "failed")
      BY <1>2, <1>4, <2>1, OnePhase
    <3>2. QED
      BY <3>1, <1>2 DEF Abstract!Fail
  <2>3. QED
    BY <2>2 DEF Abstract!Next
<1>8. QED
  BY <1>5, <1>6, <1>7

\* A write in flight is answered with a failure before the replacement.
LEMMA FailureMaps ==
  ASSUME IInv, NEW c \in Calls, pc[c] \in {"staging", "discarding"},
         pc'[c] \in {"answered", "timed_out"}, record'[c].status = "failed",
         request' = request, target' = target, \A d \in Calls \ {c} : Untouched(d)
  PROVE  Abstract!Next
<1>1. request[c].name = WriteTool
  BY DEF IInv, CallInv, Place, InLoop
<1>2. Phase(c) \in {"new", "pending"} /\ Phase(c)' = "failed"
  BY <1>1 DEF Phase, Active, InLoop
<1>3. Abstract!Move(c, {"new", "pending"}, "failed")
  BY <1>2, OnePhase
<1>4. QED
  BY <1>3 DEF Abstract!Next, Abstract!Fail

\* What the coroutine does is a replacement, a success, a failure or nothing.
LEMMA CoroutineMaps ==
  ASSUME IInv, NEW c \in Calls, Coroutine(c)
  PROVE  [Abstract!Next]_Abstract!vars
<1>1. CASE OtherAnswers(c)
  <2>1. /\ pc[c] = "other" /\ target' = target /\ request' = request
        /\ request[c].name # WriteTool
    BY <1>1 DEF OtherAnswers, IInv, CallInv, Place
  <2>2. Phase(c)' = Phase(c)
    BY <2>1 DEF Phase
  <2>3. QED
    BY <1>1, <2>1, <2>2, OtherAnswersStep, SamePhase
<1>2. CASE Resume(c)
  <2>1. \A d \in Calls \ {c} : Untouched(d)
    BY <1>2, ResumeStep
  <2>2. pc[c] = "staging" /\ request' = request /\ target' = target
    BY <1>2 DEF Resume
  <2>3. CASE stage[c] = "staged"
    <3>1. pc'[c] = "checking"
      BY <1>2, <2>3 DEF Resume, Goto, IInv, TypeOK, Faults
    <3>2. Phase(c)' = Phase(c)
      BY <2>2, <3>1 DEF Phase, Active, InLoop
    <3>3. QED
      BY <2>1, <2>2, <3>2, SamePhase
  <2>4. CASE stage[c] # "staged"
    <3>1. /\ pc'[c] = "answered" /\ Faults[stage[c]] \in Codes
          /\ Conclude(c, "failed", Faults[stage[c]])
      BY <1>2, <2>4 DEF Resume, Goto, IInv, TypeOK, Faults, Codes
    <3>2. record'[c].status = "failed"
      BY <2>2, <3>1, ConcludeRecords DEF Active, ToolAnswers
    <3>3. QED
      BY <2>1, <2>2, <3>1, <3>2, FailureMaps
  <2>5. QED
    BY <2>3, <2>4
<1>3. CASE CheckCommit(c)
  <2>1. /\ pc[c] = "checking" /\ request' = request /\ target' = target
        /\ pc'[c] \in {"replacing", "discarding"}
    BY <1>3 DEF CheckCommit, Goto, IInv, TypeOK
  <2>2. Phase(c)' = Phase(c)
    BY <2>1 DEF Phase, Active, InLoop
  <2>3. QED
    BY <1>3, <2>1, <2>2, CheckCommitStep, SamePhase
<1>4. CASE Replace(c)
  <2>1. \A d \in Calls \ {c} : Untouched(d)
    BY <1>4, ReplaceStep
  <2>2. /\ pc[c] = "replacing" /\ request' = request /\ request[c].name = WriteTool
        /\ \/ target' = [by |-> c, pieces |-> temp[c]] /\ pc'[c] = "replaced"
           \/ target' = target /\ pc'[c] = "discarding"
    BY <1>4 DEF Replace, Goto, IInv, TypeOK, CallInv, Place, InLoop
  <2>3. CASE target' = [by |-> c, pieces |-> temp[c]] /\ pc'[c] = "replaced"
    <3>1. Phase(c) = "pending" /\ Phase(c)' = "replaced"
      BY <2>2, <2>3 DEF Phase, Active, InLoop
    <3>2. Abstract!Move(c, {"pending"}, "replaced")
      BY <2>1, <3>1, OnePhase
    <3>3. target' # NoFile
      <4>1. temp[c] = Pieces[c]
        BY <2>2 DEF IInv, CallInv, Staged
      <4>2. [by |-> c, pieces |-> temp[c]] \in [by : Calls, pieces : Nat]
        BY <4>1, CallsAssumption
      <4>3. QED
        BY <4>2, <2>3, CallsAssumption
    <3>4. QED
      BY <2>3, <3>2, <3>3 DEF Abstract!Next, Abstract!Replace
  <2>4. CASE target' = target /\ pc'[c] = "discarding"
    <3>1. Phase(c)' = Phase(c)
      BY <2>2, <2>4 DEF Phase, Active, InLoop
    <3>2. QED
      BY <2>1, <2>4, <3>1, SamePhase
  <2>5. QED
    BY <2>2, <2>3, <2>4
<1>5. CASE Succeed(c)
  <2>1. \A d \in Calls \ {c} : Untouched(d)
    BY <1>5, SucceedStep
  <2>2. /\ pc[c] = "replaced" /\ request' = request /\ request[c].name = WriteTool
        /\ target' = target /\ pc'[c] = "answered" /\ Conclude(c, "succeeded", "none")
    BY <1>5 DEF Succeed, Goto, IInv, TypeOK, CallInv, Place, InLoop
  <2>3. record'[c].status = "succeeded"
    BY <2>2, ConcludeRecords DEF Active, InLoop, ToolAnswers
  <2>4. Phase(c) = "replaced" /\ Phase(c)' = "succeeded"
    BY <2>2, <2>3 DEF Phase, Active, InLoop
  <2>5. Abstract!Move(c, {"replaced"}, "succeeded")
    BY <2>1, <2>4, OnePhase
  <2>6. QED
    BY <2>2, <2>5 DEF Abstract!Next, Abstract!Succeed
<1>6. CASE Discard(c)
  <2>1. \A d \in Calls \ {c} : Untouched(d)
    BY <1>6, DiscardStep
  <2>2. /\ pc[c] = "discarding" /\ request' = request /\ target' = target
        /\ pc'[c] = "answered" /\ Conclude(c, "failed", Faults[stage[c]])
        /\ stage[c] \in {"late", "denied"}
    BY <1>6 DEF Discard, Goto, IInv, TypeOK, CallInv, Staged
  <2>3. Faults[stage[c]] \in Codes
    BY <2>2 DEF Faults, Codes
  <2>4. record'[c].status = "failed"
    BY <2>2, <2>3, ConcludeRecords DEF Active, InLoop, ToolAnswers
  <2>5. QED
    BY <2>1, <2>2, <2>4, FailureMaps
<1>7. QED
  BY <1>1, <1>2, <1>3, <1>4, <1>5, <1>6 DEF Coroutine

\* A call that is given up: timed out, and so failed, or cancelled, and so lost.
LEMMA AbandonMaps ==
  ASSUME IInv, NEW c \in Calls, TimerFires(c) \/ Cancel(c)
  PROVE  [Abstract!Next]_Abstract!vars
<1>1. \A d \in Calls \ {c} : Untouched(d)
  BY TimerFiresStep, CancelStep
<1>2. /\ pc[c] \in {"staging", "other"} /\ request' = request /\ target' = target
      /\ \/ pc'[c] = "timed_out" /\ Conclude(c, "times_out", "none")
         \/ pc'[c] = "gone"
  BY DEF TimerFires, Cancel, Abandon, Goto, IInv, TypeOK
<1>3. CASE pc[c] = "other"
  <2>1. request[c].name # WriteTool
    BY <1>3 DEF IInv, CallInv, Place
  <2>2. Phase(c)' = Phase(c)
    BY <1>2, <2>1 DEF Phase
  <2>3. QED
    BY <1>1, <1>2, <2>2, SamePhase
<1>4. CASE pc[c] = "staging" /\ pc'[c] = "timed_out" /\ Conclude(c, "times_out", "none")
  <2>1. record'[c].status = "failed"
    BY <1>4, ConcludeRecords DEF Active, ToolAnswers
  <2>2. QED
    BY <1>1, <1>2, <1>4, <2>1, FailureMaps
<1>5. CASE pc[c] = "staging" /\ pc'[c] = "gone"
  <2>1. request[c].name = WriteTool
    BY <1>5 DEF IInv, CallInv, Place
  <2>2. Phase(c) = "pending" /\ Phase(c)' = "lost"
    BY <1>2, <1>5, <2>1 DEF Phase, Active, InLoop
  <2>3. \A d \in Calls \ {c} : Phase(d)' = Phase(d)
    BY <1>1, <1>2 DEF Untouched, Phase
  <2>5. Abstract!Lose({c})
    BY <1>2, <2>2, <2>3 DEF Abstract!Lose
  <2>6. QED
    BY <2>5 DEF Abstract!Next
<1>6. QED
  BY <1>2, <1>3, <1>4, <1>5

\* A crash loses the writes of its process, all at once, and no other.
LEMMA CrashMaps ==
  ASSUME IInv, NEW p \in Processes, Crash(p)
  PROVE  [Abstract!Next]_Abstract!vars
<1> DEFINE D == {c \in Calls : /\ ProcessOf[c] = p /\ pc[c] \in Active
                               /\ request[c].name = WriteTool}
<1>1. /\ request' = request /\ record' = record /\ target' = target
      /\ \A c \in Calls : pc'[c] = IF ProcessOf[c] = p /\ pc[c] \in Active THEN "gone"
                                   ELSE pc[c]
  BY DEF Crash
<1>2. ASSUME NEW c \in D PROVE Phase(c) \in {"pending", "replaced"} /\ Phase(c)' = "lost"
  BY <1>1 DEF Phase, Active, InLoop
<1>3. ASSUME NEW c \in Calls, c \notin D PROVE Phase(c)' = Phase(c)
  <2>1. CASE request[c].name # WriteTool
    BY <1>1, <2>1 DEF Phase
  <2>2. CASE request[c].name = WriteTool
    <3>1. pc'[c] = pc[c]
      BY <1>1, <1>3, <2>2
    <3>2. QED
      BY <1>1, <3>1 DEF Phase
  <2>3. QED
    BY <2>1, <2>2
<1>4. D \in SUBSET Calls
  OBVIOUS
<1> HIDE DEF D
<1>5. Abstract!Lose(D)
  BY <1>1, <1>2, <1>3, <1>4 DEF Abstract!Lose
<1>6. QED
  BY <1>4, <1>5 DEF Abstract!Next

\* Workers and the clock do not show: only the coroutine changes the output file.
LEMMA WorkerMaps ==
  ASSUME IInv, NEW c \in Calls, Worker(c) \/ Elapse(c)
  PROVE  UNCHANGED Abstract!vars
<1>1. pc' = pc /\ request' = request /\ record' = record /\ target' = target
  BY DEF Worker, StageDirectory, StageCreate, StageWrite, Elapse
<1>2. QED
  BY <1>1 DEF Abstract!vars, Phase

\* Every step of the executor is a step of the contract or a stutter.
LEMMA StepMaps == IInv /\ [Next]_vars => [Abstract!Next]_Abstract!vars
<1> SUFFICES ASSUME IInv, [Next]_vars PROVE [Abstract!Next]_Abstract!vars
  OBVIOUS
<1>1. CASE UNCHANGED vars
  BY <1>1 DEF vars, Abstract!vars, Phase
<1>2. CASE \E c \in Calls : Start(c) \/ Coroutine(c)
  BY <1>2, StartMaps, CoroutineMaps
<1>3. CASE \E c \in Calls : Worker(c) \/ Elapse(c)
  BY <1>3, WorkerMaps
<1>4. CASE \E c \in Calls : TimerFires(c) \/ Cancel(c)
  BY <1>4, AbandonMaps
<1>5. CASE \E p \in Processes : Crash(p)
  BY <1>5, CrashMaps
<1>6. QED
  BY <1>1, <1>2, <1>3, <1>4, <1>5 DEF Next

\* workspace.write replaces its file as a whole or not at all, and only for a call
\* that is still waited for: a worker that outlives its call never does.  Success
\* is answered after the replacement, and a failure never after one.
THEOREM Refinement == Spec => ImplementsAtomicOutput
<1>1. Init => Abstract!Init
  <2> SUFFICES ASSUME Init PROVE Abstract!Init
    OBVIOUS
  <2>1. target = NoFile
    BY DEF Init
  <2>2. \A c \in Calls : pc[c] = "new"
    BY DEF Init
  <2>3. \A c \in Calls : Phase(c) = "new"
    BY <2>2 DEF Phase, Active, InLoop
  <2>4. [c \in Calls |-> Phase(c)] = [c \in Calls |-> "new"]
    BY <2>3
  <2>5. QED
    BY <2>1, <2>4 DEF Abstract!Init
<1>2. QED
  BY <1>1, StepMaps, Invariance, PTL DEF Spec, ImplementsAtomicOutput, Abstract!Spec
===============================================================================
