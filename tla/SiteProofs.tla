------------------------------ MODULE SiteProofs ------------------------------
(***************************************************************************)
(* What holds between the publication kernel, the operation kernel, the    *)
(* callers and the native owner of an asset, whoever does what when: what  *)
(* is answered, recorded and started agrees; guard claims cover a route;   *)
(* and an operation is let through, recorded as applied and closed for     *)
(* reasons that were really there.                                         *)
(***************************************************************************)
EXTENDS Site, PublicationProofs

-----------------------------------------------------------------------------
(* The table of admissions. *)

AdmissionFields == {"intent", "at", "revisions", "route", "record"}

\* An admission as Admit prepares it and RecordRejection makes it up.
IsAdmission(a) == a = [f \in AdmissionFields |-> a[f]]

\* The admissions and the calls that hold one.
TableOK ==
    /\ IsFiniteSet(DOMAIN admissions)
    /\ Cardinality(DOMAIN admissions) <= MaxOperations
    /\ \A key \in DOMAIN admissions :
          /\ IsAdmission(admissions[key])
          /\ admissions[key].intent.key = key
    /\ DOMAIN calls = Caller
    /\ \A x \in Caller : calls[x] # None => IsAdmission(calls[x]) /\ calls[x].record = None

\* The ways the table changes: a call installs what it prepared, an intent is
\* closed that nobody was let through with, an open admission gets its record.
Installs ==
    \E x \in Caller :
        /\ calls[x] # None /\ ~Full
        /\ calls[x].intent.key \notin DOMAIN admissions
        /\ admissions' = Put(calls[x])

Rejected(intent, error) ==
    [intent |-> intent, at |-> None, revisions |-> None, route |-> None,
     record |-> Rejection(intent, error)]

Closes ==
    \E intent, error :
        /\ ~Full /\ intent.key \notin DOMAIN admissions
        /\ admissions' = Put(Rejected(intent, error))

Records ==
    \E key \in DOMAIN admissions : \E r, s :
        /\ key \in DOMAIN native
        /\ admissions[key].record = None
        /\ RecordHolds(key, r, s)
        /\ r.dispatch = DispatchOf(key)
        /\ s \in {None} \cup {held[x] : x \in Caller}
        /\ admissions' = [admissions EXCEPT ![key].record = r]

\* Nothing else changes the table.
LEMMA TableSteps ==
    ASSUME [SiteNext]_siteVars
    PROVE  UNCHANGED admissions \/ Installs \/ Closes \/ Records
  <1>1. ASSUME NEW x \in Caller, Finish(x) PROVE UNCHANGED admissions \/ Installs
    BY <1>1 DEF Finish, Install, Installs
  <1>2. ASSUME NEW x \in Caller, NEW s, NEW c, NEW intent, NEW granted, Admit(x, s, c, intent, granted)
        PROVE  UNCHANGED admissions
    BY <1>2 DEF Admit, AdmitKnown, AdmitNew, AdmitRefused, operationVars
  <1>3. ASSUME NEW intent, NEW error, Refuse(intent, error) PROVE UNCHANGED admissions \/ Closes
    BY <1>3 DEF Refuse, RecordRejection, Closes, Rejected
  <1>4. ASSUME NEW key, NEW outcome, NEW ack, NEW readback,
               NEW s \in {None} \cup {held[x] : x \in Caller}, Report(key, outcome, ack, readback, s)
        PROVE  UNCHANGED admissions \/ Records
    <2>1. RecordOf(key, outcome, ack, readback).dispatch = DispatchOf(key)
      BY DEF RecordOf
    <2> QED
      BY <1>4, <2>1 DEF Report, Record, Records
  <1>5. ASSUME NEW b, Publish(b) PROVE UNCHANGED admissions
    BY <1>5 DEF Publish, operationVars
  <1>6. ASSUME NEW x \in Caller, Fetch(x) PROVE UNCHANGED admissions
    BY <1>6 DEF Fetch, operationVars
  <1>7. ASSUME NEW key, NEW c, NEW delivery, Dispatch(key, c, delivery) \/ Complete(key, c)
        PROVE  UNCHANGED admissions
    BY <1>7 DEF Dispatch, Complete, operationVars
  <1>8. Tick => UNCHANGED admissions
    BY DEF Tick, operationVars
  <1>9. UNCHANGED siteVars => UNCHANGED admissions
    BY DEF siteVars, operationVars
  <1>10. ASSUME NEW x \in Caller, NEW c, NEW intent, NEW granted, Submit(x, c, intent, granted)
         PROVE  UNCHANGED admissions
    BY <1>2, <1>10 DEF Submit
  <1> QED
    BY <1>1, <1>3, <1>4, <1>5, <1>6, <1>7, <1>8, <1>9, <1>10 DEF SiteNext

\* A call is prepared by Admit, and given up by Install.
LEMMA CallSteps ==
    ASSUME [SiteNext]_siteVars
    PROVE  \/ UNCHANGED calls
           \/ \E x \in Caller : calls[x] # None /\ calls' = [calls EXCEPT ![x] = None]
           \/ \E x \in Caller, c \in Contexts({KernelClock}), granted \in BOOLEAN : \E intent :
                 /\ IsIntent(intent) /\ held[x] # None
                 /\ AdmitNew(x, held[x], c, intent, granted)
                 /\ UNCHANGED <<vars, now, held, native>>
  <1>1. ASSUME NEW x \in Caller, Finish(x)
        PROVE  calls[x] # None /\ calls' = [calls EXCEPT ![x] = None]
    BY <1>1 DEF Finish, Install
  <1>2. ASSUME NEW x \in Caller, NEW c, NEW intent, NEW granted, Submit(x, c, intent, granted)
        PROVE  \/ UNCHANGED calls
               \/ /\ held[x] # None /\ AdmitNew(x, held[x], c, intent, granted)
                  /\ UNCHANGED <<vars, now, held, native>>
    BY <1>2 DEF Submit, Admit, AdmitKnown, AdmitRefused, operationVars
  <1>3. ASSUME NEW intent, NEW error, Refuse(intent, error) PROVE UNCHANGED calls
    BY <1>3 DEF Refuse, RecordRejection
  <1>4. ASSUME NEW key, NEW outcome, NEW ack, NEW readback, NEW s,
               Report(key, outcome, ack, readback, s)
        PROVE  UNCHANGED calls
    BY <1>4 DEF Report, Record
  <1>5. ASSUME NEW b, Publish(b) PROVE UNCHANGED calls
    BY <1>5 DEF Publish, operationVars
  <1>6. ASSUME NEW x \in Caller, Fetch(x) PROVE UNCHANGED calls
    BY <1>6 DEF Fetch, operationVars
  <1>7. ASSUME NEW key, NEW c, NEW delivery, Dispatch(key, c, delivery) \/ Complete(key, c)
        PROVE  UNCHANGED calls
    BY <1>7 DEF Dispatch, Complete, operationVars
  <1>8. Tick => UNCHANGED calls
    BY DEF Tick, operationVars
  <1>9. UNCHANGED siteVars => UNCHANGED calls
    BY DEF siteVars, operationVars
  <1>10. CASE \E x \in Caller, c \in Contexts({KernelClock}), granted \in BOOLEAN :
                 \E intent : IsIntent(intent) /\ Submit(x, c, intent, granted)
    BY <1>2, <1>10
  <1>11. CASE \E x \in Caller : Finish(x)
    BY <1>1, <1>11
  <1> QED
    BY <1>3, <1>4, <1>5, <1>6, <1>7, <1>8, <1>9, <1>10, <1>11 DEF SiteNext

\* What installing an admission, and what recording its outcome, does.
LEMMA InstalledTable ==
    ASSUME TableOK, NEW new, IsAdmission(new), new.intent.key \notin DOMAIN admissions, ~Full,
           admissions' = Put(new)
    PROVE  /\ DOMAIN admissions' = DOMAIN admissions \cup {new.intent.key}
           /\ admissions'[new.intent.key] = new
           /\ \A key \in DOMAIN admissions : admissions'[key] = admissions[key]
           /\ IsFiniteSet(DOMAIN admissions')
           /\ Cardinality(DOMAIN admissions') <= MaxOperations
  <1>1. /\ DOMAIN admissions' = DOMAIN admissions \cup {new.intent.key}
        /\ admissions'[new.intent.key] = new
        /\ \A key \in DOMAIN admissions : admissions'[key] = admissions[key]
    BY DEF Put
  <1>2. /\ IsFiniteSet(DOMAIN admissions')
        /\ Cardinality(DOMAIN admissions') = Cardinality(DOMAIN admissions) + 1
    BY <1>1, FS_AddElement DEF TableOK
  <1>3. Cardinality(DOMAIN admissions) \in Nat
    BY FS_CardinalityType DEF TableOK
  <1>4. Cardinality(DOMAIN admissions) < MaxOperations
    BY <1>3, OperationAssumption DEF Full
  <1> QED
    BY <1>1, <1>2, <1>3, <1>4, OperationAssumption

\* Recording an outcome changes one admission, and of it the record.
LEMMA RecordedTable ==
    ASSUME TableOK, NEW key \in DOMAIN admissions, NEW r,
           admissions' = [admissions EXCEPT ![key].record = r]
    PROVE  /\ DOMAIN admissions' = DOMAIN admissions
           /\ IsAdmission(admissions'[key])
           /\ admissions'[key].record = r
           /\ \A f \in AdmissionFields : f # "record" => admissions'[key][f] = admissions[key][f]
           /\ \A k \in DOMAIN admissions : k # key => admissions'[k] = admissions[k]
  <1>1. IsAdmission(admissions[key])
    BY DEF TableOK
  <1>2. admissions'[key] = [admissions[key] EXCEPT !.record = r]
    OBVIOUS
  <1> QED
    BY <1>1, <1>2 DEF IsAdmission, AdmissionFields

\* The table keeps its shape and its bound.
LEMMA TableStep ==
    ASSUME TableOK, [SiteNext]_siteVars
    PROVE  TableOK'
  <1>1. /\ IsFiniteSet(DOMAIN admissions') /\ Cardinality(DOMAIN admissions') <= MaxOperations
        /\ \A key \in DOMAIN admissions' :
              IsAdmission(admissions'[key]) /\ admissions'[key].intent.key = key
    <2>1. CASE UNCHANGED admissions
      BY <2>1 DEF TableOK
    <2>2. ASSUME NEW new, IsAdmission(new), new.intent.key \notin DOMAIN admissions, ~Full,
                 admissions' = Put(new)
          PROVE  /\ IsFiniteSet(DOMAIN admissions')
                 /\ Cardinality(DOMAIN admissions') <= MaxOperations
                 /\ \A key \in DOMAIN admissions' :
                       IsAdmission(admissions'[key]) /\ admissions'[key].intent.key = key
      <3>1. /\ DOMAIN admissions' = DOMAIN admissions \cup {new.intent.key}
            /\ admissions'[new.intent.key] = new
            /\ \A key \in DOMAIN admissions : admissions'[key] = admissions[key]
            /\ IsFiniteSet(DOMAIN admissions')
            /\ Cardinality(DOMAIN admissions') <= MaxOperations
        BY <2>2, InstalledTable
      <3>2. \A key \in DOMAIN admissions :
               IsAdmission(admissions[key]) /\ admissions[key].intent.key = key
        BY DEF TableOK
      <3> QED
        BY <2>2, <3>1, <3>2
    <2>3. CASE Closes
      <3>1. PICK intent, error : /\ ~Full /\ intent.key \notin DOMAIN admissions
                                 /\ admissions' = Put(Rejected(intent, error))
        BY <2>3 DEF Closes
      <3>2. IsAdmission(Rejected(intent, error)) /\ Rejected(intent, error).intent = intent
        BY DEF IsAdmission, Rejected, AdmissionFields
      <3> QED
        BY <2>2, <3>1, <3>2
    <2>5. CASE Installs
      <3>1. PICK x \in Caller : /\ calls[x] # None /\ ~Full
                                /\ calls[x].intent.key \notin DOMAIN admissions
                                /\ admissions' = Put(calls[x])
        BY <2>5 DEF Installs
      <3>2. IsAdmission(calls[x])
        BY <3>1 DEF TableOK
      <3> QED
        BY <2>2, <3>1, <3>2
    <2>4. CASE Records
      <3>0. PICK key \in DOMAIN admissions :
               \E r : admissions' = [admissions EXCEPT ![key].record = r]
        BY <2>4 DEF Records
      <3>1. PICK r : admissions' = [admissions EXCEPT ![key].record = r]
        BY <3>0
      <3>2. /\ DOMAIN admissions' = DOMAIN admissions
            /\ IsAdmission(admissions'[key])
            /\ admissions'[key].intent = admissions[key].intent
            /\ \A k \in DOMAIN admissions : k # key => admissions'[k] = admissions[k]
        BY <3>1, RecordedTable DEF AdmissionFields
      <3> QED
        BY <3>2 DEF TableOK
    <2> QED
      BY <2>1, <2>3, <2>4, <2>5, TableSteps
  <1>2. /\ DOMAIN calls' = Caller
        /\ \A x \in Caller : calls'[x] # None => IsAdmission(calls'[x]) /\ calls'[x].record = None
    <2>1. CASE UNCHANGED calls
      BY <2>1 DEF TableOK
    <2>2. CASE \E x \in Caller : calls[x] # None /\ calls' = [calls EXCEPT ![x] = None]
      BY <2>2 DEF TableOK
    <2>3. ASSUME NEW x \in Caller, NEW s, NEW c, NEW intent, NEW granted,
                 AdmitNew(x, s, c, intent, granted)
          PROVE  /\ DOMAIN calls' = Caller
                 /\ \A y \in Caller : calls'[y] # None => /\ IsAdmission(calls'[y])
                                                          /\ calls'[y].record = None
      <3>1. PICK route : calls' = [calls EXCEPT ![x] = [intent |-> intent, at |-> c,
                            revisions |-> s.revisions, route |-> route, record |-> None]]
        BY <2>3 DEF AdmitNew
      <3> DEFINE new == [intent |-> intent, at |-> c, revisions |-> s.revisions, route |-> route,
                         record |-> None]
      <3>2. IsAdmission(new) /\ new.record = None
        BY DEF IsAdmission, AdmissionFields
      <3>3. calls' = [calls EXCEPT ![x] = new]
        BY <3>1
      <3> HIDE DEF new
      <3> QED
        BY <3>2, <3>3 DEF TableOK
    <2> QED
      BY <2>1, <2>2, <2>3, CallSteps
  <1> QED
    BY <1>1, <1>2 DEF TableOK

\* The table of admissions is well formed in every reachable state.
LEMMA TableHolds == SiteSpec => []TableOK
  <1>1. SiteInit => TableOK
    <2> SUFFICES ASSUME SiteInit PROVE TableOK
      OBVIOUS
    <2>1. DOMAIN admissions = {} /\ calls = [x \in Caller |-> None]
      BY DEF SiteInit, OperationInit
    <2> QED
      BY <2>1, FS_EmptySet, OperationAssumption DEF TableOK
  <1> QED
    BY <1>1, TableStep, PTL DEF SiteSpec

\* Of what an admission says, only its record is ever written.
LEMMA TableKeeps ==
    ASSUME TableOK, [SiteNext]_siteVars, NEW key \in DOMAIN admissions
    PROVE  /\ key \in DOMAIN admissions'
           /\ \A f \in AdmissionFields : f # "record" => admissions'[key][f] = admissions[key][f]
  <1>1. CASE UNCHANGED admissions
    BY <1>1
  <1>2. CASE Installs \/ Closes
    <2>1. key \in DOMAIN admissions' /\ admissions'[key] = admissions[key]
      BY <1>2 DEF Installs, Closes, Put, Rejected
    <2> QED
      BY <2>1
  <1>3. CASE Records
    <2>0. PICK k \in DOMAIN admissions : \E r : admissions' = [admissions EXCEPT ![k].record = r]
      BY <1>3 DEF Records
    <2>1. PICK r : admissions' = [admissions EXCEPT ![k].record = r]
      BY <2>0
    <2> QED
      BY <2>1, RecordedTable
  <1> QED
    BY <1>1, <1>2, <1>3, TableSteps

\* Admissions and their records are for good: no retry, race or late evidence
\* replaces one or makes it disappear.
THEOREM OutcomesStand == SiteSpec => OutcomesAreFinal
  <1> DEFINE Kept == \A key \in DOMAIN admissions :
          /\ key \in DOMAIN admissions'
          /\ [admissions'[key] EXCEPT !.record = None] = [admissions[key] EXCEPT !.record = None]
          /\ admissions[key].record # None => admissions'[key].record = admissions[key].record
  <1>1. ASSUME TableOK, [SiteNext]_siteVars PROVE Kept
    <2>1. CASE UNCHANGED admissions
      BY <2>1
    <2>2. CASE Installs \/ Closes
      <3>1. /\ DOMAIN admissions \subseteq DOMAIN admissions'
            /\ \A key \in DOMAIN admissions : admissions'[key] = admissions[key]
        BY <2>2 DEF Installs, Closes, Put, Rejected
      <3> QED
        BY <3>1
    <2>3. CASE Records
      <3>0. PICK key \in DOMAIN admissions :
               /\ admissions[key].record = None
               /\ \E r : admissions' = [admissions EXCEPT ![key].record = r]
        BY <2>3 DEF Records
      <3>1. PICK r : admissions' = [admissions EXCEPT ![key].record = r]
        BY <3>0
      <3>2. /\ DOMAIN admissions' = DOMAIN admissions
            /\ admissions'[key] = [admissions[key] EXCEPT !.record = r]
            /\ \A k \in DOMAIN admissions : k # key => admissions'[k] = admissions[k]
        BY <3>1
      <3>3. [admissions'[key] EXCEPT !.record = None] = [admissions[key] EXCEPT !.record = None]
        BY <3>2
      <3> QED
        BY <3>0, <3>2, <3>3
    <2> QED
      BY <1>1, <2>1, <2>2, <2>3, TableSteps
  <1> HIDE DEF Kept
  <1>2. SiteSpec => [][Kept]_siteVars
    BY <1>1, TableHolds, PTL DEF SiteSpec
  <1> QED
    BY <1>2, PTL DEF Kept, OutcomesAreFinal

-----------------------------------------------------------------------------
(* What callers are told. *)

\* An answer is given by Admit or Install, and comes from the table.
LEMMA AnswerSteps ==
    ASSUME [SiteNext]_siteVars
    PROVE  \/ UNCHANGED answered
           \/ \E key \in DOMAIN admissions :
                 /\ UNCHANGED admissions
                 /\ answered' = Answer(admissions[key])
           \/ \E new : /\ answered' = Answer(new) /\ admissions' = Put(new)
                       /\ new.intent.key \notin DOMAIN admissions
  <1>1. ASSUME NEW x \in Caller, Finish(x)
        PROVE  \/ UNCHANGED answered
               \/ \E key \in DOMAIN admissions :
                     UNCHANGED admissions /\ answered' = Answer(admissions[key])
               \/ \E new : /\ answered' = Answer(new) /\ admissions' = Put(new)
                           /\ new.intent.key \notin DOMAIN admissions
    BY <1>1 DEF Finish, Install
  <1>2. ASSUME NEW x \in Caller, NEW c, NEW intent, NEW granted, Submit(x, c, intent, granted)
        PROVE  \/ UNCHANGED answered
               \/ \E key \in DOMAIN admissions :
                     UNCHANGED admissions /\ answered' = Answer(admissions[key])
    BY <1>2 DEF Submit, Admit, AdmitKnown, AdmitNew, AdmitRefused, operationVars
  <1>3. ASSUME NEW intent, NEW error, Refuse(intent, error) PROVE UNCHANGED answered
    BY <1>3 DEF Refuse, RecordRejection
  <1>4. ASSUME NEW key, NEW outcome, NEW ack, NEW readback, NEW s,
               Report(key, outcome, ack, readback, s)
        PROVE  UNCHANGED answered
    BY <1>4 DEF Report, Record
  <1>5. ASSUME NEW b, Publish(b) PROVE UNCHANGED answered
    BY <1>5 DEF Publish, operationVars
  <1>6. ASSUME NEW x \in Caller, Fetch(x) PROVE UNCHANGED answered
    BY <1>6 DEF Fetch, operationVars
  <1>7. ASSUME NEW key, NEW c, NEW delivery, Dispatch(key, c, delivery) \/ Complete(key, c)
        PROVE  UNCHANGED answered
    BY <1>7 DEF Dispatch, Complete, operationVars
  <1>8. Tick => UNCHANGED answered
    BY DEF Tick, operationVars
  <1>9. UNCHANGED siteVars => UNCHANGED answered
    BY DEF siteVars, operationVars
  <1>10. CASE \E x \in Caller, c \in Contexts({KernelClock}), granted \in BOOLEAN :
                 \E intent : IsIntent(intent) /\ Submit(x, c, intent, granted)
    BY <1>2, <1>10
  <1>11. CASE \E x \in Caller : Finish(x)
    BY <1>1, <1>11
  <1> QED
    BY <1>3, <1>4, <1>5, <1>6, <1>7, <1>8, <1>9, <1>10, <1>11 DEF SiteNext

\* What was answered is what the table holds.
Answers ==
    \A a \in answered :
        /\ a.intent.key \in DOMAIN admissions
        /\ admissions[a.intent.key].intent = a.intent
        /\ admissions[a.intent.key].route = a.route

\* Whatever calls race for a key, everybody who was let through with an intent
\* holds the admission the table keeps for it, and the table stays within its
\* bound.
THEOREM AnswersNeverDiffer == SiteSpec => []AnswersAgree
  <1>1. SiteInit => Answers
    BY DEF SiteInit, OperationInit, Answers
  <1>2. ASSUME TableOK, Answers, [SiteNext]_siteVars PROVE Answers'
    \* The table keeps what it holds of an intent and its route.
    <2>1. \A key \in DOMAIN admissions :
             /\ key \in DOMAIN admissions'
             /\ admissions'[key].intent = admissions[key].intent
             /\ admissions'[key].route = admissions[key].route
      BY <1>2, TableKeeps DEF AdmissionFields
    <2>2. ASSUME NEW new, answered' = Answer(new), new.intent.key \in DOMAIN admissions',
                 admissions'[new.intent.key] = new
          PROVE  Answers'
      BY <1>2, <2>1, <2>2 DEF Answers, Answer
    <2>3. CASE UNCHANGED answered
      BY <1>2, <2>1, <2>3 DEF Answers
    <2>4. ASSUME NEW key \in DOMAIN admissions, UNCHANGED admissions,
                 answered' = Answer(admissions[key])
          PROVE  Answers'
      <3>1. admissions[key].intent.key = key
        BY <1>2 DEF TableOK
      <3> QED
        BY <2>2, <2>4, <3>1
    <2>5. ASSUME NEW new, answered' = Answer(new), admissions' = Put(new) PROVE Answers'
      <3>1. new.intent.key \in DOMAIN admissions' /\ admissions'[new.intent.key] = new
        BY <2>5 DEF Put
      <3> QED
        BY <2>2, <2>5, <3>1
    <2> QED
      BY <1>2, <2>3, <2>4, <2>5, AnswerSteps
  <1>3. TableOK /\ Answers => AnswersAgree
    BY DEF TableOK, Answers, AnswersAgree
  <1> QED
    BY <1>1, <1>2, <1>3, TableHolds, PTL DEF SiteSpec

-----------------------------------------------------------------------------
(* What the native owner started. *)

\* The owner's log only grows, by what it found admitted and guarded.
LEMMA NativeSteps ==
    ASSUME [SiteNext]_siteVars
    PROVE  \/ UNCHANGED native
           \/ \E key : \E c \in Contexts(OwnerClocks) : \E delivery : Dispatch(key, c, delivery)
           \/ \E key : \E c \in Contexts(OwnerClocks) : Complete(key, c)
  <1>1. ASSUME NEW x \in Caller, \/ Fetch(x)
                                \/ Finish(x)
                                \/ \E c, intent, granted : Submit(x, c, intent, granted)
        PROVE  UNCHANGED native
    BY <1>1 DEF Fetch, Finish, Submit
  <1>2. ASSUME NEW intent, NEW error, Refuse(intent, error) PROVE UNCHANGED native
    BY <1>2 DEF Refuse
  <1>3. ASSUME NEW key, NEW outcome, NEW ack, NEW readback, NEW s,
               Report(key, outcome, ack, readback, s)
        PROVE  UNCHANGED native
    BY <1>3 DEF Report
  <1>4. ASSUME NEW b, Publish(b) PROVE UNCHANGED native
    BY <1>4 DEF Publish
  <1>5. Tick => UNCHANGED native
    BY DEF Tick
  <1>6. UNCHANGED siteVars => UNCHANGED native
    BY DEF siteVars
  <1>7. CASE \E key : \E c \in Contexts(OwnerClocks) :
                Complete(key, c) \/ \E delivery : Dispatch(key, c, delivery)
    BY <1>7
  <1>8. CASE \E x \in Caller :
                \/ Fetch(x)
                \/ Finish(x)
                \/ \E c \in Contexts({KernelClock}), granted \in BOOLEAN :
                      \E intent : IsIntent(intent) /\ Submit(x, c, intent, granted)
    BY <1>1, <1>8
  <1> QED
    BY <1>2, <1>3, <1>4, <1>5, <1>6, <1>7, <1>8 DEF SiteNext

\* A rejection stands for an intent without a route; what was started has one.
StartedOnRoutes ==
    /\ DOMAIN native \subseteq DOMAIN admissions
    /\ \A key \in DOMAIN native : admissions[key].route # None
    /\ \A key \in DOMAIN admissions :
          (/\ admissions[key].record # None
           /\ admissions[key].record.outcome = "rejected") => admissions[key].route = None

\* A record made of evidence is not a rejection.
LEMMA EvidenceIsNoRejection ==
    ASSUME NEW key, NEW r, NEW s, RecordHolds(key, r, s)
    PROVE  r.outcome # "rejected"
  <1> SUFFICES ASSUME r.outcome = "rejected" PROVE FALSE
    OBVIOUS
  <1>1. WellFormed(r) /\ r.dispatch # None
    BY DEF RecordHolds
  <1>2. r["dispatch"] = None
    BY <1>1 DEF WellFormed
  <1> QED
    BY <1>1, <1>2

\* Nothing that could be started is closed as rejected.
LEMMA StartedStep ==
    ASSUME TableOK, StartedOnRoutes, [SiteNext]_siteVars
    PROVE  StartedOnRoutes'
  \* What a step does to routes and rejections.
  <1>3. \A key \in DOMAIN admissions :
           key \in DOMAIN admissions' /\ admissions'[key].route = admissions[key].route
    BY TableKeeps DEF AdmissionFields
  <1>1. \A key \in DOMAIN admissions' :
           (/\ admissions'[key].record # None
            /\ admissions'[key].record.outcome = "rejected") => admissions'[key].route = None
    <2>1. CASE UNCHANGED admissions
      BY <2>1 DEF StartedOnRoutes
    <2>2. CASE Installs
      <3>1. PICK x \in Caller : /\ calls[x] # None /\ ~Full
                                /\ calls[x].intent.key \notin DOMAIN admissions
                                /\ admissions' = Put(calls[x])
        BY <2>2 DEF Installs
      <3>2. /\ DOMAIN admissions' = DOMAIN admissions \cup {calls[x].intent.key}
            /\ admissions'[calls[x].intent.key] = calls[x]
            /\ \A key \in DOMAIN admissions : admissions'[key] = admissions[key]
        BY <3>1 DEF Put
      <3>3. calls[x].record = None
        BY <3>1 DEF TableOK
      <3> QED
        BY <3>2, <3>3 DEF StartedOnRoutes
    <2>3. CASE Closes
      <3>1. PICK intent, error : /\ intent.key \notin DOMAIN admissions
                                 /\ admissions' = Put(Rejected(intent, error))
        BY <2>3 DEF Closes
      <3> DEFINE new == Rejected(intent, error)
      <3>2. new.intent = intent /\ new.route = None
        BY DEF Rejected
      <3>3. admissions' = Put(new)
        BY <3>1
      <3> HIDE DEF new
      <3>4. /\ DOMAIN admissions' = DOMAIN admissions \cup {intent.key}
            /\ admissions'[intent.key] = new
            /\ \A key \in DOMAIN admissions : admissions'[key] = admissions[key]
        BY <3>1, <3>2, <3>3 DEF Put
      <3> QED
        BY <3>2, <3>4 DEF StartedOnRoutes
    <2>4. CASE Records
      <3>0. PICK key \in DOMAIN admissions :
               \E r, s : /\ RecordHolds(key, r, s)
                         /\ admissions' = [admissions EXCEPT ![key].record = r]
        BY <2>4 DEF Records
      <3>1. PICK r, s : /\ RecordHolds(key, r, s)
                        /\ admissions' = [admissions EXCEPT ![key].record = r]
        BY <3>0
      <3>2. /\ DOMAIN admissions' = DOMAIN admissions
            /\ admissions'[key].record = r
            /\ admissions'[key].route = admissions[key].route
            /\ \A k \in DOMAIN admissions : k # key => admissions'[k] = admissions[k]
        BY <3>1, RecordedTable DEF AdmissionFields
      <3>3. r.outcome # "rejected"
        BY <3>1, EvidenceIsNoRejection
      <3> QED
        BY <3>2, <3>3 DEF StartedOnRoutes
    <2> QED
      BY <2>1, <2>2, <2>3, <2>4, TableSteps
  \* What it does to the log.
  <1>2. \/ UNCHANGED native
        \/ \E key \in DOMAIN admissions : /\ admissions[key].route # None
                                          /\ DOMAIN native' = DOMAIN native \cup {key}
        \/ DOMAIN native' = DOMAIN native
    <2>1. ASSUME NEW key, NEW c, NEW delivery, Dispatch(key, c, delivery)
          PROVE  /\ key \in DOMAIN admissions /\ admissions[key].route # None
                 /\ DOMAIN native' = DOMAIN native \cup {key}
      BY <2>1 DEF Dispatch, GuardsHold
    <2>2. ASSUME NEW key, NEW c, Complete(key, c) PROVE DOMAIN native' = DOMAIN native
      BY <2>2 DEF Complete
    <2> QED
      BY <2>1, <2>2, NativeSteps
  <1> QED
    BY <1>1, <1>2, <1>3 DEF StartedOnRoutes

\* What the native owner started is never on record as rejected.
THEOREM NothingRunIsRejected == SiteSpec => []RejectedIsNeverRun
  <1>1. SiteInit => StartedOnRoutes
    BY DEF SiteInit, OperationInit, StartedOnRoutes
  <1>2. StartedOnRoutes => RejectedIsNeverRun
    BY DEF StartedOnRoutes, RejectedIsNeverRun
  <1> QED
    BY <1>1, <1>2, StartedStep, TableHolds, PTL DEF SiteSpec

-----------------------------------------------------------------------------
(* The kernel, among the others. *)

\* Every capability is served on its own binding.
Served ==
    \A id \in DOMAIN capabilities :
        /\ capabilities[id].service \in DOMAIN services
        /\ services[capabilities[id].service].binding = capabilities[id].binding

\* The kernel moves by publications only, and accepts them as it does alone.
LEMMA KernelSteps ==
    ASSUME [SiteNext]_siteVars
    PROVE  \/ UNCHANGED vars
           \/ \E b \in HonestBatches :
                 /\ Commit(b, MonoAt(KernelClock, now))
                 /\ UNCHANGED <<admissions, calls, answered, now, held, native>>
  <1>1. ASSUME NEW x \in Caller, \/ Fetch(x)
                                \/ Finish(x)
                                \/ \E c, intent, granted : Submit(x, c, intent, granted)
        PROVE  UNCHANGED vars
    BY <1>1 DEF Fetch, Finish, Submit
  <1>2. ASSUME NEW intent, NEW error, Refuse(intent, error) PROVE UNCHANGED vars
    BY <1>2 DEF Refuse
  <1>3. ASSUME NEW key, NEW outcome, NEW ack, NEW readback, NEW s,
               Report(key, outcome, ack, readback, s)
        PROVE  UNCHANGED vars
    BY <1>3 DEF Report
  <1>4. ASSUME NEW b, Publish(b)
        PROVE  /\ Commit(b, MonoAt(KernelClock, now))
               /\ UNCHANGED <<admissions, calls, answered, now, held, native>>
    BY <1>4 DEF Publish, operationVars
  <1>5. Tick => UNCHANGED vars
    BY DEF Tick
  <1>6. UNCHANGED siteVars => UNCHANGED vars
    BY DEF siteVars
  <1>7. CASE \E key : \E c \in Contexts(OwnerClocks) :
                Complete(key, c) \/ \E delivery : Dispatch(key, c, delivery)
    BY <1>7 DEF Complete, Dispatch
  <1>8. CASE \E x \in Caller :
                \/ Fetch(x)
                \/ Finish(x)
                \/ \E c \in Contexts({KernelClock}), granted \in BOOLEAN :
                      \E intent : IsIntent(intent) /\ Submit(x, c, intent, granted)
    BY <1>1, <1>8
  <1> QED
    BY <1>2, <1>3, <1>4, <1>5, <1>6, <1>7, <1>8 DEF SiteNext

\* True time stays in its range and does not run backwards.
LEMMA TimeSteps ==
    ASSUME now \in 0..MaxNow, [SiteNext]_siteVars
    PROVE  /\ now' \in 0..MaxNow /\ now <= now'
           /\ now' # now => UNCHANGED <<vars, operationVars, held, native>>
  <1>1. MaxNow \in Nat
    BY SiteAssumption
  <1>2. now' = now \/ (Tick /\ now' = now + 1)
    <2>1. ASSUME NEW x \in Caller, \/ Fetch(x)
                                  \/ Finish(x)
                                  \/ \E c, intent, granted : Submit(x, c, intent, granted)
          PROVE  now' = now
      BY <2>1 DEF Fetch, Finish, Submit
    <2>2. ASSUME NEW intent, NEW error, Refuse(intent, error) PROVE now' = now
      BY <2>2 DEF Refuse
    <2>3. ASSUME NEW key, NEW outcome, NEW ack, NEW readback, NEW s,
                 Report(key, outcome, ack, readback, s)
          PROVE  now' = now
      BY <2>3 DEF Report
    <2>4. ASSUME NEW b, Publish(b) PROVE now' = now
      BY <2>4 DEF Publish
    <2>5. Tick => now' = now + 1
      BY DEF Tick
    <2>6. UNCHANGED siteVars => now' = now
      BY DEF siteVars
    <2>7. CASE \E key : \E c \in Contexts(OwnerClocks) :
                  Complete(key, c) \/ \E delivery : Dispatch(key, c, delivery)
      BY <2>7 DEF Complete, Dispatch
    <2>8. CASE \E x \in Caller :
                  \/ Fetch(x)
                  \/ Finish(x)
                  \/ \E c \in Contexts({KernelClock}), granted \in BOOLEAN :
                        \E intent : IsIntent(intent) /\ Submit(x, c, intent, granted)
      BY <2>1, <2>8
    <2> QED
      BY <2>2, <2>3, <2>4, <2>5, <2>6, <2>7, <2>8 DEF SiteNext
  <1>3. Tick => now < MaxNow /\ UNCHANGED <<vars, operationVars, held, native>>
    BY DEF Tick
  <1> QED
    BY <1>1, <1>2, <1>3

\* The point a publication is dated with is one the kernel knows.
LEMMA PublishedNow ==
    ASSUME now \in 0..MaxNow
    PROVE  MonoAt(KernelClock, now) \in MonotonicPoint
  BY SiteAssumption DEF MonoAt

\* A committed snapshot serves every capability it has.
LEMMA CommitServes ==
    ASSUME NEW b, NEW m, Commit(b, m)
    PROVE  Served'
  <1>1. ContentErrors(b, m) = {}
    BY AcceptedBatch DEF Commit, ApplyToErrors
  <1>2. \A id \in DOMAIN PostCapabilities(b) :
           /\ PostCapabilities(b)[id].service \in DOMAIN PostServices(b)
           /\ PostServices(b)[PostCapabilities(b)[id].service].binding
                 = PostCapabilities(b)[id].binding
    BY <1>1, Zenon DEF ContentErrors, Flag
  <1> QED
    BY <1>2 DEF Commit, Served

KernelAtSite == KernelInv /\ Served /\ now \in 0..MaxNow

\* The publication kernel of a site is one that Publication specifies.
LEMMA KernelAtSiteHolds == SiteSpec => []KernelAtSite
  <1>1. SiteInit => KernelAtSite
    <2> SUFFICES ASSUME SiteInit PROVE KernelAtSite
      OBVIOUS
    <2>1. KernelInv
      BY InitIsTyped, InitIsValid DEF SiteInit, KernelInv
    <2>2. Served /\ now \in 0..MaxNow
      BY SiteAssumption DEF SiteInit, Init, Served
    <2> QED
      BY <2>1, <2>2 DEF KernelAtSite
  <1>2. KernelAtSite /\ [SiteNext]_siteVars => KernelAtSite'
    <2> SUFFICES ASSUME KernelAtSite, [SiteNext]_siteVars PROVE KernelAtSite'
      OBVIOUS
    <2>1. now' \in 0..MaxNow
      BY TimeSteps DEF KernelAtSite
    <2>2. CASE UNCHANGED vars
      BY <2>1, <2>2 DEF vars, KernelAtSite, KernelInv, TypeOK, Valid, Served, IsMap
    <2>3. ASSUME NEW b \in HonestBatches, Commit(b, MonoAt(KernelClock, now)) PROVE KernelAtSite'
      <3>1. b \in Batch /\ MonoAt(KernelClock, now) \in MonotonicPoint
        BY PublishedNow DEF HonestBatches, KernelAtSite
      <3>2. TypeOK' /\ Valid' /\ Served'
        BY <2>3, <3>1, CommitKeepsTypes, CommitIsValid, CommitServes DEF KernelAtSite, KernelInv
      <3> QED
        BY <2>1, <3>2 DEF KernelAtSite, KernelInv
    <2> QED
      BY <2>2, <2>3, KernelSteps
  <1> QED
    BY <1>1, <1>2, PTL DEF SiteSpec

-----------------------------------------------------------------------------
(* A snapshot a caller holds, and what has become of it. *)

\* Snapshot s was current once: its revisions are behind, a component whose
\* revision has not moved is as it was, and its bindings are where they were.
Past(s) ==
    /\ s.revisions = [f \in DOMAIN s.revisions |-> s.revisions[f]]
    /\ s.revisions.semantic \in 1..revisions.semantic
    /\ \A f \in {"identity", "services", "capabilities"} :
          s.revisions[f] \in Nat /\ s.revisions[f] <= revisions[f]
    /\ s.revisions.capabilities = revisions.capabilities => s.capabilities = capabilities
    /\ s.revisions.services = revisions.services => s.services = services
    /\ s.revisions.identity = revisions.identity =>
          s.sources = sources /\ s.bindings = bindings /\ s.links = links
    /\ \A id \in DOMAIN s.bindings :
          id \in DOMAIN bindings /\ KeyOf(bindings[id]) = KeyOf(s.bindings[id])

\* The snapshot of now is one.
LEMMA SnapshotIsPast ==
    ASSUME KernelInv, revisions.semantic > 0
    PROVE  Past(Snapshot)
  <1>1. /\ \A f \in {"semantic", "identity", "services", "capabilities"} : revisions[f] \in Nat
        /\ revisions = [f \in DOMAIN revisions |-> revisions[f]]
    BY MaxUint64Assumption DEF KernelInv, TypeOK
  <1>2. /\ Snapshot.revisions = revisions /\ Snapshot.capabilities = capabilities
        /\ Snapshot.services = services /\ Snapshot.sources = sources
        /\ Snapshot.bindings = bindings /\ Snapshot.links = links
    BY DEF Snapshot
  <1>3. /\ \A f \in {"identity", "services", "capabilities"} :
              revisions[f] \in Nat /\ revisions[f] <= revisions[f]
        /\ revisions.semantic \in 1..revisions.semantic
    BY <1>1
  <1> QED
    BY <1>1, <1>2, <1>3 DEF Past

\* A commit moves the revision of what it changes.
LEMMA CommitCounts ==
    ASSUME KernelInv, NEW b \in Batch, NEW m, Commit(b, m), revisions.semantic > 0
    PROVE  /\ revisions'.semantic = revisions.semantic + 1
           /\ \A f \in {"identity", "services", "capabilities"} :
                 revisions[f] \in Nat /\ revisions'[f] \in {revisions[f], revisions[f] + 1}
           /\ revisions'.capabilities = revisions.capabilities => capabilities' = capabilities
           /\ revisions'.services = revisions.services => services' = services
           /\ revisions'.identity = revisions.identity =>
                 sources' = sources /\ bindings' = bindings /\ links' = links
  <1>1. \A f \in {"semantic", "identity", "services", "capabilities"} : revisions[f] \in Nat
    BY MaxUint64Assumption DEF KernelInv, TypeOK
  <1>2. revisions' = PostRevisions(b, m)
    BY DEF Commit
  <1> DEFINE identity == NextRevision(\/ PostSources(b) # sources \/ PostBindings(b) # bindings
                                      \/ PostLinks(b) # links \/ PostFences(b) # fences,
                                      revisions.identity)
             facts == NextRevision(\/ PostCandidates(b) # candidates
                                   \/ PostEnvelopes(b) # envelopes
                                   \/ PostRetained(b, m) # retained, revisions.facts)
             served == NextRevision(PostServices(b) # services, revisions.services)
             capable == NextRevision(PostCapabilities(b) # capabilities, revisions.capabilities)
  <1>3. revisions' = [semantic |-> revisions.semantic + 1, identity |-> identity,
                      facts |-> facts, services |-> served, capabilities |-> capable]
    <2>1. revisions.semantic # 0
      BY <1>1
    <2> QED
      BY <1>2, <2>1, Zenon DEF PostRevisions
  <1>4. \A changed, r : r \in Nat => /\ NextRevision(changed, r) \in {r, r + 1}
                                     /\ NextRevision(changed, r) = r => ~changed
    BY DEF NextRevision
  <1>5. /\ sources' = PostSources(b) /\ bindings' = PostBindings(b) /\ links' = PostLinks(b)
        /\ services' = PostServices(b) /\ capabilities' = PostCapabilities(b)
    BY DEF Commit
  <1>6. /\ identity \in {revisions.identity, revisions.identity + 1}
        /\ identity = revisions.identity => sources' = sources /\ bindings' = bindings /\ links' = links
    BY <1>1, <1>4, <1>5
  <1>7. /\ served \in {revisions.services, revisions.services + 1}
        /\ served = revisions.services => services' = services
    BY <1>1, <1>4, <1>5
  <1>8. /\ capable \in {revisions.capabilities, revisions.capabilities + 1}
        /\ capable = revisions.capabilities => capabilities' = capabilities
    BY <1>1, <1>4, <1>5
  <1> HIDE DEF identity, facts, served, capable
  <1>9. /\ revisions'.semantic = revisions.semantic + 1 /\ revisions'.identity = identity
        /\ revisions'.services = served /\ revisions'.capabilities = capable
    BY <1>3
  <1> QED
    BY <1>1, <1>6, <1>7, <1>8, <1>9

\* Once current, always past.
LEMMA PastStaysPast ==
    ASSUME KernelInv, NEW b \in Batch, NEW m, Commit(b, m), NEW s, Past(s)
    PROVE  Past(s)'
  <1>1. revisions.semantic \in Nat /\ revisions.semantic > 0
    BY MaxUint64Assumption DEF Past, KernelInv, TypeOK
  <1>2. /\ revisions'.semantic = revisions.semantic + 1
        /\ \A f \in {"identity", "services", "capabilities"} :
              revisions[f] \in Nat /\ revisions'[f] \in {revisions[f], revisions[f] + 1}
        /\ revisions'.capabilities = revisions.capabilities => capabilities' = capabilities
        /\ revisions'.services = revisions.services => services' = services
        /\ revisions'.identity = revisions.identity =>
              sources' = sources /\ bindings' = bindings /\ links' = links
    BY <1>1, CommitCounts
  <1>3. \A id \in DOMAIN bindings : id \in DOMAIN bindings' /\ KeyOf(bindings'[id]) = KeyOf(bindings[id])
    BY CommitKeepsTombstones DEF TombstonesStay
  <1>4. s.revisions.semantic \in 1..revisions'.semantic
    BY <1>1, <1>2 DEF Past
  <1>5. \A f \in {"identity", "services", "capabilities"} :
           /\ s.revisions[f] \in Nat /\ s.revisions[f] <= revisions'[f]
           /\ s.revisions[f] = revisions'[f] =>
                 s.revisions[f] = revisions[f] /\ revisions'[f] = revisions[f]
    BY <1>2 DEF Past
  <1>6. /\ s.revisions.capabilities = revisions'.capabilities => s.capabilities = capabilities'
        /\ s.revisions.services = revisions'.services => s.services = services'
        /\ s.revisions.identity = revisions'.identity =>
              s.sources = sources' /\ s.bindings = bindings' /\ s.links = links'
    BY <1>2, <1>5 DEF Past
  <1>7. \A id \in DOMAIN s.bindings :
           id \in DOMAIN bindings' /\ KeyOf(bindings'[id]) = KeyOf(s.bindings[id])
    BY <1>3 DEF Past
  <1> QED
    BY <1>4, <1>5, <1>6, <1>7 DEF Past

\* A caller comes to hold what is current.
LEMMA HeldSteps ==
    ASSUME [SiteNext]_siteVars
    PROVE  \/ UNCHANGED held
           \/ \E x \in Caller : /\ revisions.semantic > 0
                                /\ held' = [held EXCEPT ![x] = Snapshot]
                                /\ UNCHANGED <<vars, operationVars, now, native>>
  <1>1. ASSUME NEW x \in Caller, Finish(x) \/ \E c, intent, granted : Submit(x, c, intent, granted)
        PROVE  UNCHANGED held
    BY <1>1 DEF Finish, Submit
  <1>2. ASSUME NEW intent, NEW error, Refuse(intent, error) PROVE UNCHANGED held
    BY <1>2 DEF Refuse
  <1>3. ASSUME NEW key, NEW outcome, NEW ack, NEW readback, NEW s,
               Report(key, outcome, ack, readback, s)
        PROVE  UNCHANGED held
    BY <1>3 DEF Report
  <1>4. ASSUME NEW b, Publish(b) PROVE UNCHANGED held
    BY <1>4 DEF Publish
  <1>5. Tick => UNCHANGED held
    BY DEF Tick
  <1>6. UNCHANGED siteVars => UNCHANGED held
    BY DEF siteVars
  <1>7. CASE \E key : \E c \in Contexts(OwnerClocks) :
                Complete(key, c) \/ \E delivery : Dispatch(key, c, delivery)
    BY <1>7 DEF Complete, Dispatch
  <1>8. ASSUME NEW x \in Caller, Fetch(x)
        PROVE  /\ revisions.semantic > 0 /\ held' = [held EXCEPT ![x] = Snapshot]
               /\ UNCHANGED <<vars, operationVars, now, native>>
    BY <1>8 DEF Fetch
  <1>9. CASE \E x \in Caller :
                \/ Fetch(x)
                \/ Finish(x)
                \/ \E c \in Contexts({KernelClock}), granted \in BOOLEAN :
                      \E intent : IsIntent(intent) /\ Submit(x, c, intent, granted)
    BY <1>1, <1>8, <1>9
  <1> QED
    BY <1>2, <1>3, <1>4, <1>5, <1>6, <1>7, <1>9 DEF SiteNext

\* Whatever happens, what was current is past.
LEMMA PastStep ==
    ASSUME KernelAtSite, [SiteNext]_siteVars, NEW s, Past(s)
    PROVE  Past(s)'
  <1>1. CASE UNCHANGED vars
    BY <1>1 DEF vars, Past
  <1>2. ASSUME NEW b \in HonestBatches, Commit(b, MonoAt(KernelClock, now)) PROVE Past(s)'
    BY <1>2, PastStaysPast DEF KernelAtSite, HonestBatches
  <1> QED
    BY <1>1, <1>2, KernelSteps

\* The admission's route could carry its intent in a snapshot that was current.
Routed(a) ==
    a.route # None =>
        \E s : /\ Past(s)
               /\ s.revisions = a.revisions
               /\ s.revisions.capabilities = a.intent.capabilities
               /\ \E id \in Routes(s, a.intent) : a.route = RouteVia(s, id)

\* ... and that remains so.
LEMMA RoutedStep ==
    ASSUME KernelAtSite, [SiteNext]_siteVars, NEW a, Routed(a)
    PROVE  Routed(a)'
  <1> SUFFICES ASSUME a.route # None
               PROVE  \E s : /\ Past(s)'
                             /\ s.revisions = a.revisions
                             /\ s.revisions.capabilities = a.intent.capabilities
                             /\ \E id \in Routes(s, a.intent) : a.route = RouteVia(s, id)
    BY DEF Routed
  <1>1. PICK s : /\ Past(s)
                 /\ s.revisions = a.revisions
                 /\ s.revisions.capabilities = a.intent.capabilities
                 /\ \E id \in Routes(s, a.intent) : a.route = RouteVia(s, id)
    BY DEF Routed
  <1>2. Past(s)'
    BY <1>1, PastStep
  <1> QED
    BY <1>1, <1>2

\* What Admit lets through is routed.
LEMMA AdmittedIsRouted ==
    ASSUME NEW x \in Caller, NEW s, NEW c, NEW intent, NEW granted, DOMAIN calls = Caller,
           Past(s), AdmitNew(x, s, c, intent, granted)
    PROVE  Routed(calls'[x])
  <1> DEFINE id == CHOOSE i \in Routes(s, intent) : TRUE
             new == [intent |-> intent, at |-> c, revisions |-> s.revisions,
                     route |-> RouteVia(s, id), record |-> None]
  <1>1. AdmissionErrors(s, c, intent, granted) = {}
    BY DEF AdmitNew
  <1>2. Cardinality(Routes(s, intent)) = 1 /\ s.revisions.capabilities = intent.capabilities
    BY <1>1 DEF AdmissionErrors, Flag
  <1>3. id \in Routes(s, intent)
    <2>1. Routes(s, intent) # {}
      BY <1>2, FS_EmptySet
    <2> QED
      BY <2>1
  <1>4. calls'[x] = new
    BY DEF AdmitNew
  <1>5. /\ new.intent = intent /\ new.revisions = s.revisions /\ new.route = RouteVia(s, id)
    OBVIOUS
  <1> HIDE DEF id, new
  <1> QED
    BY <1>2, <1>3, <1>4, <1>5 DEF Routed

\* Callers hold snapshots that were current, and what they prepared and were
\* answered is routed.
RoutesKnown ==
    /\ DOMAIN held = Caller
    /\ \A x \in Caller : held[x] # None => Past(held[x])
    /\ \A x \in Caller : calls[x] # None => Routed(calls[x])
    /\ \A key \in DOMAIN admissions : Routed(admissions[key])

\* No step of the site forgets a route that somebody was admitted on.
LEMMA RoutesKnownStep ==
    ASSUME KernelAtSite, TableOK, RoutesKnown, [SiteNext]_siteVars
    PROVE  RoutesKnown'
  <1>1. DOMAIN held' = Caller /\ \A x \in Caller : held'[x] # None => Past(held[x])'
    <2>1. ASSUME NEW x \in Caller, held'[x] # None, held'[x] = held[x] PROVE Past(held[x])'
      <3>1. PICK s : s = held[x]
        OBVIOUS
      <3>2. Past(s)
        BY <2>1, <3>1 DEF RoutesKnown
      <3>3. Past(s)'
        BY <3>2, PastStep
      <3> QED
        BY <2>1, <3>1, <3>3 DEF Past
    <2>2. ASSUME NEW x \in Caller, revisions.semantic > 0,
                 UNCHANGED <<vars, operationVars, now, native>>, held'[x] = Snapshot
          PROVE  Past(held[x])'
      <3>1. PICK s : s = Snapshot
        OBVIOUS
      <3>2. Past(s)
        BY <2>2, <3>1, SnapshotIsPast DEF KernelAtSite
      <3>3. Past(s)'
        BY <3>2, PastStep
      <3> QED
        BY <2>2, <3>1, <3>3 DEF Past
    <2>3. CASE UNCHANGED held
      BY <2>1, <2>3 DEF RoutesKnown
    <2>4. ASSUME NEW x \in Caller, revisions.semantic > 0, held' = [held EXCEPT ![x] = Snapshot],
                 UNCHANGED <<vars, operationVars, now, native>>
          PROVE  DOMAIN held' = Caller /\ \A y \in Caller : held'[y] # None => Past(held[y])'
      <3>1. /\ DOMAIN held' = Caller /\ held'[x] = Snapshot
            /\ \A y \in Caller \ {x} : held'[y] = held[y]
        BY <2>4 DEF RoutesKnown
      <3> QED
        BY <2>1, <2>2, <2>4, <3>1
    <2> QED
      BY <2>3, <2>4, HeldSteps
  \* Only the route, the intent and the revisions of an admission count.
  <1>2. ASSUME NEW a, NEW r, Routed(a), r.route = a.route, r.intent = a.intent,
               r.revisions = a.revisions
        PROVE  Routed(r)
    BY <1>2 DEF Routed
  <1>3. \A a : Routed(a) => Routed(a)'
    BY RoutedStep
  <1>4. \A x \in Caller : calls'[x] # None => Routed(calls'[x])
    <2>1. CASE UNCHANGED calls
      BY <2>1 DEF RoutesKnown
    <2>2. CASE \E x \in Caller : calls[x] # None /\ calls' = [calls EXCEPT ![x] = None]
      BY <2>2 DEF RoutesKnown, TableOK
    <2>3. ASSUME NEW x \in Caller, NEW c, NEW intent, NEW granted, held[x] # None,
                 AdmitNew(x, held[x], c, intent, granted)
          PROVE  \A y \in Caller : calls'[y] # None => Routed(calls'[y])
      <3>1. PICK s : s = held[x]
        OBVIOUS
      <3>2. Routed(calls'[x])
        BY <2>3, <3>1, AdmittedIsRouted DEF RoutesKnown, TableOK
      <3>3. \A y \in Caller \ {x} : calls'[y] = calls[y]
        BY <2>3 DEF AdmitNew
      <3> QED
        BY <3>2, <3>3 DEF RoutesKnown
    <2> QED
      BY <2>1, <2>2, <2>3, CallSteps
  <1>5. \A key \in DOMAIN admissions' : Routed(admissions'[key])
    <2>1. CASE UNCHANGED admissions
      BY <2>1 DEF RoutesKnown
    <2>2. CASE Installs
      <3>1. PICK x \in Caller : calls[x] # None /\ admissions' = Put(calls[x])
        BY <2>2 DEF Installs
      <3>2. Routed(calls[x])
        BY <3>1 DEF RoutesKnown
      <3>3. \A key \in DOMAIN admissions' :
               \/ admissions'[key] = calls[x]
               \/ key \in DOMAIN admissions /\ admissions'[key] = admissions[key]
        BY <3>1 DEF Put
      <3> QED
        BY <3>2, <3>3 DEF RoutesKnown
    <2>3. CASE Closes
      <3>1. PICK intent, error : admissions' = Put(Rejected(intent, error))
        BY <2>3 DEF Closes
      <3>2. Rejected(intent, error).route = None
        BY DEF Rejected
      <3>3. Routed(Rejected(intent, error))
        BY <3>2 DEF Routed
      <3>4. \A key \in DOMAIN admissions' :
               \/ admissions'[key] = Rejected(intent, error)
               \/ key \in DOMAIN admissions /\ admissions'[key] = admissions[key]
        BY <3>1 DEF Put
      <3> QED
        BY <3>3, <3>4 DEF RoutesKnown
    <2>4. CASE Records
      <3>0. PICK key \in DOMAIN admissions :
               \E r : admissions' = [admissions EXCEPT ![key].record = r]
        BY <2>4 DEF Records
      <3>1. PICK r : admissions' = [admissions EXCEPT ![key].record = r]
        BY <3>0
      <3>2. /\ DOMAIN admissions' = DOMAIN admissions
            /\ admissions'[key].route = admissions[key].route
            /\ admissions'[key].intent = admissions[key].intent
            /\ admissions'[key].revisions = admissions[key].revisions
            /\ \A k \in DOMAIN admissions : k # key => admissions'[k] = admissions[k]
        BY <3>1, RecordedTable DEF AdmissionFields
      <3>3. Routed(admissions'[key])
        BY <3>2 DEF RoutesKnown, Routed
      <3> QED
        BY <3>2, <3>3 DEF RoutesKnown
    <2> QED
      BY <2>1, <2>2, <2>3, <2>4, TableSteps
  <1>6. /\ \A x \in Caller : calls'[x] # None => Routed(calls[x])'
        /\ \A key \in DOMAIN admissions' : Routed(admissions[key])'
    <2>1. ASSUME NEW x \in Caller, calls'[x] # None PROVE Routed(calls[x])'
      <3>1. PICK a : a = calls'[x]
        OBVIOUS
      <3>2. Routed(a)'
        BY <1>3, <1>4, <2>1, <3>1
      <3> QED
        BY <3>1, <3>2 DEF Routed, Past
    <2>2. ASSUME NEW key \in DOMAIN admissions' PROVE Routed(admissions[key])'
      <3>1. PICK a : a = admissions'[key]
        OBVIOUS
      <3>2. Routed(a)'
        BY <1>3, <1>5, <3>1
      <3> QED
        BY <3>1, <3>2 DEF Routed, Past
    <2> QED
      BY <2>1, <2>2
  <1> QED
    BY <1>1, <1>6 DEF RoutesKnown

\* So routes are known in every reachable state.
LEMMA RoutesKnownHolds == SiteSpec => []RoutesKnown
  <1>1. SiteInit => RoutesKnown
    <2> SUFFICES ASSUME SiteInit PROVE RoutesKnown
      OBVIOUS
    <2>1. /\ DOMAIN admissions = {} /\ calls = [x \in Caller |-> None]
          /\ held = [x \in Caller |-> None]
      BY DEF SiteInit, OperationInit
    <2> QED
      BY <2>1 DEF RoutesKnown
  <1> QED
    BY <1>1, RoutesKnownStep, KernelAtSiteHolds, TableHolds, PTL DEF SiteSpec

\* What a valid snapshot says of the objects on a binding.
LEMMA ValidObjects ==
    ASSUME Valid
    PROVE  \A id \in DOMAIN services :
              /\ services[id].binding \in DOMAIN bindings
              /\ bindings[services[id].binding].epoch = services[id].epoch
              /\ bindings[services[id].binding].gen = services[id].gen
  <1>1. LifecycleErrors(sources, fences, cursors, bindings, links, services, capabilities) = {}
    BY DEF Valid, SnapshotErrors
  <1> QED
    BY <1>1, Zenon DEF LifecycleErrors, Flag

\* What stands between a snapshot and an intent depends on five collections.
LEMMA SameRouteErrors ==
    ASSUME NEW s, NEW t, NEW intent, NEW id,
           s.capabilities = t.capabilities, s.bindings = t.bindings, s.services = t.services,
           s.links = t.links, s.sources = t.sources
    PROVE  RouteErrors(s, intent, id) = RouteErrors(t, intent, id)
  BY DEF RouteErrors

\* A capability that can carry an intent is the one asked for, on a binding of
\* the intent's epoch and generation.
LEMMA RouteFacts ==
    ASSUME NEW s, NEW intent, NEW id, RouteErrors(s, intent, id) = {}
    PROVE  /\ s.capabilities[id].binding \in DOMAIN s.bindings
           /\ s.capabilities[id].epoch = intent.epoch
           /\ s.bindings[s.capabilities[id].binding].epoch = intent.epoch
           /\ s.capabilities[id].gen = intent.gen
           /\ s.bindings[s.capabilities[id].binding].gen = intent.gen
           /\ id \notin intent.unmet
  BY DEF RouteErrors, Flag

\* On a capability that is the one asked for, on a current path of the intent's
\* epoch and generation, only the link and the service are left to fail.
LEMMA OnlyUnguarded ==
    ASSUME NEW s, NEW intent, NEW id, NEW cap, NEW bnd, NEW svc,
           cap = s.capabilities[id], bnd = s.bindings[cap.binding], svc = s.services[cap.service],
           cap.binding \in DOMAIN s.bindings, cap.service \in DOMAIN s.services,
           cap.revision = intent.capRevision,
           {bnd.epoch, cap.epoch, svc.epoch} = {intent.epoch},
           {bnd.gen, cap.gen, svc.gen} = {intent.gen},
           bnd.state = "current",
           <<bnd.source, bnd.epoch>> \in DOMAIN s.sources,
           s.sources[<<bnd.source, bnd.epoch>>].state = "current",
           id \notin intent.unmet
    PROVE  RouteErrors(s, intent, id) \subseteq Unguarded
  <1>1. /\ Flag(cap.revision # intent.capRevision, "revision_conflict") = {}
        /\ Flag(\/ {bnd.epoch, cap.epoch, svc.epoch} # {intent.epoch}
                \/ <<bnd.source, bnd.epoch>> \notin DOMAIN s.sources
                \/ s.sources[<<bnd.source, bnd.epoch>>].state # "current"
                \/ bnd.state = "retired", "stale_source_epoch") = {}
        /\ Flag(\/ {bnd.gen, cap.gen, svc.gen} # {intent.gen}
                \/ bnd.state = "fenced", "stale_driver_generation") = {}
        /\ Flag(id \in intent.unmet, "ambiguous_route") = {}
    BY DEF Flag
  <1>2. \A c : /\ Flag(c, "identity_not_qualified") \subseteq Unguarded
               /\ Flag(c, "capability_not_qualified") \subseteq Unguarded
               /\ Flag(c, "capability_unavailable") \subseteq Unguarded
    BY DEF Flag, Unguarded
  <1> QED
    BY <1>1, <1>2 DEF RouteErrors

\* While the guard claims of an admission hold, its route is what it was, and
\* only what they leave unguarded can keep it from carrying the intent.
LEMMA GuardsCover ==
    ASSUME KernelAtSite, NEW a, Routed(a), GuardsHold(a, Snapshot)
    PROVE  /\ RouteVia(Snapshot, a.route.capability) = a.route
           /\ RouteErrors(Snapshot, a.intent, a.route.capability) \subseteq Unguarded
           /\ (/\ revisions.identity = a.revisions.identity
               /\ revisions.services = a.revisions.services)
                 => RouteErrors(Snapshot, a.intent, a.route.capability) = {}
  <1>1. /\ Snapshot.revisions = revisions /\ Snapshot.capabilities = capabilities
        /\ Snapshot.services = services /\ Snapshot.sources = sources
        /\ Snapshot.bindings = bindings /\ Snapshot.links = links /\ Snapshot.fences = fences
    BY DEF Snapshot
  <1>2. /\ a.route # None
        /\ a.route.capability \in DOMAIN capabilities
        /\ capabilities[a.route.capability].revision = a.intent.capRevision
        /\ revisions.capabilities = a.intent.capabilities
        /\ bindings[a.route.binding].state = "current"
        /\ sources[<<a.route.source, a.route.epoch>>].state = "current"
    BY <1>1 DEF GuardsHold
  <1>3. PICK s, id : /\ Past(s)
                     /\ s.revisions = a.revisions
                     /\ s.revisions.capabilities = a.intent.capabilities
                     /\ id \in Routes(s, a.intent)
                     /\ a.route = RouteVia(s, id)
    BY <1>2 DEF Routed
  <1> DEFINE cap == capabilities[id]
             bnd == bindings[cap.binding]
             svc == services[cap.service]
  <1>4. /\ s.capabilities = capabilities
        /\ \A i \in DOMAIN s.bindings :
              i \in DOMAIN bindings /\ KeyOf(bindings[i]) = KeyOf(s.bindings[i])
    BY <1>2, <1>3 DEF Past
  <1>5. /\ a.route.capability = id /\ a.route.service = cap.service
        /\ a.route.binding = cap.binding /\ a.route.epoch = cap.epoch /\ a.route.gen = cap.gen
        /\ a.route.source = s.bindings[cap.binding].source
    BY <1>3, <1>4 DEF RouteVia
  <1>6. /\ RouteErrors(s, a.intent, id) = {} /\ id \in DOMAIN capabilities
    BY <1>3, <1>4 DEF Routes
  <1>7. /\ cap.binding \in DOMAIN s.bindings
        /\ cap.epoch = a.intent.epoch /\ s.bindings[cap.binding].epoch = a.intent.epoch
        /\ cap.gen = a.intent.gen /\ s.bindings[cap.binding].gen = a.intent.gen
        /\ id \notin a.intent.unmet
    BY <1>4, <1>6, RouteFacts
  <1>8. /\ cap.binding \in DOMAIN bindings
        /\ bnd.source = a.route.source /\ bnd.epoch = a.intent.epoch /\ bnd.gen = a.intent.gen
    <2>1. KeyOf(bnd) = KeyOf(s.bindings[cap.binding]) /\ cap.binding \in DOMAIN bindings
      BY <1>4, <1>7
    <2> QED
      BY <1>5, <1>7, <2>1 DEF KeyOf
  <1>9. /\ cap.service \in DOMAIN services /\ svc.binding = cap.binding
        /\ svc.epoch = bnd.epoch /\ svc.gen = bnd.gen
    <2>1. cap.service \in DOMAIN services /\ svc.binding = cap.binding
      BY <1>6 DEF KernelAtSite, Served
    <2> QED
      BY <2>1, ValidObjects DEF KernelAtSite, KernelInv
  <1>10. <<bnd.source, bnd.epoch>> \in DOMAIN sources
    BY <1>8, ValidPaths DEF KernelAtSite, KernelInv
  <1>11. RouteVia(Snapshot, id) = a.route
    <2>1. RouteVia(s, id) = [capability |-> id, service |-> cap.service, binding |-> cap.binding,
                             source |-> bnd.source, epoch |-> cap.epoch, gen |-> cap.gen]
      BY <1>4, <1>5, <1>8 DEF RouteVia
    <2>2. RouteVia(Snapshot, id) =
             [capability |-> id, service |-> cap.service, binding |-> cap.binding,
              source |-> bnd.source, epoch |-> cap.epoch, gen |-> cap.gen]
      BY <1>1 DEF RouteVia
    <2> QED
      BY <1>3, <2>1, <2>2
  <1>12. /\ cap.revision = a.intent.capRevision
         /\ bnd.state = "current" /\ sources[<<bnd.source, bnd.epoch>>].state = "current"
    BY <1>2, <1>5, <1>7, <1>8
  <1>13. RouteErrors(Snapshot, a.intent, id) \subseteq Unguarded
    <2>1. /\ {bnd.epoch, cap.epoch, svc.epoch} = {a.intent.epoch}
          /\ {bnd.gen, cap.gen, svc.gen} = {a.intent.gen}
      BY <1>7, <1>8, <1>9
    <2> QED
      BY <1>1, <1>7, <1>8, <1>9, <1>10, <1>12, <2>1, OnlyUnguarded
  <1>14. ASSUME revisions.identity = a.revisions.identity,
                revisions.services = a.revisions.services
         PROVE  RouteErrors(Snapshot, a.intent, id) = {}
    <2>1. /\ s.services = services /\ s.sources = sources /\ s.bindings = bindings
          /\ s.links = links
      BY <1>3, <1>14 DEF Past
    <2> QED
      BY <1>1, <1>4, <1>6, <2>1, SameRouteErrors
  <1> QED
    BY <1>5, <1>11, <1>13, <1>14

\* Guard claims cover the route of an admission, but for its identity link and
\* its service, which nothing but their revisions pins.
THEOREM GuardsCoverRoutes == SiteSpec => []GuardsCoverTheRoute
  <1>1. KernelAtSite /\ RoutesKnown => GuardsCoverTheRoute
    BY GuardsCover DEF RoutesKnown, GuardsCoverTheRoute
  <1> QED
    BY <1>1, KernelAtSiteHolds, RoutesKnownHolds, PTL

-----------------------------------------------------------------------------
(* Clocks. *)

\* A point read off honest clocks: its UTC reading is no further from the time
\* its monotonic clock tells than the uncertainty it states.
IsReading(c) ==
    /\ c.mono.epoch \in DOMAIN ClockStart /\ c.mono.ns \in Int
    /\ c.wall = [f \in {"clock", "ns", "unc"} |-> c.wall[f]]
    /\ c.wall.clock = UTC /\ c.wall.ns \in Int /\ c.wall.unc \in Nat
    /\ c.wall.ns \in TrueTime(c.mono) - c.wall.unc .. TrueTime(c.mono) + c.wall.unc

\* A reading is of one true time, which its wall clock is near.
LEMMA ReadingsHaveTimes ==
    ASSUME NEW c, IsReading(c)
    PROVE  /\ TrueTime(c.mono) \in Int /\ ClockStart[c.mono.epoch] \in Int
           /\ c.wall.ns - c.wall.unc <= TrueTime(c.mono)
           /\ TrueTime(c.mono) <= c.wall.ns + c.wall.unc
           /\ c.wall.ns + c.wall.unc <= TrueTime(c.mono) + 2 * c.wall.unc
           /\ c.wall.ns - c.wall.unc >= TrueTime(c.mono) - 2 * c.wall.unc
  <1>1. ClockStart[c.mono.epoch] \in Int /\ TrueTime(c.mono) \in Int
    BY SiteAssumption DEF IsReading, TrueTime
  <1> DEFINE t == TrueTime(c.mono)
  <1>2. /\ c.wall.ns \in Int /\ c.wall.unc \in Nat
        /\ t - c.wall.unc <= c.wall.ns /\ c.wall.ns <= t + c.wall.unc
    BY <1>1 DEF IsReading
  <1> HIDE DEF t
  <1>3. t \in Int
    BY <1>1 DEF t
  <1>4. /\ c.wall.ns - c.wall.unc <= t
        /\ t <= c.wall.ns + c.wall.unc
        /\ c.wall.ns + c.wall.unc <= t + 2 * c.wall.unc
        /\ c.wall.ns - c.wall.unc >= t - 2 * c.wall.unc
    BY <1>2, <1>3
  <1> QED
    BY <1>1, <1>4 DEF t

\* What the clocks of an epoch and a UTC clock show at time t is a reading.
LEMMA ReadAtTime ==
    ASSUME NEW t \in Int, NEW e \in DOMAIN ClockStart, NEW w \in WallAt(t), NEW c,
           c.mono = MonoAt(e, t), c.wall = w
    PROVE  IsReading(c) /\ TrueTime(c.mono) = t
  <1>1. ClockStart[e] \in Int
    BY SiteAssumption
  <1>2. c.mono.epoch = e /\ c.mono.ns = t - ClockStart[e]
    BY DEF MonoAt
  <1>3. TrueTime(c.mono) = t
    BY <1>1, <1>2 DEF TrueTime
  <1>4. PICK r \in Reading : w = [clock |-> UTC, ns |-> t + r.off, unc |-> r.unc]
    BY DEF WallAt
  <1>5. r.unc \in Nat /\ r.off \in -r.unc .. r.unc
    BY SiteAssumption
  <1>6. /\ w.clock = UTC /\ w.ns = t + r.off /\ w.unc = r.unc
        /\ w = [f \in {"clock", "ns", "unc"} |-> w[f]]
    BY <1>4
  <1>7. w.ns \in Int /\ w.ns \in t - w.unc .. t + w.unc
    BY <1>5, <1>6
  <1> QED
    BY <1>1, <1>2, <1>3, <1>5, <1>6, <1>7 DEF IsReading

\* What the clocks of a participant show now is a reading of now.
LEMMA ContextsAreReadings ==
    ASSUME now \in Int, NEW epochs, epochs \subseteq DOMAIN ClockStart, NEW c \in Contexts(epochs)
    PROVE  IsReading(c) /\ TrueTime(c.mono) = now
  <1>1. PICK w \in WallAt(now), e \in epochs : c = [wall |-> w, mono |-> MonoAt(e, now)]
    BY DEF Contexts
  <1>2. c.wall = w /\ c.mono = MonoAt(e, now)
    BY <1>1
  <1> QED
    BY <1>2, ReadAtTime

\* Everything the operation kernel and the owner dated was read off honest
\* clocks, in the order admission, start, completion.
DatesOK ==
    /\ \A x \in Caller :
          calls[x] # None => IsReading(calls[x].at) /\ TrueTime(calls[x].at.mono) <= now
    /\ \A key \in DOMAIN admissions : admissions[key].route # None =>
          IsReading(admissions[key].at) /\ TrueTime(admissions[key].at.mono) <= now
    /\ \A key \in DOMAIN native :
          /\ native[key] = [f \in {"delivery", "started", "completed"} |-> native[key][f]]
          /\ IsReading(native[key].started)
          /\ TrueTime(admissions[key].at.mono) <= TrueTime(native[key].started.mono)
          /\ TrueTime(native[key].started.mono) <= now
          /\ native[key].completed # None =>
                IsReading(native[key].completed) /\ TrueTime(native[key].completed.mono) <= now

\* No step of the site puts a date on what happened at another time.
LEMMA DatesStep ==
    ASSUME now \in 0..MaxNow, TableOK, StartedOnRoutes, DatesOK, [SiteNext]_siteVars
    PROVE  DatesOK'
  <1>1. now \in Int /\ now' \in Int /\ now <= now'
    BY TimeSteps, SiteAssumption
  <1>2. \A c : IsReading(c) /\ TrueTime(c.mono) <= now => TrueTime(c.mono) <= now'
    BY <1>1, ReadingsHaveTimes
  <1>3. \A x \in Caller :
           calls'[x] # None => IsReading(calls'[x].at) /\ TrueTime(calls'[x].at.mono) <= now'
    <2>1. CASE UNCHANGED calls
      BY <1>2, <2>1 DEF DatesOK
    <2>2. CASE \E x \in Caller : calls[x] # None /\ calls' = [calls EXCEPT ![x] = None]
      BY <1>2, <2>2 DEF DatesOK, TableOK
    <2>3. ASSUME NEW x \in Caller, NEW s, NEW c \in Contexts({KernelClock}), NEW intent,
                 NEW granted, AdmitNew(x, s, c, intent, granted)
          PROVE  \A y \in Caller :
                    calls'[y] # None => IsReading(calls'[y].at) /\ TrueTime(calls'[y].at.mono) <= now'
      <3>1. calls'[x].at = c /\ \A y \in Caller \ {x} : calls'[y] = calls[y]
        BY <2>3 DEF AdmitNew, TableOK
      <3>2. IsReading(c) /\ TrueTime(c.mono) = now
        BY <1>1, SiteAssumption, ContextsAreReadings
      <3> QED
        BY <1>1, <1>2, <3>1, <3>2 DEF DatesOK
    <2> QED
      BY <2>1, <2>2, <2>3, CallSteps
  <1>4. \A key \in DOMAIN admissions :
           /\ key \in DOMAIN admissions' /\ admissions'[key].at = admissions[key].at
           /\ admissions'[key].route = admissions[key].route
    BY TableKeeps DEF AdmissionFields
  <1>5. \A key \in DOMAIN admissions' : admissions'[key].route # None =>
           IsReading(admissions'[key].at) /\ TrueTime(admissions'[key].at.mono) <= now'
    <2>1. ASSUME NEW key \in DOMAIN admissions, admissions'[key].route # None
          PROVE  IsReading(admissions'[key].at) /\ TrueTime(admissions'[key].at.mono) <= now'
      BY <1>2, <1>4, <2>1 DEF DatesOK
    <2>2. CASE UNCHANGED admissions \/ Records
      BY <2>1, <2>2 DEF Records
    <2>3. CASE Installs
      <3>1. PICK x \in Caller : calls[x] # None /\ admissions' = Put(calls[x])
        BY <2>3 DEF Installs
      <3>2. IsReading(calls[x].at) /\ TrueTime(calls[x].at.mono) <= now'
        BY <1>2, <3>1 DEF DatesOK
      <3>3. \A key \in DOMAIN admissions' : key \in DOMAIN admissions \/ admissions'[key] = calls[x]
        BY <3>1 DEF Put
      <3> QED
        BY <2>1, <3>2, <3>3
    <2>4. CASE Closes
      <3>1. PICK intent, error : admissions' = Put(Rejected(intent, error))
        BY <2>4 DEF Closes
      <3>2. Rejected(intent, error).route = None
        BY DEF Rejected
      <3>3. \A key \in DOMAIN admissions' :
               key \in DOMAIN admissions \/ admissions'[key] = Rejected(intent, error)
        BY <3>1 DEF Put
      <3> QED
        BY <2>1, <3>2, <3>3
    <2> QED
      BY <2>2, <2>3, <2>4, TableSteps
  <1> DEFINE Logged(n, a, t) ==
               /\ n = [f \in {"delivery", "started", "completed"} |-> n[f]]
               /\ IsReading(n.started)
               /\ TrueTime(a.mono) <= TrueTime(n.started.mono)
               /\ TrueTime(n.started.mono) <= t
               /\ n.completed # None =>
                     IsReading(n.completed) /\ TrueTime(n.completed.mono) <= t
  <1>6. \A key \in DOMAIN native' : Logged(native'[key], admissions'[key].at, now')
    <2>1. \A key \in DOMAIN native : Logged(native[key], admissions'[key].at, now')
      BY <1>2, <1>4 DEF DatesOK, StartedOnRoutes
    <2>2. CASE UNCHANGED native
      BY <2>1, <2>2
    <2>3. ASSUME NEW key, NEW c \in Contexts(OwnerClocks), NEW delivery, Dispatch(key, c, delivery)
          PROVE  \A k \in DOMAIN native' : Logged(native'[k], admissions'[k].at, now')
      <3> DEFINE new == [delivery |-> delivery, started |-> c, completed |-> None]
      <3>1. /\ DOMAIN native' = DOMAIN native \cup {key} /\ native'[key] = new
            /\ \A k \in DOMAIN native \ {key} : native'[k] = native[k]
            /\ key \in DOMAIN admissions /\ admissions[key].route # None
        BY <2>3 DEF Dispatch, GuardsHold
      <3>2. /\ new = [f \in {"delivery", "started", "completed"} |-> new[f]]
            /\ new.started = c /\ new.completed = None
        OBVIOUS
      <3>3. IsReading(c) /\ TrueTime(c.mono) = now
        BY <1>1, SiteAssumption, ContextsAreReadings
      <3>4. TrueTime(admissions'[key].at.mono) <= now
        BY <1>4, <3>1 DEF DatesOK
      <3> HIDE DEF new
      <3>5. Logged(new, admissions'[key].at, now')
        BY <1>1, <3>2, <3>3, <3>4
      <3> QED
        BY <2>1, <3>1, <3>5
    <2>4. ASSUME NEW key, NEW c \in Contexts(OwnerClocks), Complete(key, c)
          PROVE  \A k \in DOMAIN native' : Logged(native'[k], admissions'[k].at, now')
      <3>1. /\ key \in DOMAIN native /\ DOMAIN native' = DOMAIN native
            /\ native' = [native EXCEPT ![key].completed = c]
        BY <2>4 DEF Complete
      <3>2. native[key] = [f \in {"delivery", "started", "completed"} |-> native[key][f]]
        BY <3>1 DEF DatesOK
      <3>3. /\ native'[key] = [f \in {"delivery", "started", "completed"} |-> native'[key][f]]
            /\ native'[key].started = native[key].started /\ native'[key].completed = c
            /\ \A k \in DOMAIN native \ {key} : native'[k] = native[k]
        BY <3>1, <3>2
      <3>4. IsReading(c) /\ TrueTime(c.mono) = now
        BY <1>1, SiteAssumption, ContextsAreReadings
      <3>5. Logged(native[key], admissions'[key].at, now')
        BY <2>1, <3>1
      <3>6. Logged(native'[key], admissions'[key].at, now')
        BY <1>1, <3>3, <3>4, <3>5
      <3> QED
        BY <2>1, <3>1, <3>3, <3>6
    <2> QED
      BY <2>2, <2>3, <2>4, NativeSteps
  <1> QED
    BY <1>3, <1>5, <1>6 DEF DatesOK

\* So dates are readings in every reachable state.
LEMMA DatesHold == SiteSpec => [](StartedOnRoutes /\ DatesOK)
  <1>1. SiteInit => StartedOnRoutes /\ DatesOK
    <2> SUFFICES ASSUME SiteInit PROVE StartedOnRoutes /\ DatesOK
      OBVIOUS
    <2>1. /\ DOMAIN admissions = {} /\ DOMAIN native = {} /\ calls = [x \in Caller |-> None]
      BY DEF SiteInit, OperationInit
    <2> QED
      BY <2>1 DEF StartedOnRoutes, DatesOK
  <1>2. KernelAtSite => now \in 0..MaxNow
    BY DEF KernelAtSite
  <1> QED
    BY <1>1, <1>2, StartedStep, DatesStep, TableHolds, KernelAtSiteHolds, PTL DEF SiteSpec

-----------------------------------------------------------------------------
(* Closing an operation. *)

\* The absent member: no record and no other function is taken for it, nor is the
\* relation "confirms", which a readback that was made can have.
\* (It is a nil pointer in the code and a model value in TLC.)
NoneIsNothing == None # [x \in DOMAIN None |-> None[x]] /\ None # "confirms"

\* A start whose order after its admission is plain is chronological to the code.
LEMMA PlainIsChronological ==
    ASSUME NEW a, NEW start, IsReading(a), IsReading(start),
           TrueTime(a.mono) <= TrueTime(start.mono), PlainOrder(a, start)
    PROVE  Chronological(a, start)
  <1>1. CASE a.mono.epoch = start.mono.epoch
    <2>1. start.mono.ns >= a.mono.ns
      BY <1>1, ReadingsHaveTimes DEF IsReading, TrueTime
    <2> QED
      BY <1>1, <2>1 DEF Chronological
  <1>2. CASE a.mono.epoch # start.mono.epoch
    <2> DEFINE s == TrueTime(start.mono)
               t == TrueTime(a.mono)
               u == a.wall.unc
               v == start.wall.unc
               p == a.wall.ns
               q == start.wall.ns
    <2>1. /\ s \in Int /\ t \in Int /\ u \in Int /\ v \in Int /\ p \in Int /\ q \in Int
          /\ s - t >= 2 * (u + v)
          /\ p + u <= t + 2 * u
          /\ q - v >= s - 2 * v
      BY <1>2, ReadingsHaveTimes DEF IsReading, PlainOrder
    <2> HIDE DEF s, t, u, v, p, q
    <2>2. q - v >= p + u
      BY <2>1
    <2>3. start.wall.ns - start.wall.unc >= a.wall.ns + a.wall.unc
      BY <2>2 DEF u, v, p, q
    <2> QED
      BY <1>2, <2>3 DEF Chronological, WallChronological, IsReading
  <1> QED
    BY <1>1, <1>2

\* Whatever has become of its route, a started operation whose order is plain
\* can be closed with what its owner knows.
THEOREM OperationsClose ==
    ASSUME NoneIsNothing
    PROVE  SiteSpec => []OperationsCanBeClosed
  <1> DEFINE Known(key) ==
               [RecordOf(key, IF native[key].delivery = "not_sent"
                              THEN "failed_no_contact" ELSE "indeterminate",
                         None, None) EXCEPT !.dispatch.completed = None]
  <1>1. TableOK /\ StartedOnRoutes /\ DatesOK /\ RoutesKnown => OperationsCanBeClosed
    <2> SUFFICES ASSUME TableOK, StartedOnRoutes, DatesOK, RoutesKnown,
                        NEW key \in DOMAIN native,
                        PlainOrder(admissions[key].at, native[key].started)
                 PROVE  RecordHolds(key, Known(key), None)
      BY DEF OperationsCanBeClosed
    <2> DEFINE a == admissions[key]
               n == native[key]
               outcome == IF n.delivery = "not_sent" THEN "failed_no_contact" ELSE "indeterminate"
               d == [delivery |-> n.delivery, possible |-> n.delivery # "not_sent",
                     started |-> n.started, completed |-> None]
               r == [intent |-> a.intent, at |-> a.at.wall, revisions |-> a.revisions,
                     route |-> a.route, dispatch |-> d, ack |-> None, readback |-> None,
                     outcome |-> outcome, error |-> None]
    <2>1. Known(key) = r
      BY DEF RecordOf, DispatchOf
    <2>2. /\ key \in DOMAIN admissions /\ a.route # None /\ a.intent.key = key
          /\ IsReading(a.at) /\ IsReading(n.started)
          /\ TrueTime(a.at.mono) <= TrueTime(n.started.mono)
      BY DEF TableOK, StartedOnRoutes, DatesOK
    <2>3. \A x : x = [f \in DOMAIN x |-> x[f]] => x # None
      BY DEF NoneIsNothing
    <2>4. a.revisions # None
      BY <2>2, <2>3 DEF RoutesKnown, Routed, Past
    <2>5. a.at.wall # None
      BY <2>2, <2>3 DEF IsReading
    <2>6. /\ d.delivery = n.delivery /\ d.possible = (n.delivery # "not_sent")
          /\ d.started = n.started /\ d.completed = None /\ d # None
      <3>1. d = [f \in {"delivery", "possible", "started", "completed"} |-> d[f]]
        OBVIOUS
      <3> QED
        BY <2>3, <3>1
    <2>7. Chronological(a.at, n.started)
      BY <2>2, PlainIsChronological
    <2>8. /\ r.intent = a.intent /\ r.at = a.at.wall /\ r.revisions = a.revisions
          /\ r.route = a.route /\ r.dispatch = d /\ r.ack = None /\ r.readback = None
          /\ r.outcome = outcome /\ r.error = None
      OBVIOUS
    <2> HIDE DEF d, r
    <2>9. WellFormed(r)
      <3>1. Supported(r)
        BY <2>6, <2>8 DEF Supported
      <3>2. r.outcome # "rejected"
        BY <2>8
      <3> HIDE DEF outcome
      <3> QED
        BY <2>2, <2>4, <2>5, <2>6, <2>8, <3>1, <3>2 DEF WellFormed
    <2>10. SameAdmission(r, a)
      BY <2>8 DEF SameAdmission
    <2> QED
      BY <2>1, <2>2, <2>6, <2>7, <2>8, <2>9, <2>10 DEF RecordHolds
  <1> QED
    BY <1>1, TableHolds, DatesHold, RoutesKnownHolds, PTL

-----------------------------------------------------------------------------
(* What snapshots show was dated honestly. *)

\* The times of an observation were read off honest clocks.
Dated(times) == IsReading([wall |-> times.receivedAt, mono |-> times.receipt])

DatedFacts(cands) ==
    /\ IsFiniteSet(DOMAIN cands)
    /\ \A id \in DOMAIN cands :
          cands[id].value \in Value /\ cands[id].policy \in Policy /\ Dated(cands[id].times)

FactsDated ==
    /\ DOMAIN held = Caller
    /\ DatedFacts(candidates)
    /\ \A x \in Caller : held[x] # None => DatedFacts(held[x].candidates)

\* A commit brings in facts of the batch, and those were dated honestly.
LEMMA CommitDates ==
    ASSUME KernelInv, NEW b \in HonestBatches, NEW m, Commit(b, m), DatedFacts(candidates),
           now \in Int, TypeOK'
    PROVE  DatedFacts(candidates')
  <1>1. b \in Batch /\ candidates' = PostCandidates(b)
    BY DEF HonestBatches, Commit
  <1>2. ASSUME NEW id \in DOMAIN candidates'
        PROVE  \/ id \in DOMAIN b.factUpserts /\ candidates'[id] = b.factUpserts[id]
               \/ id \in DOMAIN candidates /\ candidates'[id] = candidates[id]
    <2>1. id \in DOMAIN StagedCandidates(b) /\ candidates'[id] = StagedCandidates(b)[id]
      BY <1>1 DEF PostCandidates, Closed
    <2>2. id \in DOMAIN With(candidates, b.factUpserts)
          /\ StagedCandidates(b)[id] = With(candidates, b.factUpserts)[id]
      BY <2>1 DEF StagedCandidates, Without
    <2> QED
      BY <2>1, <2>2 DEF With
  <1>3. ASSUME NEW id \in DOMAIN b.factUpserts PROVE Dated(b.factUpserts[id].times)
    <2> DEFINE times == b.factUpserts[id].times
               c == [wall |-> times.receivedAt, mono |-> times.receipt]
    <2>1. PICK t \in Int, e \in DOMAIN ClockStart :
             times.receipt = MonoAt(e, t) /\ times.receivedAt \in WallAt(t)
      BY DEF HonestBatches, DatedHonestly
    <2>2. c.mono = MonoAt(e, t) /\ c.wall \in WallAt(t)
      BY <2>1
    <2> HIDE DEF c
    <2>3. IsReading(c)
      BY <2>2, ReadAtTime
    <2> QED
      BY <2>3 DEF Dated, c
  <1>4. \A id \in DOMAIN candidates' : candidates'[id].value \in Value /\ candidates'[id].policy \in Policy
    BY DEF TypeOK, IsMap, CandidateRecord, ObservedRecord, InferredRecord
  <1>5. IsFiniteSet(DOMAIN candidates')
    BY PublicationAssumption, FS_Subset DEF TypeOK, IsMap
  <1> QED
    BY <1>2, <1>3, <1>4, <1>5 DEF DatedFacts

\* Nor does one publish a fact that is dated otherwise.
LEMMA FactsDatedStep ==
    ASSUME KernelAtSite, KernelAtSite', FactsDated, [SiteNext]_siteVars
    PROVE  FactsDated'
  <1>1. DatedFacts(candidates')
    <2>1. CASE UNCHANGED vars
      BY <2>1 DEF vars, FactsDated
    <2>2. ASSUME NEW b \in HonestBatches, Commit(b, MonoAt(KernelClock, now))
          PROVE  DatedFacts(candidates')
      <3>1. now \in Int
        BY SiteAssumption DEF KernelAtSite
      <3> QED
        BY <2>2, <3>1, CommitDates DEF KernelAtSite, KernelInv, FactsDated
    <2> QED
      BY <2>1, <2>2, KernelSteps
  <1>2. DOMAIN held' = Caller /\ \A x \in Caller : held'[x] # None => DatedFacts(held'[x].candidates)
    <2>1. Snapshot.candidates = candidates
      BY DEF Snapshot
    <2>2. CASE UNCHANGED held
      BY <2>2 DEF FactsDated
    <2>3. ASSUME NEW x \in Caller, held' = [held EXCEPT ![x] = Snapshot]
          PROVE  DOMAIN held' = Caller /\ \A y \in Caller : held'[y] # None => DatedFacts(held'[y].candidates)
      <3>1. /\ DOMAIN held' = Caller /\ held'[x] = Snapshot
            /\ \A y \in Caller \ {x} : held'[y] = held[y]
        BY <2>3 DEF FactsDated
      <3> QED
        BY <2>1, <3>1 DEF FactsDated
    <2> QED
      BY <2>2, <2>3, HeldSteps
  <1> QED
    BY <1>1, <1>2 DEF FactsDated

\* So published facts carry readings in every reachable state.
LEMMA FactsAreDated == SiteSpec => []FactsDated
  <1>1. SiteInit => FactsDated
    <2> SUFFICES ASSUME SiteInit PROVE FactsDated
      OBVIOUS
    <2>1. DOMAIN candidates = {} /\ held = [x \in Caller |-> None]
      BY DEF SiteInit, Init
    <2> QED
      BY <2>1, FS_EmptySet DEF FactsDated, DatedFacts
  <1> QED
    BY <1>1, FactsDatedStep, KernelAtSiteHolds, PTL DEF SiteSpec

\* What the code takes for a receipt after a native call is one.
LEMMA ReceiptIsAfter ==
    ASSUME NEW c, NEW times, IsReading(c), Dated(times), ReceiptAfter(c, times)
    PROVE  TrueTime(times.receipt) > TrueTime(c.mono)
  <1> DEFINE d == [wall |-> times.receivedAt, mono |-> times.receipt]
  <1>1. d.wall = times.receivedAt /\ d.mono = times.receipt
    OBVIOUS
  <1>2. IsReading(d)
    BY DEF Dated
  <1> HIDE DEF d
  <1>3. /\ TrueTime(c.mono) \in Int /\ ClockStart[c.mono.epoch] \in Int
        /\ TrueTime(c.mono) <= c.wall.ns + c.wall.unc
        /\ TrueTime(d.mono) \in Int
        /\ d.wall.ns - d.wall.unc <= TrueTime(d.mono)
    BY <1>2, ReadingsHaveTimes
  <1>4. CASE c.mono.epoch = times.receipt.epoch
    BY <1>1, <1>2, <1>3, <1>4 DEF ReceiptAfter, TrueTime, IsReading
  <1>5. CASE c.mono.epoch # times.receipt.epoch
    <2>1. d.wall.ns - d.wall.unc > c.wall.ns + c.wall.unc
      BY <1>1, <1>5 DEF ReceiptAfter, WallChronological
    <2>2. d.wall.ns - d.wall.unc \in Int /\ c.wall.ns + c.wall.unc \in Int
      BY <1>2 DEF IsReading
    <2>3. TrueTime(d.mono) > TrueTime(c.mono)
      BY <1>3, <2>1, <2>2
    <2> QED
      BY <1>1, <2>3
  <1> QED
    BY <1>4, <1>5

\* A relation is not the absence of one.
LEMMA NoneIsNoWord ==
    ASSUME NoneIsNothing
    PROVE  "confirms" # None
  BY DEF NoneIsNothing

\* The evidence of an operation recorded as applied.
LEMMA AppliedEvidence ==
    ASSUME NoneIsNothing, NEW key, NEW r, NEW s, RecordHolds(key, r, s), r.outcome = "applied"
    PROVE  /\ s # None /\ r.dispatch.completed # None
           /\ s.revisions = r.readback.revisions
           /\ r.readback.cand \in DOMAIN s.candidates
           /\ PathOf(s.candidates[r.readback.cand])
                 = <<r.route.binding, r.route.source, r.route.epoch, r.route.gen>>
           /\ ReceiptAfter(r.dispatch.completed, s.candidates[r.readback.cand].times)
           /\ r.intent.judge[s.candidates[r.readback.cand].value] = "confirms"
  <1>1. /\ r.dispatch.completed # None
        /\ (IF r.readback = None THEN None ELSE r.readback.relation) = "confirms"
    <2>1. WellFormed(r)
      BY DEF RecordHolds
    <2>2. Supported(r)
      BY <2>1 DEF WellFormed
    <2> QED
      BY <2>2 DEF Supported
  <1>2. r.readback # None /\ r.readback.relation = "confirms"
    <2>2. CASE r.readback = None
      BY <1>1, <2>2, NoneIsNoWord
    <2>3. CASE r.readback # None
      BY <1>1, <2>3
    <2> QED
      BY <2>2, <2>3
  <1>3. s # None /\ ReadbackHolds(r, s)
    BY <1>2 DEF RecordHolds
  <1> QED
    BY <1>1, <1>2, <1>3 DEF ReadbackHolds

\* An operation is recorded as applied only on what the driver of its route
\* really received after the native call had really ended.
THEOREM AppliedOperationsWereSeen ==
    ASSUME NoneIsNothing
    PROVE  SiteSpec => AppliedWasSeen
  <1> DEFINE Seen(key) ==
          LET r == admissions'[key].record
          IN  admissions[key].record = None /\ r # None /\ r.outcome = "applied" =>
                 \E x \in Caller :
                    /\ held[x] # None /\ held[x].revisions = r.readback.revisions
                    /\ LET c == held[x].candidates[r.readback.cand]
                       IN  /\ PathOf(c) = <<r.route.binding, r.route.source, r.route.epoch,
                                            r.route.gen>>
                           /\ TrueTime(c.times.receipt) > TrueTime(native[key].completed.mono)
                           /\ r.intent.judge[c.value] = "confirms"
             AllSeen == \A key \in DOMAIN admissions : Seen(key)
  <1>1. ASSUME TableOK, DatesOK, FactsDated, [SiteNext]_siteVars, NEW key \in DOMAIN admissions
        PROVE  Seen(key)
    <2>1. CASE admissions'[key] = admissions[key]
      BY <2>1
    <2>2. CASE admissions'[key] # admissions[key]
      <3>1. Records
        <4>1. ASSUME NEW new, new.intent.key \notin DOMAIN admissions, admissions' = Put(new)
              PROVE  admissions'[key] = admissions[key]
          BY <4>1 DEF Put
        <4>2. CASE Installs
          BY <2>2, <4>1, <4>2 DEF Installs
        <4>3. CASE Closes
          <5>1. PICK intent, error : /\ intent.key \notin DOMAIN admissions
                                     /\ admissions' = Put(Rejected(intent, error))
            BY <4>3 DEF Closes
          <5>2. Rejected(intent, error).intent = intent
            BY DEF Rejected
          <5> QED
            BY <2>2, <4>1, <5>1, <5>2
        <4> QED
          BY <1>1, <2>2, <4>2, <4>3, TableSteps
      <3> DEFINE Files(k, r, s) ==
               /\ k \in DOMAIN native /\ RecordHolds(k, r, s) /\ r.dispatch = DispatchOf(k)
               /\ s \in {None} \cup {held[x] : x \in Caller}
               /\ admissions' = [admissions EXCEPT ![k].record = r]
      <3>0. PICK k \in DOMAIN admissions : \E r, s : Files(k, r, s)
        BY <3>1 DEF Records
      <3>2. PICK r, s : Files(k, r, s)
        BY <3>0
      <3>3. k = key /\ admissions'[key].record = r
        BY <1>1, <2>2, <3>2, RecordedTable
      <3>4. SUFFICES ASSUME r.outcome = "applied"
                     PROVE \E x \in Caller :
                    /\ held[x] # None /\ held[x].revisions = r.readback.revisions
                    /\ LET c == held[x].candidates[r.readback.cand]
                       IN  /\ PathOf(c) = <<r.route.binding, r.route.source, r.route.epoch,
                                            r.route.gen>>
                           /\ TrueTime(c.times.receipt) > TrueTime(native[key].completed.mono)
                           /\ r.intent.judge[c.value] = "confirms"
        BY <3>3
      <3>5. /\ s # None /\ r.dispatch.completed # None
            /\ s.revisions = r.readback.revisions
            /\ r.readback.cand \in DOMAIN s.candidates
            /\ PathOf(s.candidates[r.readback.cand])
                  = <<r.route.binding, r.route.source, r.route.epoch, r.route.gen>>
            /\ ReceiptAfter(r.dispatch.completed, s.candidates[r.readback.cand].times)
            /\ r.intent.judge[s.candidates[r.readback.cand].value] = "confirms"
        BY <3>2, <3>4, AppliedEvidence
      <3>6. PICK x \in Caller : s = held[x] /\ held[x] # None
        BY <3>2, <3>5
      <3>7. Dated(s.candidates[r.readback.cand].times)
        BY <1>1, <3>5, <3>6 DEF FactsDated, DatedFacts
      <3>8. r.dispatch.completed = native[key].completed
        BY <3>2, <3>3 DEF DispatchOf
      <3>9. IsReading(native[key].completed)
        BY <1>1, <3>2, <3>3, <3>5, <3>8 DEF DatesOK
      <3>10. TrueTime(s.candidates[r.readback.cand].times.receipt) > TrueTime(native[key].completed.mono)
        BY <3>5, <3>7, <3>8, <3>9, ReceiptIsAfter
      <3> QED
        BY <3>5, <3>6, <3>10
    <2> QED
      BY <2>1, <2>2
  <1>2. ASSUME TableOK, DatesOK, FactsDated, [SiteNext]_siteVars PROVE AllSeen
    BY <1>1, <1>2
  <1> HIDE DEF AllSeen
  <1>3. SiteSpec => [][AllSeen]_siteVars
    BY <1>2, TableHolds, DatesHold, FactsAreDated, PTL DEF SiteSpec
  <1> QED
    BY <1>3, PTL DEF AllSeen, AppliedWasSeen

-----------------------------------------------------------------------------
(* Letting an intent through. *)

\* What the code takes for fresh was received less than its policy's term ago.
LEMMA FreshIsYoung ==
    ASSUME NEW r, NEW c, IsReading(c), Dated(r.times), r.policy.fresh \in Nat, Age(r, c) = "fresh"
    PROVE  TrueTime(c.mono) - TrueTime(r.times.receipt) < r.policy.fresh
  <1> DEFINE d == [wall |-> r.times.receivedAt, mono |-> r.times.receipt]
  <1>1. d.wall = r.times.receivedAt /\ d.mono = r.times.receipt
    OBVIOUS
  <1>2. IsReading(d)
    BY DEF Dated
  <1> HIDE DEF d
  <1>3. /\ TrueTime(c.mono) \in Int /\ ClockStart[c.mono.epoch] \in Int
        /\ TrueTime(c.mono) <= c.wall.ns + c.wall.unc
        /\ TrueTime(d.mono) \in Int
        /\ d.wall.ns - d.wall.unc <= TrueTime(d.mono)
    BY <1>2, ReadingsHaveTimes
  <1>4. /\ c.mono.ns \in Int /\ d.mono.ns \in Int
        /\ c.wall.ns \in Int /\ c.wall.unc \in Int /\ d.wall.ns \in Int /\ d.wall.unc \in Int
    BY <1>2 DEF IsReading
  <1>5. CASE d.mono.epoch = c.mono.epoch
    <2>1. c.mono.ns - d.mono.ns < r.policy.fresh
      BY <1>1, <1>5 DEF Age, EvaluateFreshness, ClassifyElapsed
    <2> QED
      BY <1>1, <1>3, <1>4, <1>5, <2>1 DEF TrueTime
  <1>6. CASE d.mono.epoch # c.mono.epoch
    <2>1. WallUpper(d.wall, c.wall) < r.policy.fresh
      BY <1>1, <1>6 DEF Age, EvaluateFreshness, CrossEpochFreshness
    <2>2. c.wall.ns - d.wall.ns + (d.wall.unc + c.wall.unc) < r.policy.fresh
      BY <2>1 DEF WallUpper
    <2>3. TrueTime(c.mono) - TrueTime(d.mono) < r.policy.fresh
      BY <1>3, <1>4, <2>2
    <2> QED
      BY <1>1, <2>3
  <1> QED
    BY <1>5, <1>6

\* A precondition that is met stands on a fact that is young and undisputed.
LEMMA MetIsGood ==
    ASSUME NEW s, NEW c, NEW p, Met(s, c, p), EvaluationErrors(s, c) = {},
           DatedFacts(s.candidates), IsReading(c)
    PROVE  LET d == s.candidates[p.cand]
           IN  /\ d.revision = p.revision
               /\ TrueTime(c.mono) - TrueTime(d.times.receipt) < d.policy.fresh
               /\ \A e \in DOMAIN s.candidates :
                     s.candidates[e].key = d.key =>
                        s.candidates[e].value \in {d.value} \cup (Value \ Promoted)
  <1> DEFINE d == s.candidates[p.cand]
  <1>1. p.cand \in DOMAIN s.candidates /\ d.revision = p.revision /\ Eligible(s, c, p.cand)
    BY DEF Met
  <1>2. d.value \in Promoted /\ FactFreshness(s, p.cand, c) = "fresh" /\ ~InConflict(s, p.cand)
    BY <1>1, OperationAssumption DEF Eligible
  <1>3. /\ IsFiniteSet(DOMAIN s.candidates)
        /\ Dated(d.times) /\ d.policy.fresh \in Nat
        /\ \A e \in DOMAIN s.candidates : s.candidates[e].value \in Value
    BY <1>1, SiteAssumption DEF DatedFacts
  <1>4. Age(d, c) = "fresh"
    BY <1>1, <1>2, <1>3, FactIsItsWorst
  <1>5. TrueTime(c.mono) - TrueTime(d.times.receipt) < d.policy.fresh
    <2> HIDE DEF d
    <2> QED
      BY <1>3, <1>4, FreshIsYoung
  <1>6. ASSUME NEW e \in DOMAIN s.candidates, s.candidates[e].key = d.key,
               s.candidates[e].value \in Promoted
        PROVE  s.candidates[e].value = d.value
    BY <1>1, <1>2, <1>6 DEF InConflict
  <1> QED
    BY <1>1, <1>3, <1>5, <1>6

\* An intent is let through only while its terms have really not passed, and on
\* facts that were really received within their policy's term and that nothing
\* disputes.
THEOREM AdmissionsStand == SiteSpec => AdmissionsAreJustified
  <1> DEFINE Justified(x) ==
          calls[x] = None /\ calls'[x] # None =>
              LET intent == calls'[x].intent
              IN  /\ \A t \in {intent.deadline, intent.expires} : now < t.ns - t.unc
                  /\ \A p \in intent.preconditions :
                        LET c == held[x].candidates[p.cand]
                        IN  /\ c.revision = p.revision
                            /\ now - TrueTime(c.times.receipt) < c.policy.fresh
                            /\ \A d \in DOMAIN held[x].candidates :
                                  held[x].candidates[d].key = c.key =>
                                      held[x].candidates[d].value \in {c.value} \cup (Value \ Promoted)
             AllJustified == \A x \in Caller : Justified(x)
  <1>1. ASSUME TableOK, FactsDated, now \in 0..MaxNow, [SiteNext]_siteVars,
               NEW x \in Caller, calls[x] = None, calls'[x] # None
        PROVE  Justified(x)
    <2>1. PICK y \in Caller, c \in Contexts({KernelClock}), granted \in BOOLEAN : \E intent :
             /\ IsIntent(intent) /\ held[y] # None
             /\ AdmitNew(y, held[y], c, intent, granted)
      BY <1>1, CallSteps DEF TableOK
    <2>2. PICK intent : /\ IsIntent(intent) /\ held[y] # None
                        /\ AdmitNew(y, held[y], c, intent, granted)
      BY <2>1
    <2>3. PICK s : s = held[y]
      OBVIOUS
    <2>4. PICK a : /\ a.intent = intent
                   /\ calls' = [calls EXCEPT ![y] = a]
                   /\ AdmissionErrors(s, c, intent, granted) = {}
      BY <2>2, <2>3 DEF AdmitNew
    <2>5. x = y /\ calls'[x].intent = intent
      BY <1>1, <2>4 DEF TableOK
    <2>6. now \in Int
      BY <1>1, SiteAssumption
    <2>7. IsReading(c) /\ TrueTime(c.mono) = now
      BY <2>6, ContextsAreReadings, SiteAssumption
    <2>8. /\ EvaluationErrors(s, c) = {}
          /\ InTime(c.wall, intent.deadline) /\ InTime(c.wall, intent.expires)
          /\ \A p \in intent.preconditions : Met(s, c, p)
      BY <2>4, Zenon DEF AdmissionErrors, Flag
    <2>9. ASSUME NEW t \in {intent.deadline, intent.expires} PROVE now < t.ns - t.unc
      <3>1. t.ns \in Int /\ t.unc \in Nat
        BY <2>2 DEF IsIntent
      <3>2. c.wall.ns + c.wall.unc < t.ns - t.unc
        BY <2>8 DEF InTime
      <3>3. now <= c.wall.ns + c.wall.unc /\ c.wall.ns \in Int /\ c.wall.unc \in Nat
        BY <2>7, ReadingsHaveTimes DEF IsReading
      <3> QED
        BY <2>6, <3>1, <3>2, <3>3
    <2>10. DatedFacts(s.candidates)
      BY <1>1, <2>2, <2>3 DEF FactsDated
    <2>11. ASSUME NEW p \in intent.preconditions
           PROVE  LET d == s.candidates[p.cand]
                  IN  /\ d.revision = p.revision
                      /\ now - TrueTime(d.times.receipt) < d.policy.fresh
                      /\ \A e \in DOMAIN s.candidates :
                            s.candidates[e].key = d.key =>
                               s.candidates[e].value \in {d.value} \cup (Value \ Promoted)
      BY <2>7, <2>8, <2>10, MetIsGood
    <2> QED
      BY <2>3, <2>5, <2>9, <2>11
  <1>2. ASSUME TableOK, FactsDated, now \in 0..MaxNow, [SiteNext]_siteVars PROVE AllJustified
    <2>1. \A x \in Caller : calls[x] = None /\ calls'[x] # None => Justified(x)
      <3> HIDE DEF Justified
      <3> QED
        BY <1>1, <1>2
    <2> QED
      BY <2>1
  <1> HIDE DEF AllJustified
  <1>3. KernelAtSite => now \in 0..MaxNow
    BY DEF KernelAtSite
  <1>4. SiteSpec => [][AllJustified]_siteVars
    BY <1>2, <1>3, TableHolds, FactsAreDated, KernelAtSiteHolds, PTL DEF SiteSpec
  <1> QED
    BY <1>4, PTL DEF AllJustified, AdmissionsAreJustified
=============================================================================
