-------------------------- MODULE StateStoreProofs --------------------------
(***************************************************************************)
(* Proofs about the stores.  First StateStore, for every set of keys,      *)
(* outputs and metadata and every bound on the log.  Then MemoryStore, as  *)
(* Memory, for every set of keys and outputs and every bound on events,    *)
(* departures and crashes.  Then FileVault, as Vault, for every set of     *)
(* processes besides.  A variable two stores have (`projection`, ...)      *)
(* stands for either's, in theorems about one specification or the other.  *)
(***************************************************************************)
EXTENDS StateStore, FiniteSetTheorems, WellFoundedInduction, TLAPS

CONSTANTS MaxEvents, MaxSpent, MaxKinds, MaxCrashes,
          Proc, Nobody, FailureAddress, MaxClock
VARIABLES events, records, epoch, loaded, acked, departed, crashes,
          notes, gen, lock, own_gen, pc, writing, torn

Memory == INSTANCE MemoryStore
Vault == INSTANCE FileVault

\* Appending one record: the old positions keep their records.
LEMMA AppendFacts ==
  ASSUME NEW S, NEW lg \in Seq(S), NEW r \in S
  PROVE  /\ Append(lg, r) \in Seq(S)
         /\ Len(Append(lg, r)) = Len(lg) + 1
         /\ DOMAIN Append(lg, r) = DOMAIN lg \cup {Len(lg) + 1}
         /\ \A i \in DOMAIN lg : Append(lg, r)[i] = lg[i]
         /\ Append(lg, r)[Len(lg) + 1] = r
         /\ \A i \in DOMAIN lg : i \in Nat /\ i < Len(lg) + 1
         /\ Len(lg) + 1 \notin DOMAIN lg
  OBVIOUS

\* Every record of a well-typed log has well-typed fields.
LEMMA RecordFields ==
  ASSUME TypeOK
  PROVE  \A i \in DOMAIN log :
           /\ log[i] \in Record
           /\ log[i].node \in Key
           /\ log[i].attempt \in Nat
           /\ log[i].output \in Output \cup {NoOutput}
<1>1. \A i \in DOMAIN log : log[i] \in Record
  BY DEF TypeOK
<1>2. \A r \in Record : /\ r.node \in Key
                        /\ r.attempt \in Nat
                        /\ r.output \in Output \cup {NoOutput}
  BY DEF Record
<1>3. QED
  BY <1>1, <1>2

\* The record put() builds.
NewRecord(k, output, status, type, meta) ==
  [node |-> k, output |-> output, status |-> status, attempt |-> attempts[k] + 1,
   type |-> IF projection[k] # NoOutput /\ projection[k] = output /\ type = "agent_output"
              THEN "dedup" ELSE type,
   meta |-> meta]

LEMMA AdmitTypes ==
  ASSUME TypeOK,
         NEW k \in Key, NEW o \in Output \cup {NoOutput}, NEW s \in Status,
         NEW t \in {"agent_output", "coordination"}, NEW a \in Meta,
         Admit(k, o, s, t, a)
  PROVE  /\ NewRecord(k, o, s, t, a) \in Record
         /\ log' = Append(log, NewRecord(k, o, s, t, a))
         /\ TypeOK'
<1>1. NewRecord(k, o, s, t, a) \in Record
  BY DEF TypeOK, NewRecord, Record, RecordType
<1>2. log' = Append(log, NewRecord(k, o, s, t, a))
  BY DEF Admit, NewRecord
<1>3. log' \in Seq(Record)
  BY <1>1, <1>2, AppendFacts DEF TypeOK
<1>4. projection' \in [Key -> Output \cup {NoOutput}]
  BY DEF Admit, TypeOK
<1>5. attempts' \in [Key -> Nat] /\ clock' \in Nat
  BY DEF Admit, TypeOK
<1>6. QED
  BY <1>1, <1>2, <1>3, <1>4, <1>5 DEF TypeOK

(***************************************************************************)
(* The inductive invariant.  ProjectionIsLog alone is not inductive: that  *)
(* the record put() adds is the newest of its node rests on the counter    *)
(* being at or above every recorded attempt (AttemptsAgree), and Reload    *)
(* re-establishes AttemptsAgree only because every recorded node has a     *)
(* newest record to take the counter from (NewestExist).                   *)
(***************************************************************************)
NewestExist ==
  \A i \in DOMAIN log : \E j \in DOMAIN log : log[j].node = log[i].node /\ IsLatest(log, j)

IInv == TypeOK /\ AttemptsAgree /\ ProjectionIsLog /\ NewestExist

\* What the proofs about put() share: the log it leaves, and that the record
\* it adds has the highest attempt of its node.
Adds(k, o, s, r, top) ==
  /\ DOMAIN log' = DOMAIN log \cup {top}
  /\ \A i \in DOMAIN log : log'[i] = log[i] /\ i \in Nat /\ i < top
  /\ log'[top] = r
  /\ top \in Nat
  /\ top \notin DOMAIN log
  /\ r.node = k /\ r.attempt = attempts[k] + 1 /\ r.status = s /\ r.output = o
  /\ attempts[k] \in Nat /\ r.attempt \in Nat
  /\ \A i \in DOMAIN log : log[i].node \in Key /\ log[i].attempt \in Nat
  /\ \A i \in DOMAIN log : log[i].node = k => log[i].attempt < r.attempt

LEMMA AdmitFacts ==
  ASSUME IInv,
         NEW k \in Key, NEW o \in Output \cup {NoOutput}, NEW s \in Status,
         NEW t \in {"agent_output", "coordination"}, NEW a \in Meta,
         Admit(k, o, s, t, a)
  PROVE  Adds(k, o, s, NewRecord(k, o, s, t, a), Len(log) + 1)
<1> DEFINE r == NewRecord(k, o, s, t, a)
           top == Len(log) + 1
<1>1. log' = Append(log, r) /\ r \in Record
  BY AdmitTypes DEF IInv
<1>2. r.node = k /\ r.attempt = attempts[k] + 1 /\ r.status = s /\ r.output = o
  BY DEF NewRecord
<1>3. /\ DOMAIN log' = DOMAIN log \cup {top}
      /\ \A i \in DOMAIN log : log'[i] = log[i] /\ i \in Nat /\ i < top
      /\ log'[top] = r
      /\ top \notin DOMAIN log
      /\ top \in Nat
  BY <1>1, AppendFacts DEF IInv, TypeOK
<1>4. attempts[k] \in Nat
  BY DEF IInv, TypeOK
<1>5. \A i \in DOMAIN log : log[i].node \in Key /\ log[i].attempt \in Nat
  BY RecordFields DEF IInv
<1>6. \A i \in DOMAIN log : log[i].node = k => log[i].attempt <= attempts[k]
  BY DEF IInv, AttemptsAgree
<1>7. \A i \in DOMAIN log : log[i].node = k => log[i].attempt < r.attempt
  BY <1>2, <1>4, <1>5, <1>6
<1> HIDE DEF r, top
<1>8. Adds(k, o, s, r, top)
  BY <1>2, <1>3, <1>4, <1>5, <1>7 DEF Adds
<1>9. QED
  BY <1>8 DEF r, top

LEMMA AdmitKeepsAttempts ==
  ASSUME IInv,
         NEW k \in Key, NEW o \in Output \cup {NoOutput}, NEW s \in Status,
         NEW t \in {"agent_output", "coordination"}, NEW a \in Meta,
         Admit(k, o, s, t, a)
  PROVE  AttemptsAgree' /\ NewestExist'
<1> DEFINE r == NewRecord(k, o, s, t, a)
           top == Len(log) + 1
<1>1. Adds(k, o, s, r, top)
  BY AdmitFacts
<1> HIDE DEF r, top
<1> USE DEF Adds
<1>2. attempts' = [attempts EXCEPT ![k] = @ + 1]
  BY DEF Admit
<1>3. DistinctAttempts(log')
  <2> SUFFICES ASSUME NEW i \in DOMAIN log', NEW j \in DOMAIN log',
                      i # j, log'[i].node = log'[j].node
               PROVE  log'[i].attempt # log'[j].attempt
    BY DEF DistinctAttempts
  <2>1. CASE i \in DOMAIN log /\ j \in DOMAIN log
    BY <2>1, <1>1 DEF IInv, AttemptsAgree, DistinctAttempts
  <2>2. CASE i = top /\ j \in DOMAIN log
    BY <2>2, <1>1
  <2>3. CASE j = top /\ i \in DOMAIN log
    BY <2>3, <1>1
  <2>4. QED
    BY <2>1, <2>2, <2>3, <1>1
<1>4. ASSUME NEW i \in DOMAIN log'
      PROVE  log'[i].attempt <= attempts'[log'[i].node]
  <2>1. \A q \in Key : /\ attempts[q] \in Nat
                       /\ attempts'[q] = IF q = k THEN attempts[k] + 1 ELSE attempts[q]
    BY <1>2 DEF IInv, TypeOK
  <2>2. CASE i = top
    BY <2>1, <2>2, <1>1
  <2>3. CASE i \in DOMAIN log
    <3>1. log[i].attempt <= attempts[log[i].node]
      BY <2>3 DEF IInv, AttemptsAgree
    <3>2. QED
      BY <3>1, <2>1, <2>3, <1>1
  <2>4. QED
    BY <2>2, <2>3, <1>1
<1>5. IsLatest(log', top)
  BY <1>1 DEF IsLatest, Supersedes
<1>6. ASSUME NEW i \in DOMAIN log'
      PROVE  \E j \in DOMAIN log' : log'[j].node = log'[i].node /\ IsLatest(log', j)
  <2>1. CASE log'[i].node = k
    BY <2>1, <1>1, <1>5
  <2>2. CASE log'[i].node # k
    <3>1. i \in DOMAIN log
      BY <2>2, <1>1
    <3>2. PICK j \in DOMAIN log : log[j].node = log[i].node /\ IsLatest(log, j)
      BY <3>1 DEF IInv, NewestExist
    <3>3. IsLatest(log', j)
      BY <3>1, <3>2, <2>2, <1>1 DEF IsLatest, Supersedes
    <3>4. QED
      BY <3>1, <3>2, <3>3, <1>1
  <2>3. QED
    BY <2>1, <2>2
<1>7. QED
  BY <1>3, <1>4, <1>6 DEF AttemptsAgree, NewestExist

LEMMA AdmitKeepsProjection ==
  ASSUME IInv,
         NEW k \in Key, NEW o \in Output \cup {NoOutput}, NEW s \in Status,
         NEW t \in {"agent_output", "coordination"}, NEW a \in Meta,
         s = "validated" => o # NoOutput,
         Admit(k, o, s, t, a)
  PROVE  ProjectionIsLog'
<1> DEFINE r == NewRecord(k, o, s, t, a)
           top == Len(log) + 1
<1>1. Adds(k, o, s, r, top)
  BY AdmitFacts
<1> HIDE DEF r, top
<1> USE DEF Adds
<1>2. projection' = IF s = "validated" THEN [projection EXCEPT ![k] = o] ELSE projection
  BY DEF Admit
<1>3. SUFFICES ASSUME NEW q \in Key
               PROVE  \/ /\ projection'[q] = NoOutput
                         /\ \A i \in DOMAIN log' :
                              log'[i].node = q => log'[i].status # "validated"
                      \/ \E i \in DOMAIN log' : /\ log'[i].node = q
                                                /\ IsLatestValidated(log', i)
                                                /\ projection'[q] = log'[i].output
                                                /\ projection'[q] # NoOutput
  BY DEF ProjectionIsLog
<1>4. projection'[q] = IF s = "validated" /\ q = k THEN o ELSE projection[q]
  BY <1>2 DEF IInv, TypeOK
<1>5. CASE s = "validated" /\ q = k
  <2>1. IsLatestValidated(log', top)
    BY <1>1, <1>5 DEF IsLatestValidated, Supersedes
  <2>2. QED
    BY <2>1, <1>1, <1>4, <1>5
<1>6. CASE ~(s = "validated" /\ q = k)
  <2>1. CASE /\ projection[q] = NoOutput
             /\ \A i \in DOMAIN log : log[i].node = q => log[i].status # "validated"
    BY <2>1, <1>1, <1>4, <1>6
  <2>2. ASSUME NEW i \in DOMAIN log, log[i].node = q, IsLatestValidated(log, i),
               projection[q] = log[i].output, projection[q] # NoOutput
        PROVE  /\ i \in DOMAIN log' /\ log'[i].node = q
               /\ IsLatestValidated(log', i)
               /\ projection'[q] = log'[i].output /\ projection'[q] # NoOutput
    BY <2>2, <1>1, <1>4, <1>6 DEF IsLatestValidated, Supersedes
  <2>3. QED
    BY <2>1, <2>2 DEF IInv, ProjectionIsLog
<1>7. QED
  BY <1>5, <1>6

\* put() that raises moves a counter up and leaves the log alone.
LEMMA RaisingKeepsIInv ==
  ASSUME IInv, NEW k \in Key, PutRaises(k)
  PROVE  IInv'
<1>1. /\ UNCHANGED <<log, projection>>
      /\ attempts' = [attempts EXCEPT ![k] = @ + 1]
      /\ clock' = clock + 1
  BY DEF PutRaises
<1>2. TypeOK'
  BY <1>1 DEF IInv, TypeOK
<1>3. \A q \in Key : attempts[q] \in Nat /\ attempts'[q] \in Nat /\ attempts[q] <= attempts'[q]
  BY <1>1 DEF IInv, TypeOK
<1>4. ASSUME NEW i \in DOMAIN log
      PROVE  log[i].attempt <= attempts'[log[i].node]
  <2>1. log[i].node \in Key /\ log[i].attempt \in Nat /\ log[i].attempt <= attempts[log[i].node]
    BY RecordFields DEF IInv, AttemptsAgree
  <2>2. QED
    BY <2>1, <1>3
<1>5. AttemptsAgree'
  BY <1>1, <1>4 DEF IInv, AttemptsAgree, DistinctAttempts
<1>6. ProjectionIsLog' /\ NewestExist'
  BY <1>1 DEF IInv, ProjectionIsLog, NewestExist, IsLatestValidated, IsLatest, Supersedes
<1>7. QED
  BY <1>2, <1>5, <1>6 DEF IInv

(***************************************************************************)
(* A rebuild finds what the live store held.  Two records of one node      *)
(* cannot both be its newest, since their attempts differ; so the record   *)
(* the rebuild chooses is the one the projection was written from.         *)
(***************************************************************************)
LEMMA RebuildIsExact ==
  ASSUME IInv, NEW k \in Key
  PROVE  Rebuilt(log, k, NoOutput) = projection[k]
<1> DEFINE newest == {i \in DOMAIN log : log[i].node = k /\ IsLatestValidated(log, i)}
<1>1. CASE /\ projection[k] = NoOutput
           /\ \A i \in DOMAIN log : log[i].node = k => log[i].status # "validated"
  <2>1. newest = {}
    BY <1>1 DEF IsLatestValidated
  <2>2. QED
    BY <2>1, <1>1 DEF Rebuilt
<1>2. ASSUME NEW i \in DOMAIN log, log[i].node = k, IsLatestValidated(log, i),
             projection[k] = log[i].output
      PROVE  Rebuilt(log, k, NoOutput) = projection[k]
  <2>1. \A j \in newest : j = i
    <3> SUFFICES ASSUME NEW j \in DOMAIN log, log[j].node = k, IsLatestValidated(log, j), j # i
                 PROVE  FALSE
      OBVIOUS
    <3>1. Supersedes(log, i, j) /\ Supersedes(log, j, i)
      BY <1>2 DEF IsLatestValidated
    <3>2. log[i].attempt \in Nat /\ log[j].attempt \in Nat
      BY RecordFields DEF IInv
    <3>3. log[i].attempt # log[j].attempt
      BY <1>2 DEF IInv, AttemptsAgree, DistinctAttempts
    <3>4. QED
      BY <3>1, <3>2, <3>3 DEF Supersedes
  <2>2. i \in newest
    BY <1>2
  <2> HIDE DEF newest
  <2>3. newest # {} /\ (CHOOSE j \in newest : TRUE) = i
    BY <2>1, <2>2
  <2>4. Rebuilt(log, k, NoOutput) = log[i].output
    BY <2>3 DEF Rebuilt, newest
  <2>5. QED
    BY <2>4, <1>2
<1>3. QED
  BY <1>1, <1>2 DEF IInv, ProjectionIsLog

LEMMA ReloadKeepsIInv ==
  ASSUME IInv, Reload
  PROVE  IInv' /\ projection' = projection
<1>1. projection' = projection
  <2>1. projection' = [k \in Key |-> Rebuilt(log, k, NoOutput)]
    BY DEF Reload
  <2>2. \A k \in Key : projection'[k] = projection[k]
    BY <2>1, RebuildIsExact
  <2>3. QED
    BY <2>1, <2>2 DEF IInv, TypeOK
<1>2. log' = log /\ attempts' = [k \in Key |-> TopAttempt(log, k)] /\ clock' = Len(log)
  BY DEF Reload
<1>3. ASSUME NEW k \in Key
      PROVE  /\ TopAttempt(log, k) \in Nat
             /\ \A i \in DOMAIN log : log[i].node = k => log[i].attempt <= TopAttempt(log, k)
  <2> DEFINE newest == {i \in DOMAIN log : log[i].node = k /\ IsLatest(log, i)}
  <2>1. \A i \in DOMAIN log : log[i].attempt \in Nat
    BY RecordFields DEF IInv
  <2>2. CASE newest = {}
    <3>1. TopAttempt(log, k) = 0
      BY <2>2 DEF TopAttempt
    <3>2. \A i \in DOMAIN log : log[i].node # k
      BY <2>2 DEF IInv, NewestExist
    <3>3. QED
      BY <3>1, <3>2
  <2>3. CASE newest # {}
    <3> DEFINE j == CHOOSE i \in newest : TRUE
    <3>1. j \in newest
      BY <2>3
    <3>2. TopAttempt(log, k) = log[j].attempt
      BY <2>3 DEF TopAttempt
    <3> HIDE DEF j
    <3>3. j \in DOMAIN log /\ log[j].node = k /\ IsLatest(log, j)
      BY <3>1
    <3>4. \A i \in DOMAIN log : log[i].node = k => log[i].attempt <= log[j].attempt
      BY <3>3, <2>1 DEF IsLatest, Supersedes
    <3>5. QED
      BY <3>2, <3>3, <3>4, <2>1
  <2>4. QED
    BY <2>2, <2>3
<1>4. TypeOK'
  BY <1>1, <1>2, <1>3 DEF IInv, TypeOK
<1>5. AttemptsAgree'
  <2>1. \A i \in DOMAIN log : log[i].node \in Key
    BY RecordFields DEF IInv
  <2>2. QED
    BY <2>1, <1>2, <1>3 DEF IInv, AttemptsAgree, DistinctAttempts
<1>6. ProjectionIsLog' /\ NewestExist'
  BY <1>1, <1>2 DEF IInv, ProjectionIsLog, NewestExist, IsLatestValidated, IsLatest, Supersedes
<1>7. QED
  BY <1>1, <1>4, <1>5, <1>6 DEF IInv

LEMMA InitIInv == Init => IInv
<1> SUFFICES ASSUME Init PROVE IInv
  OBVIOUS
<1>1. log = <<>> /\ DOMAIN log = {}
  BY DEF Init
<1>2. TypeOK
  BY <1>1 DEF Init, TypeOK
<1>3. AttemptsAgree /\ NewestExist
  BY <1>1 DEF AttemptsAgree, DistinctAttempts, NewestExist
<1>4. ProjectionIsLog
  BY <1>1 DEF Init, ProjectionIsLog
<1>5. QED
  BY <1>2, <1>3, <1>4 DEF IInv

LEMMA NextIInv == IInv /\ [Next]_vars => IInv'
<1> SUFFICES ASSUME IInv, [Next]_vars PROVE IInv'
  OBVIOUS
<1>1. ASSUME NEW k \in Key, NEW o \in Output \cup {NoOutput}, NEW s \in Status,
             NEW t \in {"agent_output", "coordination"}, NEW m \in Meta,
             s = "validated" => o # NoOutput,
             Admit(k, o, s, t, m)
      PROVE  IInv'
  BY <1>1, AdmitTypes, AdmitKeepsAttempts, AdmitKeepsProjection DEF IInv
<1>2. CASE \/ \E k \in Key \ {Coordination}, o \in Output, s \in {"validated", "failed"}, m \in Meta :
                Put(k, o, s, m)
           \/ \E m \in Meta : Notice(m)
  BY <1>1, <1>2, StoreAssumption DEF Put, Notice, Status
<1>3. CASE \E k \in Key \ {Coordination} : PutRaises(k)
  BY <1>3, RaisingKeepsIInv
<1>4. CASE Reload
  BY <1>4, ReloadKeepsIInv
<1>5. CASE UNCHANGED vars
  BY <1>5 DEF vars, IInv, TypeOK, AttemptsAgree, DistinctAttempts, NewestExist,
              ProjectionIsLog, IsLatestValidated, IsLatest, Supersedes
<1>6. QED
  BY <1>2, <1>3, <1>4, <1>5 DEF Next

\* The types of the store's variables hold in every behaviour.
THEOREM TypesHold == Spec => []TypeOK
<1>1. IInv => TypeOK
  BY DEF IInv
<1>2. QED
  BY <1>1, InitIInv, NextIInv, PTL DEF Spec

\* What get() answers is always what the log says: a node is in the
\* projection exactly when it has a validated record, with the newest output.
THEOREM ProjectionHolds == Spec => []ProjectionIsLog
<1>1. IInv => ProjectionIsLog
  BY DEF IInv
<1>2. QED
  BY <1>1, InitIInv, NextIInv, PTL DEF Spec

(***************************************************************************)
(* The log is honest about itself.  A record is marked dedup because the   *)
(* projection holds its output; the projection holds the output of the     *)
(* newest validated record, newest by attempt (ProjectionIsLog); and since *)
(* attempts rise along the log (Ordered), that is also the last validated  *)
(* record of the node, with none between it and the repetition.            *)
(***************************************************************************)
Ordered ==
  \A i, j \in DOMAIN log : i < j /\ log[i].node = log[j].node => log[i].attempt < log[j].attempt

LEMMA AdmitKeepsHonesty ==
  ASSUME IInv, Ordered, DedupRepeats,
         NEW k \in Key, NEW o \in Output \cup {NoOutput}, NEW s \in Status,
         NEW t \in {"agent_output", "coordination"}, NEW a \in Meta,
         Admit(k, o, s, t, a)
  PROVE  Ordered' /\ DedupRepeats'
<1> DEFINE r == NewRecord(k, o, s, t, a)
           top == Len(log) + 1
<1>1. Adds(k, o, s, r, top)
  BY AdmitFacts
<1>2. DOMAIN log = 1..(top - 1) /\ top \in Nat \ {0}
  BY DEF IInv, TypeOK
<1>3. r.type = "dedup" => projection[k] # NoOutput /\ projection[k] = o
  BY DEF NewRecord
<1> HIDE DEF r, top
<1>4. Ordered'
  <2> SUFFICES ASSUME NEW i \in DOMAIN log', NEW j \in DOMAIN log',
                      i < j, log'[i].node = log'[j].node
               PROVE  log'[i].attempt < log'[j].attempt
    BY DEF Ordered
  <2>1. i \in DOMAIN log
    BY <1>1, <1>2 DEF Adds
  <2>2. CASE j \in DOMAIN log
    BY <2>1, <2>2, <1>1 DEF Adds, Ordered
  <2>3. CASE j = top
    BY <2>1, <2>3, <1>1 DEF Adds
  <2>4. QED
    BY <2>2, <2>3, <1>1 DEF Adds
<1>5. ASSUME r.type = "dedup"
      PROVE  \E j \in 1..(top - 1) :
               /\ log[j].node = k /\ log[j].status = "validated" /\ log[j].output = o
               /\ \A m \in (j + 1)..(top - 1) : log[m].node = k => log[m].status # "validated"
  <2>1. PICK j \in DOMAIN log : /\ log[j].node = k
                                /\ IsLatestValidated(log, j)
                                /\ log[j].output = o
    BY <1>3, <1>5 DEF IInv, ProjectionIsLog
  <2>2. ASSUME NEW m \in (j + 1)..(top - 1), log[m].node = k, log[m].status = "validated"
        PROVE  FALSE
    <3>1. m \in DOMAIN log /\ j < m
      BY <2>2, <1>2
    <3>2. Supersedes(log, j, m)
      BY <3>1, <2>1, <2>2 DEF IsLatestValidated
    <3>3. log[j].attempt < log[m].attempt /\ log[j].attempt \in Nat /\ log[m].attempt \in Nat
      BY <3>1, <2>1, <2>2, <1>1 DEF Ordered, Adds
    <3>4. QED
      BY <3>1, <3>2, <3>3, <1>2 DEF Supersedes
  <2>3. QED
    BY <2>1, <2>2, <1>2 DEF IsLatestValidated
<1>6. DedupRepeats'
  <2> SUFFICES ASSUME NEW i \in DOMAIN log', log'[i].type = "dedup"
               PROVE  \E j \in 1..(i - 1) :
                        /\ log'[j].node = log'[i].node
                        /\ log'[j].status = "validated"
                        /\ log'[j].output = log'[i].output
                        /\ \A m \in (j + 1)..(i - 1) :
                             log'[m].node = log'[i].node => log'[m].status # "validated"
    BY DEF DedupRepeats
  <2>1. \A m \in 1..(i - 1) : log'[m] = log[m]
    BY <1>1, <1>2 DEF Adds
  <2>2. CASE i \in DOMAIN log
    <3>1. PICK j \in 1..(i - 1) :
            /\ log[j].node = log[i].node
            /\ log[j].status = "validated"
            /\ log[j].output = log[i].output
            /\ \A m \in (j + 1)..(i - 1) : log[m].node = log[i].node => log[m].status # "validated"
      BY <2>2, <1>1 DEF Adds, DedupRepeats
    <3>2. \A m \in (j + 1)..(i - 1) : log'[m] = log[m]
      BY <2>1, <2>2, <1>2
    <3>3. log'[j] = log[j] /\ log'[i] = log[i]
      BY <2>1, <2>2, <1>1 DEF Adds
    <3>4. QED
      BY <3>1, <3>2, <3>3
  <2>3. CASE i = top
    <3>1. log'[i] = r /\ r.node = k /\ r.output = o
      BY <2>3, <1>1 DEF Adds
    <3>2. PICK j \in 1..(i - 1) :
            /\ log[j].node = k /\ log[j].status = "validated" /\ log[j].output = o
            /\ \A m \in (j + 1)..(i - 1) : log[m].node = k => log[m].status # "validated"
      BY <3>1, <2>3, <1>5
    <3>3. \A m \in (j + 1)..(i - 1) : log'[m] = log[m]
      BY <2>1, <2>3, <1>2
    <3>4. log'[j] = log[j]
      BY <2>1
    <3>5. QED
      BY <3>1, <3>2, <3>3, <3>4
  <2>4. QED
    BY <2>2, <2>3, <1>1 DEF Adds
<1>7. QED
  BY <1>4, <1>6

LEMMA NextHonest == IInv /\ Ordered /\ DedupRepeats /\ [Next]_vars => (Ordered /\ DedupRepeats)'
<1> SUFFICES ASSUME IInv, Ordered, DedupRepeats, [Next]_vars PROVE (Ordered /\ DedupRepeats)'
  OBVIOUS
<1>1. CASE \/ \E k \in Key \ {Coordination}, o \in Output, s \in {"validated", "failed"}, m \in Meta :
                Put(k, o, s, m)
           \/ \E m \in Meta : Notice(m)
  BY <1>1, AdmitKeepsHonesty, StoreAssumption DEF Put, Notice, Status
<1>2. CASE UNCHANGED log
  BY <1>2 DEF Ordered, DedupRepeats
<1>3. QED
  BY <1>1, <1>2 DEF Next, PutRaises, Reload, vars

\* Attempt numbers never collide, so that "latest" never rests on a tie, and a
\* record marked dedup repeats what its node had validated last (put()).
THEOREM LogHonest == Spec => []LogIsHonest
<1>1. Init => Ordered /\ DedupRepeats
  BY DEF Init, Ordered, DedupRepeats
<1>2. IInv /\ DedupRepeats => LogIsHonest
  BY DEF IInv, LogIsHonest
<1>3. QED
  BY <1>1, <1>2, NextHonest, InitIInv, NextIInv, PTL DEF Spec

\* Reading the output of a completed node never fails.
THEOREM CompletedReadable == Spec => []CompletedIsReadable
<1>1. IInv => CompletedIsReadable
  <2> SUFFICES ASSUME IInv, NEW k \in Completed(log)
               PROVE  projection[k] # NoOutput
    BY DEF CompletedIsReadable
  <2>1. PICK i \in DOMAIN log : log[i].node = k /\ log[i].status = "validated"
    BY DEF Completed
  <2>2. k \in Key
    BY <2>1, RecordFields DEF IInv
  <2>3. QED
    BY <2>1, <2>2 DEF IInv, ProjectionIsLog
<1>2. QED
  BY <1>1, InitIInv, NextIInv, PTL DEF Spec

\* The store implements the append-only run log.
THEOREM StoreImplementsRunLog == Spec => ImplementsRunLog
<1>1. Init => Promise!Init
  BY DEF Init, Promise!Init
<1>2. ASSUME IInv, [Next]_vars
      PROVE  [Promise!Put]_log
  <2>1. ASSUME NEW k \in Key, NEW o \in Output \cup {NoOutput}, NEW s \in Status,
               NEW t \in {"agent_output", "coordination"}, NEW m \in Meta,
               Admit(k, o, s, t, m)
        PROVE  Promise!Put
    <3> DEFINE r == NewRecord(k, o, s, t, m)
    <3>1. log' = Append(log, r) /\ r \in Record
      BY <1>2, <2>1, AdmitTypes DEF IInv
    <3>2. r.node = k /\ \A i \in DOMAIN log : log[i].node = k => log[i].attempt < r.attempt
      BY <1>2, <2>1, AdmitFacts DEF Adds
    <3> HIDE DEF r
    <3>3. /\ Len(log') = Len(log) + 1
          /\ \A i \in DOMAIN log : log'[i] = log[i]
          /\ log'[Len(log')] = r
      BY <1>2, <3>1, AppendFacts DEF IInv, TypeOK
    <3>4. QED
      BY <3>2, <3>3 DEF Promise!Put, Promise!Extends
  <2>2. CASE \/ \E k \in Key \ {Coordination}, o \in Output, s \in {"validated", "failed"}, m \in Meta :
                  Put(k, o, s, m)
             \/ \E m \in Meta : Notice(m)
    BY <2>1, <2>2, StoreAssumption DEF Put, Notice, Status
  <2>3. CASE \/ \E k \in Key \ {Coordination} : PutRaises(k)
             \/ Reload
             \/ UNCHANGED vars
    BY <2>3 DEF PutRaises, Reload, vars
  <2>4. QED
    BY <1>2, <2>2, <2>3 DEF Next
<1>3. QED
  BY <1>1, <1>2, InitIInv, NextIInv, PTL DEF Spec, ImplementsRunLog, Promise!Spec

-----------------------------------------------------------------------------
(* The AgentCore Memory store.  Its log is read by a recursive function;   *)
(* what that function gives for one more event takes an induction over the *)
(* naturals, which the library's well-founded induction on finite subsets  *)
(* provides.                                                               *)

\* The least element of a set of naturals: the intervals below its members
\* are finite sets, and strict inclusion orders those well.
LEMMA Least ==
  ASSUME NEW T, T \subseteq Nat, T # {}
  PROVE  \E x \in T : \A y \in T : x <= y
<1> DEFINE I == {0..n : n \in T}
<1>1. I \subseteq FiniteSubsetsOf(Nat)
  <2>1. SUFFICES ASSUME NEW n \in T PROVE 0..n \in FiniteSubsetsOf(Nat)
    OBVIOUS
  <2>2. 0..n \in SUBSET Nat
    OBVIOUS
  <2>3. IsFiniteSet(0..n)
    BY FS_Interval
  <2>4. QED
    BY <2>2, <2>3 DEF FiniteSubsetsOf
<1>2. I # {}
  OBVIOUS
<1>3. IsWellFoundedOn(StrictSubsetOrdering(Nat), FiniteSubsetsOf(Nat))
  BY FS_StrictSubsetOrderingWellFounded
<1>4. PICK x \in I : \A y \in I : ~(<<y, x>> \in StrictSubsetOrdering(Nat))
  <2> HIDE DEF I
  <2>1. QED
    BY <1>1, <1>2, <1>3, WFMin
<1>5. PICK m \in T : x = 0..m
  OBVIOUS
<1>6. ASSUME NEW y \in T, ~(m <= y)
      PROVE  FALSE
  <2>1. 0..y \in I
    OBVIOUS
  <2>2. y \in Nat /\ m \in Nat /\ y < m
    BY <1>6
  <2>3. 0..y \in SUBSET Nat /\ 0..m \in SUBSET Nat
    BY <2>2
  <2>4. 0..y \subseteq 0..m /\ 0..y # 0..m
    BY <2>2
  <2>5. <<0..y, 0..m>> \in StrictSubsetOrdering(Nat)
    BY <2>3, <2>4 DEF StrictSubsetOrdering
  <2>6. QED
    BY <1>4, <1>5, <2>1, <2>5
<1>7. QED
  BY <1>6

LEMMA Induct ==
  ASSUME NEW S, 0 \in S, \A n \in Nat : n \in S => n + 1 \in S
  PROVE  \A n \in Nat : n \in S
<1>1. SUFFICES ASSUME NEW n \in Nat \ S PROVE FALSE
  OBVIOUS
<1>2. PICK x \in Nat \ S : \A y \in Nat \ S : x <= y
  BY <1>1, Least
<1>3. x # 0 /\ x - 1 \in Nat
  BY <1>2
<1>4. x - 1 \in S
  BY <1>2, <1>3
<1>5. x - 1 + 1 \in S
  BY <1>3, <1>4
<1>6. QED
  BY <1>2, <1>3, <1>5

\* A recursion on bounded naturals whose step at n reads the values below n only.
Downward(D, V, F) ==
  /\ F \in [D \X [D -> V] -> V]
  /\ \A n \in D : \A f, g \in [D -> V] :
       (\A m \in D : m < n => f[m] = g[m]) => F[<<n, f>>] = F[<<n, g>>]

Solves(f, D, V, F) == f \in [D -> V] /\ \A n \in D : f[n] = F[<<n, f>>]

LEMMA RecursionDefines ==
  ASSUME NEW hi \in Nat, NEW D, D \subseteq 0..hi, NEW V, V # {}, NEW F, Downward(D, V, F)
  PROVE  \E f : Solves(f, D, V, F)
<1>0. \A n \in D : n \in Nat /\ n <= hi
  <2>1. \A n \in D : n \in 0..hi
    OBVIOUS
  <2>2. QED
    BY <2>1
<1> USE DEF Downward
<1> DEFINE S == {k \in Nat : \E f \in [D -> V] : \A n \in D : n < k => f[n] = F[<<n, f>>]}
<1>1. 0 \in S
  <2>1. PICK v \in V : TRUE
    OBVIOUS
  <2>2. [n \in D |-> v] \in [D -> V]
    OBVIOUS
  <2>3. \A n \in D : ~(n < 0)
    BY <1>0
  <2>4. QED
    BY <2>2, <2>3
<1>2. ASSUME NEW k \in Nat, k \in S
      PROVE  k + 1 \in S
  <2>1. PICK f \in [D -> V] : \A n \in D : n < k => f[n] = F[<<n, f>>]
    BY <1>2
  <2>2. CASE k \in D
    <3>1. PICK g : g = [f EXCEPT ![k] = F[<<k, f>>]]
      OBVIOUS
    <3>2. F[<<k, f>>] \in V
      BY <2>2
    <3>3. g \in [D -> V] /\ g[k] = F[<<k, f>>] /\ \A m \in D : m # k => g[m] = f[m]
      BY <2>2, <3>1, <3>2
    <3>4. ASSUME NEW n \in D, n < k + 1
          PROVE  g[n] = F[<<n, g>>]
      <4>1. \A m \in D : m < n => f[m] = g[m]
        <5>1. SUFFICES ASSUME NEW m \in D, m < n PROVE f[m] = g[m]
          OBVIOUS
        <5>2. m # k
          BY <1>0, <3>4, <5>1
        <5>3. QED
          BY <3>3, <5>2
      <4>2. F[<<n, f>>] = F[<<n, g>>]
        BY <3>3, <4>1
      <4>3. n = k \/ n < k
        BY <1>0, <3>4
      <4>4. QED
        BY <2>1, <3>3, <4>2, <4>3
    <3>5. g \in [D -> V] /\ \A n \in D : n < k + 1 => g[n] = F[<<n, g>>]
      BY <3>3, <3>4
    <3>6. k + 1 \in Nat
      OBVIOUS
    <3>7. QED
      BY <3>5, <3>6
  <2>3. CASE k \notin D
    <3>1. \A n \in D : n < k + 1 => n < k
      BY <1>0, <2>3
    <3>2. \A n \in D : n < k + 1 => f[n] = F[<<n, f>>]
      BY <2>1, <3>1
    <3>3. k + 1 \in Nat
      OBVIOUS
    <3>4. QED
      BY <3>2, <3>3
  <2>4. QED
    BY <2>2, <2>3
<1>3. hi + 1 \in S
  <2> HIDE DEF S
  <2>1. QED
    BY <1>1, <1>2, Induct
<1>4. ASSUME NEW n \in D
      PROVE  n < hi + 1
  <2>1. n \in Nat /\ n <= hi /\ hi \in Nat
    BY <1>0
  <2> HIDE DEF S
  <2>2. QED
    BY <2>1
<1>5. QED
  BY <1>3, <1>4 DEF Solves


-----------------------------------------------------------------------------
(* MemoryStore: the log as the replay paths read it *)

\* The event adds a record of these epochs to a log.
Counts(e, epochs) == Memory!IsRecord(e) /\ e.record.epoch \in epochs

LEMMA EventTypes ==
  ASSUME NEW e \in Memory!Event
  PROVE  /\ Memory!IsRecord(e) \/ Memory!IsCheckpoint(e)
         /\ Memory!IsRecord(e) => e.record \in Memory!Record /\ ~Memory!IsCheckpoint(e)
         /\ Memory!IsCheckpoint(e) => /\ e.epoch \in Nat /\ e.snapshot \subseteq Memory!Record
                                      /\ ~Memory!IsRecord(e)
  BY DEF Memory!Event, Memory!IsRecord, Memory!IsCheckpoint

\* The recursion of RecordsOf: what the first n events of a log give.
Upto(f, evs, epochs) ==
  f = [n \in 0..Len(evs) |->
         IF n = 0 THEN <<>>
         ELSE IF Memory!IsRecord(evs[n]) /\ evs[n].record.epoch \in epochs
         THEN Append(f[n - 1], evs[n].record)
         ELSE f[n - 1]]

LEMMA UptoExists ==
  ASSUME NEW evs \in Seq(Memory!Event), NEW epochs
  PROVE  \E f : Upto(f, evs, epochs)
<1> DEFINE D == 0..Len(evs)
           V == Seq(Memory!Record)
           Step(f, n) == IF n = 0 THEN <<>>
                         ELSE IF Memory!IsRecord(evs[n]) /\ evs[n].record.epoch \in epochs
                         THEN Append(f[n - 1], evs[n].record)
                         ELSE f[n - 1]
           F == [x \in D \X [D -> V] |-> Step(x[2], x[1])]
<1>1. Len(evs) \in Nat /\ D \subseteq 0..Len(evs) /\ V # {}
  <2>1. Len(evs) \in Nat
    OBVIOUS
  <2>2. <<>> \in V
    OBVIOUS
  <2>3. QED
    BY <2>1, <2>2
<1>2. \A n \in D : n # 0 => n - 1 \in D /\ n \in DOMAIN evs
  <2>1. DOMAIN evs = 1..Len(evs)
    OBVIOUS
  <2>2. SUFFICES ASSUME NEW n \in D, n # 0 PROVE n - 1 \in D /\ n \in DOMAIN evs
    OBVIOUS
  <2>3. QED
    BY <1>1, <2>1, <2>2
<1>3. ASSUME NEW n \in D, NEW f \in [D -> V]
      PROVE  Step(f, n) \in V
  <2>1. CASE n = 0
    BY <2>1
  <2>2. CASE n # 0
    <3>1. n - 1 \in D /\ evs[n] \in Memory!Event
      BY <1>2, <2>2
    <3>2. f[n - 1] \in V
      BY <3>1
    <3>3. Memory!IsRecord(evs[n]) => evs[n].record \in Memory!Record
      BY <3>1, EventTypes
    <3>4. Memory!IsRecord(evs[n]) => Append(f[n - 1], evs[n].record) \in V
      BY <3>2, <3>3
    <3>5. QED
      BY <2>2, <3>2, <3>4
  <2>3. QED
    BY <2>1, <2>2
<1>4. \A n \in D, f \in [D -> V] : F[<<n, f>>] = Step(f, n)
  OBVIOUS
<1>5. Downward(D, V, F)
  <2>1. F \in [D \X [D -> V] -> V]
    <3> HIDE DEF Step
    <3>1. QED
      BY <1>3
  <2>2. ASSUME NEW n \in D, NEW f \in [D -> V], NEW g \in [D -> V],
               \A m \in D : m < n => f[m] = g[m]
        PROVE  F[<<n, f>>] = F[<<n, g>>]
    <3>1. n # 0 => n - 1 \in D /\ n - 1 < n
      BY <1>2
    <3>2. n # 0 => f[n - 1] = g[n - 1]
      BY <2>2, <3>1
    <3>3. Step(f, n) = Step(g, n)
      BY <3>2
    <3> HIDE DEF F, Step
    <3>4. QED
      BY <1>4, <3>3
  <2> HIDE DEF D, V, F, Step
  <2>3. QED
    BY <2>1, <2>2 DEF Downward
<1>6. PICK f : Solves(f, D, V, F)
  <2> HIDE DEF D, V, F, Step
  <2>1. QED
    BY <1>1, <1>5, RecursionDefines
<1>7. f \in [D -> V] /\ \A n \in D : f[n] = Step(f, n)
  <2> HIDE DEF D, V, F, Step
  <2>1. QED
    BY <1>4, <1>6 DEF Solves
<1>8. f = [n \in D |-> Step(f, n)]
  <2> HIDE DEF D, V, Step
  <2>1. QED
    BY <1>7
<1>9. QED
  BY <1>8 DEF Upto

LEMMA UptoDefines ==
  ASSUME NEW evs \in Seq(Memory!Event), NEW epochs
  PROVE  \E f : Upto(f, evs, epochs) /\ Memory!RecordsOf(evs, epochs) = f[Len(evs)]
<1> DEFINE upto[n \in 0..Len(evs)] ==
             IF n = 0 THEN <<>>
             ELSE IF Memory!IsRecord(evs[n]) /\ evs[n].record.epoch \in epochs
             THEN Append(upto[n - 1], evs[n].record)
             ELSE upto[n - 1]
<1>1. Memory!RecordsOf(evs, epochs) = upto[Len(evs)]
  BY Zenon DEF Memory!RecordsOf
<1>2. Upto(upto, evs, epochs)
  <2>1. \E f : Upto(f, evs, epochs)
    BY UptoExists
  <2>2. QED
    BY <2>1, Zenon DEF Upto
<1>3. QED
  BY <1>1, <1>2

LEMMA UptoAt ==
  ASSUME NEW evs \in Seq(Memory!Event), NEW epochs, NEW f, Upto(f, evs, epochs)
  PROVE  /\ f[0] = <<>>
         /\ \A n \in 1..Len(evs) :
              f[n] = IF Counts(evs[n], epochs) THEN Append(f[n - 1], evs[n].record) ELSE f[n - 1]
<1>1. Len(evs) \in Nat
  OBVIOUS
<1>2. \A n \in 0..Len(evs) :
        f[n] = IF n = 0 THEN <<>>
               ELSE IF Counts(evs[n], epochs) THEN Append(f[n - 1], evs[n].record) ELSE f[n - 1]
  BY Zenon DEF Upto, Counts
<1>3. 0 \in 0..Len(evs) /\ \A n \in 1..Len(evs) : n \in 0..Len(evs) /\ n # 0
  BY <1>1
<1>4. QED
  BY <1>2, <1>3, Zenon

\* What an empty log, and one more event, give.
LEMMA RecordsBegin ==
  ASSUME NEW epochs
  PROVE  Memory!RecordsOf(<<>>, epochs) = <<>>
<1>1. <<>> \in Seq(Memory!Event)
  OBVIOUS
<1>2. PICK f : Upto(f, <<>>, epochs) /\ Memory!RecordsOf(<<>>, epochs) = f[Len(<<>>)]
  BY <1>1, UptoDefines
<1>3. f[0] = <<>> /\ Len(<<>>) = 0
  BY <1>1, <1>2, UptoAt
<1>4. QED
  BY <1>2, <1>3

LEMMA RecordsAppend ==
  ASSUME NEW evs \in Seq(Memory!Event), NEW e \in Memory!Event, NEW epochs
  PROVE  Memory!RecordsOf(Append(evs, e), epochs)
           = IF Counts(e, epochs) THEN Append(Memory!RecordsOf(evs, epochs), e.record)
             ELSE Memory!RecordsOf(evs, epochs)
<1> DEFINE more == Append(evs, e)
<1>1. /\ more \in Seq(Memory!Event) /\ Len(more) = Len(evs) + 1 /\ more[Len(evs) + 1] = e
      /\ \A i \in 1..Len(evs) : more[i] = evs[i]
      /\ Len(evs) \in Nat
  OBVIOUS
<1> HIDE DEF more
<1>2. PICK f : Upto(f, evs, epochs) /\ Memory!RecordsOf(evs, epochs) = f[Len(evs)]
  BY UptoDefines
<1>3. PICK g : Upto(g, more, epochs) /\ Memory!RecordsOf(more, epochs) = g[Len(more)]
  BY <1>1, UptoDefines
<1>4. /\ f[0] = <<>>
      /\ \A n \in 1..Len(evs) :
           f[n] = IF Counts(evs[n], epochs) THEN Append(f[n - 1], evs[n].record) ELSE f[n - 1]
  BY <1>2, UptoAt
<1>5. /\ g[0] = <<>>
      /\ \A n \in 1..Len(more) :
           g[n] = IF Counts(more[n], epochs) THEN Append(g[n - 1], more[n].record) ELSE g[n - 1]
  BY <1>1, <1>3, UptoAt
<1> DEFINE Same == {n \in Nat : n <= Len(evs) => g[n] = f[n]}
<1>6. 0 \in Same
  BY <1>4, <1>5
<1>7. ASSUME NEW n \in Nat, n \in Same
      PROVE  n + 1 \in Same
  <2>1. SUFFICES ASSUME n + 1 <= Len(evs) PROVE g[n + 1] = f[n + 1]
    OBVIOUS
  <2>2. n + 1 \in 1..Len(evs) /\ n + 1 \in 1..Len(more) /\ n + 1 - 1 = n /\ n <= Len(evs)
    BY <1>1, <2>1
  <2>3. g[n] = f[n] /\ more[n + 1] = evs[n + 1]
    BY <1>1, <1>7, <2>2
  <2>4. /\ f[n + 1] = IF Counts(evs[n + 1], epochs) THEN Append(f[n], evs[n + 1].record) ELSE f[n]
        /\ g[n + 1] = IF Counts(more[n + 1], epochs) THEN Append(g[n], more[n + 1].record) ELSE g[n]
    BY <1>4, <1>5, <2>2
  <2>5. QED
    BY <2>3, <2>4
<1>8. \A n \in Nat : n \in Same
  <2> HIDE DEF Same
  <2>1. QED
    BY <1>6, <1>7, Induct
<1>9. g[Len(evs)] = f[Len(evs)]
  BY <1>1, <1>8
<1>10. Len(evs) + 1 \in 1..Len(more) /\ Len(evs) + 1 - 1 = Len(evs)
  BY <1>1
<1>11. g[Len(evs) + 1] = IF Counts(e, epochs) THEN Append(g[Len(evs)], e.record) ELSE g[Len(evs)]
  BY <1>1, <1>5, <1>10
<1>12. QED
  BY <1>1, <1>2, <1>3, <1>9, <1>11 DEF more

LEMMA RecordsTyped ==
  ASSUME NEW evs \in Seq(Memory!Event), NEW epochs
  PROVE  /\ Memory!RecordsOf(evs, epochs) \in Seq(Memory!Record)
         /\ (\A i \in DOMAIN evs : ~Counts(evs[i], epochs)) => Memory!RecordsOf(evs, epochs) = <<>>
<1>1. PICK f : Upto(f, evs, epochs) /\ Memory!RecordsOf(evs, epochs) = f[Len(evs)]
  BY UptoDefines
<1>2. /\ f[0] = <<>>
      /\ \A n \in 1..Len(evs) :
           f[n] = IF Counts(evs[n], epochs) THEN Append(f[n - 1], evs[n].record) ELSE f[n - 1]
  BY <1>1, UptoAt
<1>3. /\ Len(evs) \in Nat /\ DOMAIN evs = 1..Len(evs)
      /\ \A n \in 1..Len(evs) : evs[n] \in Memory!Event
  OBVIOUS
<1> DEFINE None == \A i \in DOMAIN evs : ~Counts(evs[i], epochs)
           Typed == {n \in Nat : n <= Len(evs) => /\ f[n] \in Seq(Memory!Record)
                                                  /\ None => f[n] = <<>>}
<1>4. 0 \in Typed
  <2>1. <<>> \in Seq(Memory!Record)
    OBVIOUS
  <2>2. QED
    BY <1>2, <2>1
<1>5. ASSUME NEW n \in Nat, n \in Typed
      PROVE  n + 1 \in Typed
  <2>1. SUFFICES ASSUME n + 1 <= Len(evs)
                 PROVE  f[n + 1] \in Seq(Memory!Record) /\ (None => f[n + 1] = <<>>)
    OBVIOUS
  <2>2. n + 1 \in 1..Len(evs) /\ n + 1 - 1 = n /\ n <= Len(evs)
    BY <1>3, <2>1
  <2>3. f[n] \in Seq(Memory!Record) /\ (None => f[n] = <<>>)
    BY <1>5, <2>2
  <2>4. f[n + 1] = IF Counts(evs[n + 1], epochs) THEN Append(f[n], evs[n + 1].record) ELSE f[n]
    BY <1>2, <2>2
  <2>5. CASE Counts(evs[n + 1], epochs)
    <3>1. evs[n + 1].record \in Memory!Record
      BY <1>3, <2>2, <2>5, EventTypes DEF Counts
    <3>2. ~None
      BY <1>3, <2>2, <2>5
    <3>3. f[n + 1] \in Seq(Memory!Record)
      BY <2>3, <2>4, <2>5, <3>1
    <3> HIDE DEF None
    <3>4. QED
      BY <3>2, <3>3
  <2>6. CASE ~Counts(evs[n + 1], epochs)
    <3> HIDE DEF None
    <3>1. QED
      BY <2>3, <2>4, <2>6
  <2>7. QED
    BY <2>5, <2>6
<1>6. \A n \in Nat : n \in Typed
  <2> HIDE DEF Typed
  <2>1. QED
    BY <1>4, <1>5, Induct
<1>7. f[Len(evs)] \in Seq(Memory!Record) /\ (None => f[Len(evs)] = <<>>)
  BY <1>3, <1>6
<1>8. QED
  BY <1>1, <1>7

-----------------------------------------------------------------------------
(* The newest record of a node, in any log *)

\* Every node that has a record has a newest one, and likewise with validated ones.
HasNewest(lg) ==
  \A i \in DOMAIN lg : \E j \in DOMAIN lg : lg[j].node = lg[i].node /\ Memory!IsLatest(lg, j)
HasNewestValidated(lg) ==
  \A i \in DOMAIN lg : lg[i].status = "validated" =>
    \E j \in DOMAIN lg : lg[j].node = lg[i].node /\ Memory!IsLatestValidated(lg, j)

\* The attempt is above all those of the node.
Tops(lg, r) == \A i \in DOMAIN lg : lg[i].node = r.node => lg[i].attempt < r.attempt

LEMMA LogTypes ==
  ASSUME NEW lg \in Seq(Memory!Record)
  PROVE  /\ Len(lg) \in Nat /\ DOMAIN lg = 1..Len(lg)
         /\ \A i \in DOMAIN lg : /\ i \in Nat /\ lg[i] \in Memory!Record
                                 /\ lg[i].attempt \in Nat /\ lg[i].node \in Key
                                 /\ lg[i].epoch \in Nat /\ lg[i].output \in Output
<1>1. /\ Len(lg) \in Nat /\ DOMAIN lg = 1..Len(lg)
      /\ \A i \in DOMAIN lg : i \in Nat /\ lg[i] \in Memory!Record
  OBVIOUS
<1>2. \A r \in Memory!Record : /\ r.attempt \in Nat /\ r.node \in Key /\ r.epoch \in Nat
                               /\ r.output \in Output
  BY DEF Memory!Record
<1>3. QED
  BY <1>1, <1>2

LEMMA LatestIsOne ==
  ASSUME NEW lg \in Seq(Memory!Record), NEW i \in DOMAIN lg, NEW j \in DOMAIN lg,
         lg[i].node = lg[j].node, Memory!IsLatest(lg, i), Memory!IsLatest(lg, j)
  PROVE  i = j
<1>1. /\ i \in Nat /\ j \in Nat /\ lg[i].attempt \in Nat /\ lg[j].attempt \in Nat
  BY LogTypes
<1>2. j = i \/ Memory!Supersedes(lg, i, j)
  BY DEF Memory!IsLatest
<1>3. i = j \/ Memory!Supersedes(lg, j, i)
  BY DEF Memory!IsLatest
<1>4. QED
  BY <1>1, <1>2, <1>3 DEF Memory!Supersedes

\* A newest record that is validated is the newest validated one.
LEMMA LatestIsValidated ==
  ASSUME NEW lg, NEW i \in DOMAIN lg, Memory!IsLatest(lg, i), lg[i].status = "validated"
  PROVE  Memory!IsLatestValidated(lg, i)
  BY DEF Memory!IsLatest, Memory!IsLatestValidated

\* A record above all of its node's is the newest, and the others' stay.
LEMMA AppendTop ==
  ASSUME NEW lg \in Seq(Memory!Record), NEW r \in Memory!Record, Tops(lg, r)
  PROVE  \A i \in DOMAIN Append(lg, r) :
           Memory!IsLatest(Append(lg, r), i)
             <=> \/ i = Len(lg) + 1
                 \/ i \in DOMAIN lg /\ lg[i].node # r.node /\ Memory!IsLatest(lg, i)
<1> DEFINE more == Append(lg, r)
<1>1. /\ DOMAIN more = DOMAIN lg \cup {Len(lg) + 1}
      /\ \A i \in DOMAIN lg : more[i] = lg[i]
      /\ more[Len(lg) + 1] = r
      /\ \A i \in DOMAIN lg : i \in Nat /\ i < Len(lg) + 1
      /\ Len(lg) + 1 \notin DOMAIN lg
      /\ more \in Seq(Memory!Record)
  BY AppendFacts
<1>2. /\ Len(lg) + 1 \in Nat /\ r.attempt \in Nat
      /\ \A i \in DOMAIN lg : lg[i].attempt \in Nat
  <2>1. r.attempt \in Nat
    BY DEF Memory!Record
  <2>2. QED
    BY <2>1, LogTypes
<1> HIDE DEF more
<1>3. Memory!IsLatest(more, Len(lg) + 1)
  <2>1. SUFFICES ASSUME NEW j \in DOMAIN more, more[j].node = more[Len(lg) + 1].node
                 PROVE  j = Len(lg) + 1 \/ Memory!Supersedes(more, Len(lg) + 1, j)
    BY DEF Memory!IsLatest
  <2>2. CASE j \in DOMAIN lg
    <3>1. lg[j].attempt < r.attempt
      BY <1>1, <2>1, <2>2 DEF Tops
    <3>2. more[Len(lg) + 1].attempt > more[j].attempt
      BY <1>1, <1>2, <2>2, <3>1
    <3>3. QED
      BY <3>2 DEF Memory!Supersedes
  <2>3. QED
    BY <1>1, <2>2
<1>4. ASSUME NEW i \in DOMAIN lg
      PROVE  Memory!IsLatest(more, i) <=> lg[i].node # r.node /\ Memory!IsLatest(lg, i)
  <2>1. \A j \in DOMAIN lg : Memory!Supersedes(more, i, j) <=> Memory!Supersedes(lg, i, j)
    BY <1>1 DEF Memory!Supersedes
  <2>2. ASSUME Memory!IsLatest(more, i), lg[i].node = r.node
        PROVE  FALSE
    <3>1. Len(lg) + 1 = i \/ Memory!Supersedes(more, i, Len(lg) + 1)
      BY <1>1, <2>2 DEF Memory!IsLatest
    <3>2. lg[i].attempt < r.attempt
      BY <2>2 DEF Tops
    <3>3. QED
      BY <1>1, <1>2, <3>1, <3>2 DEF Memory!Supersedes
  <2>3. ASSUME Memory!IsLatest(more, i)
        PROVE  Memory!IsLatest(lg, i)
    BY <1>1, <2>1, <2>3 DEF Memory!IsLatest
  <2>4. ASSUME lg[i].node # r.node, Memory!IsLatest(lg, i)
        PROVE  Memory!IsLatest(more, i)
    <3>1. SUFFICES ASSUME NEW j \in DOMAIN more, more[j].node = more[i].node
                   PROVE  j = i \/ Memory!Supersedes(more, i, j)
      BY DEF Memory!IsLatest
    <3>2. j \in DOMAIN lg /\ lg[j].node = lg[i].node
      BY <1>1, <2>4, <3>1
    <3>3. QED
      BY <2>1, <2>4, <3>2 DEF Memory!IsLatest
  <2>5. QED
    BY <2>2, <2>3, <2>4
<1>5. QED
  BY <1>1, <1>3, <1>4 DEF more

\* One more record, whatever its attempt, leaves every node with a newest one.
LEMMA AppendNewest ==
  ASSUME NEW lg \in Seq(Memory!Record), NEW r \in Memory!Record
  PROVE  /\ HasNewest(lg) => HasNewest(Append(lg, r))
         /\ HasNewestValidated(lg) => HasNewestValidated(Append(lg, r))
<1> DEFINE more == Append(lg, r)
           new == Len(lg) + 1
<1>1. /\ DOMAIN more = DOMAIN lg \cup {new}
      /\ \A i \in DOMAIN lg : more[i] = lg[i]
      /\ more[new] = r
      /\ \A i \in DOMAIN lg : i \in Nat /\ i < new
      /\ new \notin DOMAIN lg
  BY AppendFacts
<1>2. /\ new \in Nat /\ r.attempt \in Nat
      /\ \A i \in DOMAIN lg : lg[i].attempt \in Nat
  <2>1. r.attempt \in Nat
    BY DEF Memory!Record
  <2>2. QED
    BY <2>1, LogTypes
<1> HIDE DEF more, new
<1>3. \A i, j \in DOMAIN lg : Memory!Supersedes(more, i, j) <=> Memory!Supersedes(lg, i, j)
  BY <1>1 DEF Memory!Supersedes
<1>4. ASSUME NEW i \in DOMAIN lg
      PROVE  Memory!Supersedes(more, i, new) \/ Memory!Supersedes(more, new, i)
  <2>1. i < new /\ more[i].attempt \in Nat /\ more[new].attempt \in Nat /\ i \in Nat
    BY <1>1, <1>2
  <2>2. QED
    BY <1>2, <2>1 DEF Memory!Supersedes
<1>5. ASSUME NEW i \in DOMAIN lg, NEW j \in DOMAIN lg,
             Memory!Supersedes(more, new, i), i = j \/ Memory!Supersedes(lg, i, j)
      PROVE  Memory!Supersedes(more, new, j)
  <2>1. /\ i \in Nat /\ j \in Nat /\ i < new /\ j < new
        /\ more[i] = lg[i] /\ more[j] = lg[j] /\ more[new] = r
        /\ lg[i].attempt \in Nat /\ lg[j].attempt \in Nat
    BY <1>1, <1>2
  <2>2. QED
    BY <1>2, <1>5, <2>1 DEF Memory!Supersedes
<1>6. ASSUME HasNewest(lg)
      PROVE  HasNewest(more)
  <2>1. SUFFICES ASSUME NEW i \in DOMAIN more
                 PROVE  \E j \in DOMAIN more : more[j].node = more[i].node /\ Memory!IsLatest(more, j)
    BY DEF HasNewest
  <2>2. CASE \E m \in DOMAIN lg : lg[m].node = more[i].node
    <3>1. PICK m \in DOMAIN lg : lg[m].node = more[i].node /\ Memory!IsLatest(lg, m)
      BY <1>6, <2>2 DEF HasNewest
    <3>2. CASE r.node = more[i].node /\ Memory!Supersedes(more, new, m)
      <4>1. \A j \in DOMAIN lg : lg[j].node = more[i].node => Memory!Supersedes(more, new, j)
        BY <1>5, <3>1, <3>2 DEF Memory!IsLatest
      <4>2. Memory!IsLatest(more, new)
        BY <1>1, <3>2, <4>1 DEF Memory!IsLatest
      <4>3. QED
        BY <1>1, <3>2, <4>2
    <3>3. CASE r.node # more[i].node \/ Memory!Supersedes(more, m, new)
      <4>1. Memory!IsLatest(more, m)
        BY <1>1, <1>3, <3>1, <3>3 DEF Memory!IsLatest
      <4>2. QED
        BY <1>1, <3>1, <4>1
    <3>4. QED
      BY <1>4, <3>2, <3>3
  <2>3. CASE ~ \E m \in DOMAIN lg : lg[m].node = more[i].node
    <3>1. i = new
      BY <1>1, <2>3
    <3>2. Memory!IsLatest(more, new)
      BY <1>1, <2>3, <3>1 DEF Memory!IsLatest
    <3>3. QED
      BY <1>1, <3>1, <3>2
  <2>4. QED
    BY <2>2, <2>3
<1>7. ASSUME HasNewestValidated(lg)
      PROVE  HasNewestValidated(more)
  <2>1. SUFFICES ASSUME NEW i \in DOMAIN more, more[i].status = "validated"
                 PROVE  \E j \in DOMAIN more : /\ more[j].node = more[i].node
                                               /\ Memory!IsLatestValidated(more, j)
    BY DEF HasNewestValidated
  <2>2. CASE \E m \in DOMAIN lg : lg[m].node = more[i].node /\ lg[m].status = "validated"
    <3>1. PICK m \in DOMAIN lg : lg[m].node = more[i].node /\ Memory!IsLatestValidated(lg, m)
      BY <1>7, <2>2 DEF HasNewestValidated
    <3>2. CASE /\ r.node = more[i].node /\ r.status = "validated"
               /\ Memory!Supersedes(more, new, m)
      <4>1. \A j \in DOMAIN lg : lg[j].node = more[i].node /\ lg[j].status = "validated"
              => Memory!Supersedes(more, new, j)
        BY <1>5, <3>1, <3>2 DEF Memory!IsLatestValidated
      <4>2. Memory!IsLatestValidated(more, new)
        BY <1>1, <3>2, <4>1 DEF Memory!IsLatestValidated
      <4>3. QED
        BY <1>1, <3>2, <4>2
    <3>3. CASE r.node # more[i].node \/ r.status # "validated" \/ Memory!Supersedes(more, m, new)
      <4>1. Memory!IsLatestValidated(more, m)
        BY <1>1, <1>3, <3>1, <3>3 DEF Memory!IsLatestValidated
      <4>2. QED
        BY <1>1, <3>1, <4>1
    <3>4. QED
      BY <1>4, <3>2, <3>3
  <2>3. CASE ~ \E m \in DOMAIN lg : lg[m].node = more[i].node /\ lg[m].status = "validated"
    <3>1. i = new
      BY <1>1, <2>1, <2>3
    <3>2. Memory!IsLatestValidated(more, new)
      BY <1>1, <2>1, <2>3, <3>1 DEF Memory!IsLatestValidated
    <3>3. QED
      BY <1>1, <3>1, <3>2
  <2>4. QED
    BY <2>2, <2>3
<1>8. QED
  BY <1>6, <1>7 DEF more

\* Within a sequence of one record per node every record is the newest.
LEMMA SetListed ==
  ASSUME NEW S, IsFiniteSet(S)
  PROVE  /\ Memory!SetToSeq(S) \in Seq(S)
         /\ \A s \in S : \E i \in DOMAIN Memory!SetToSeq(S) : Memory!SetToSeq(S)[i] = s
         /\ \A i, j \in DOMAIN Memory!SetToSeq(S) :
              Memory!SetToSeq(S)[i] = Memory!SetToSeq(S)[j] => i = j
<1>1. Cardinality(S) \in Nat /\ ExistsBijection(1..Cardinality(S), S)
  BY FS_CardinalityType
<1>2. PICK f \in [1..Cardinality(S) -> S] : \A i, j \in 1..Cardinality(S) : f[i] = f[j] => i = j
  BY <1>1 DEF ExistsBijection, Bijection, Injection, IsInjective
<1>3. \E g \in [1..Cardinality(S) -> S] : Memory!IsInjective(g)
  BY <1>2 DEF Memory!IsInjective
<1>4. /\ Memory!SetToSeq(S) \in [1..Cardinality(S) -> S]
      /\ Memory!IsInjective(Memory!SetToSeq(S))
  <2>1. Memory!Cardinality(S) = Cardinality(S)
    BY Zenon DEF Memory!Cardinality, Cardinality
  <2>2. QED
    BY <1>3, <2>1 DEF Memory!SetToSeq
<1>5. PICK g : g = Memory!SetToSeq(S)
  OBVIOUS
<1>6. /\ g \in [1..Cardinality(S) -> S] /\ DOMAIN g = 1..Cardinality(S)
      /\ \A i, j \in DOMAIN g : g[i] = g[j] => i = j
  BY <1>4, <1>5 DEF Memory!IsInjective
<1>7. g \in Injection(1..Cardinality(S), S)
  BY <1>6 DEF Injection, IsInjective
<1>8. IsFiniteSet(1..Cardinality(S)) /\ Cardinality(1..Cardinality(S)) = Cardinality(S)
  BY <1>1, FS_Interval
<1>9. g \in Surjection(1..Cardinality(S), S)
  BY <1>7, <1>8, FS_Injection
<1>10. \A s \in S : \E i \in DOMAIN g : g[i] = s
  BY <1>6, <1>9 DEF Surjection
<1>11. g \in Seq(S)
  BY <1>1, <1>6
<1>12. QED
  BY <1>5, <1>6, <1>10, <1>11

LEMMA SnapshotTyped ==
  ASSUME NEW lg \in Seq(Memory!Record)
  PROVE  /\ Memory!Snapshot(lg) \subseteq Memory!Record
         /\ IsFiniteSet(Memory!Snapshot(lg))
         /\ \A s \in Memory!Snapshot(lg) :
              \E i \in DOMAIN lg : lg[i] = s /\ Memory!IsLatest(lg, i)
         /\ \A i \in DOMAIN lg : Memory!IsLatest(lg, i) => lg[i] \in Memory!Snapshot(lg)
         /\ \A s, t \in Memory!Snapshot(lg) : s.node = t.node => s = t
<1> DEFINE I == {i \in DOMAIN lg : Memory!IsLatest(lg, i)}
<1>1. \A i \in DOMAIN lg : lg[i] \in Memory!Record
  BY LogTypes
<1>2. IsFiniteSet(I)
  <2>1. IsFiniteSet(DOMAIN lg)
    <3>1. Len(lg) \in Nat /\ DOMAIN lg = 1..Len(lg)
      BY LogTypes
    <3>2. QED
      BY <3>1, FS_Interval
  <2>2. I \in SUBSET (DOMAIN lg)
    OBVIOUS
  <2> HIDE DEF I
  <2>3. QED
    BY <2>1, <2>2, FS_Subset
<1>3. IsFiniteSet({lg[i] : i \in I})
  <2>1. PICK f : f = [i \in I |-> lg[i]]
    OBVIOUS
  <2>2. f \in Surjection(I, {lg[i] : i \in I})
    <3> HIDE DEF I
    <3>1. QED
      BY <2>1 DEF Surjection
  <2> HIDE DEF I
  <2>3. QED
    BY <1>2, <2>2, FS_Surjection
<1>4. Memory!Snapshot(lg) = {lg[i] : i \in I}
  BY DEF Memory!Snapshot
<1>5. \A s \in Memory!Snapshot(lg) : \E i \in DOMAIN lg : lg[i] = s /\ Memory!IsLatest(lg, i)
  BY <1>4
<1>6. \A i \in DOMAIN lg : Memory!IsLatest(lg, i) => lg[i] \in Memory!Snapshot(lg)
  BY <1>4
<1>7. ASSUME NEW s \in Memory!Snapshot(lg), NEW t \in Memory!Snapshot(lg), s.node = t.node
      PROVE  s = t
  <2>1. PICK i \in DOMAIN lg : lg[i] = s /\ Memory!IsLatest(lg, i)
    BY <1>5
  <2>2. PICK j \in DOMAIN lg : lg[j] = t /\ Memory!IsLatest(lg, j)
    BY <1>5
  <2>3. i = j
    BY <1>7, <2>1, <2>2, LatestIsOne
  <2>4. QED
    BY <2>1, <2>2, <2>3
<1>8. Memory!Snapshot(lg) \subseteq Memory!Record
  BY <1>1, <1>5
<1>9. QED
  BY <1>3, <1>4, <1>5, <1>6, <1>7, <1>8

\* The log a checkpoint is rehydrated to: one record per node, the newest.
LEMMA SnapshotListed ==
  ASSUME NEW lg \in Seq(Memory!Record), NEW st, st = Memory!SetToSeq(Memory!Snapshot(lg))
  PROVE  /\ st \in Seq(Memory!Record)
         /\ \A i \in DOMAIN st : st[i] \in Memory!Snapshot(lg) /\ Memory!IsLatest(st, i)
         /\ \A s \in Memory!Snapshot(lg) : \E i \in DOMAIN st : st[i] = s
         /\ HasNewest(st)
         /\ Memory!Snapshot(st) = Memory!Snapshot(lg)
<1>1. /\ Memory!Snapshot(lg) \subseteq Memory!Record
      /\ IsFiniteSet(Memory!Snapshot(lg))
      /\ \A s, t \in Memory!Snapshot(lg) : s.node = t.node => s = t
  BY SnapshotTyped
<1>2. /\ st \in Seq(Memory!Snapshot(lg))
      /\ \A s \in Memory!Snapshot(lg) : \E i \in DOMAIN st : st[i] = s
      /\ \A i, j \in DOMAIN st : st[i] = st[j] => i = j
  BY <1>1, SetListed
<1>3. \A i \in DOMAIN st : st[i] \in Memory!Snapshot(lg)
  BY <1>2
<1>4. st \in Seq(Memory!Record)
  BY <1>1, <1>2
<1>5. \A i, j \in DOMAIN st : st[i].node = st[j].node => i = j
  BY <1>1, <1>2, <1>3
<1>6. \A i \in DOMAIN st : Memory!IsLatest(st, i)
  BY <1>5 DEF Memory!IsLatest
<1>7. HasNewest(st)
  BY <1>6 DEF HasNewest
<1>8. Memory!Snapshot(st) = Memory!Snapshot(lg)
  <2>1. Memory!Snapshot(st) = {st[i] : i \in DOMAIN st}
    BY <1>6 DEF Memory!Snapshot
  <2>2. QED
    BY <1>2, <1>3, <2>1
<1>9. QED
  BY <1>2, <1>3, <1>4, <1>6, <1>7, <1>8

-----------------------------------------------------------------------------
(* What a resume reads, as the log grows *)

IsTop(evs, i) ==
  /\ i \in Memory!Checkpoints(evs)
  /\ \A j \in Memory!Checkpoints(evs) :
       \/ j = i
       \/ evs[i].epoch > evs[j].epoch
       \/ evs[i].epoch = evs[j].epoch /\ i > j

\* There is a latest checkpoint, if any, and snapshots are finite.
HasTop(evs) ==
  /\ Memory!Checkpoints(evs) # {} => \E i \in Memory!Checkpoints(evs) : IsTop(evs, i)
  /\ \A i \in Memory!Checkpoints(evs) : IsFiniteSet(evs[i].snapshot)

\* The epoch a resume opens.
Now(evs) ==
  IF Memory!Checkpoints(evs) = {} THEN 0 ELSE evs[Memory!LatestCheckpoint(evs)].epoch + 1

\* No record is of a later epoch.
Closed(evs) == \A i \in DOMAIN evs : Memory!IsRecord(evs[i]) => evs[i].record.epoch <= Now(evs)

LEMMA CheckpointTypes ==
  ASSUME NEW evs \in Seq(Memory!Event)
  PROVE  \A i \in Memory!Checkpoints(evs) :
           /\ i \in Nat /\ i \in DOMAIN evs /\ evs[i].epoch \in Nat
           /\ evs[i].snapshot \subseteq Memory!Record /\ Memory!IsCheckpoint(evs[i])
<1>1. \A i \in DOMAIN evs : i \in Nat /\ evs[i] \in Memory!Event
  OBVIOUS
<1>2. QED
  BY <1>1, EventTypes DEF Memory!Checkpoints

LEMMA TopIsLatest ==
  ASSUME NEW evs \in Seq(Memory!Event), NEW i, IsTop(evs, i)
  PROVE  Memory!LatestCheckpoint(evs) = i
<1>1. i \in Memory!Checkpoints(evs)
  BY DEF IsTop
<1>2. ASSUME NEW j, IsTop(evs, j)
      PROVE  j = i
  <2>1. j \in Memory!Checkpoints(evs)
    BY <1>2 DEF IsTop
  <2>2. /\ i \in Nat /\ j \in Nat /\ evs[i].epoch \in Nat /\ evs[j].epoch \in Nat
    BY <1>1, <2>1, CheckpointTypes
  <2>3. j = i \/ evs[i].epoch > evs[j].epoch \/ (evs[i].epoch = evs[j].epoch /\ i > j)
    BY <2>1 DEF IsTop
  <2>4. i = j \/ evs[j].epoch > evs[i].epoch \/ (evs[j].epoch = evs[i].epoch /\ j > i)
    BY <1>1, <1>2 DEF IsTop
  <2>5. QED
    BY <2>2, <2>3, <2>4
<1>3. PICK l : l = Memory!LatestCheckpoint(evs)
  OBVIOUS
<1>4. IsTop(evs, l)
  <2>1. \E x \in Memory!Checkpoints(evs) : IsTop(evs, x)
    BY <1>1
  <2>2. l \in Memory!Checkpoints(evs) /\ \A j \in Memory!Checkpoints(evs) :
          \/ j = l
          \/ evs[l].epoch > evs[j].epoch
          \/ evs[l].epoch = evs[j].epoch /\ l > j
    BY <1>3, <2>1 DEF Memory!LatestCheckpoint, IsTop
  <2>3. QED
    BY <2>2 DEF IsTop
<1>5. QED
  BY <1>2, <1>3, <1>4

\* One more event: its predecessors keep their places.
Grown(evs, e, more) ==
  /\ more \in Seq(Memory!Event)
  /\ DOMAIN more = DOMAIN evs \cup {Len(evs) + 1}
  /\ \A i \in DOMAIN evs : more[i] = evs[i] /\ i < Len(evs) + 1 /\ i \in Nat
  /\ more[Len(evs) + 1] = e
  /\ Len(evs) + 1 \in Nat /\ Len(evs) + 1 \notin DOMAIN evs
  /\ Memory!IsRecord(e) => Memory!Checkpoints(more) = Memory!Checkpoints(evs)
  /\ Memory!IsCheckpoint(e) =>
       Memory!Checkpoints(more) = Memory!Checkpoints(evs) \cup {Len(evs) + 1}

LEMMA MoreEvents ==
  ASSUME NEW evs \in Seq(Memory!Event), NEW e \in Memory!Event
  PROVE  Grown(evs, e, Append(evs, e))
<1> DEFINE more == Append(evs, e)
<1>1. /\ more \in Seq(Memory!Event)
      /\ DOMAIN more = DOMAIN evs \cup {Len(evs) + 1}
      /\ \A i \in DOMAIN evs : more[i] = evs[i]
      /\ more[Len(evs) + 1] = e
      /\ \A i \in DOMAIN evs : i \in Nat /\ i < Len(evs) + 1
      /\ Len(evs) + 1 \notin DOMAIN evs
  BY AppendFacts
<1>2. Memory!IsRecord(e) => ~Memory!IsCheckpoint(e)
  BY EventTypes
<1>3. Len(evs) + 1 \in Nat
  OBVIOUS
<1> HIDE DEF more
<1>4. Grown(evs, e, more)
  BY <1>1, <1>2, <1>3 DEF Memory!Checkpoints, Grown
<1>5. QED
  BY <1>4 DEF more

LEMMA ViewTyped ==
  ASSUME NEW evs \in Seq(Memory!Event), HasTop(evs)
  PROVE  /\ Memory!Cold(evs) \in Seq(Memory!Record)
         /\ Memory!Replayed(evs) \in Seq(Memory!Record)
         /\ Now(evs) \in Nat
<1>1. \A E : Memory!RecordsOf(evs, E) \in Seq(Memory!Record)
  BY RecordsTyped
<1>2. Memory!Cold(evs) \in Seq(Memory!Record)
  BY <1>1 DEF Memory!Cold
<1>3. CASE Memory!Checkpoints(evs) = {}
  BY <1>2, <1>3 DEF Memory!Replayed, Now
<1>4. CASE Memory!Checkpoints(evs) # {}
  <2>1. PICK i \in Memory!Checkpoints(evs) : IsTop(evs, i)
    BY <1>4 DEF HasTop
  <2>2. Memory!LatestCheckpoint(evs) = i
    BY <2>1, TopIsLatest
  <2>3. IsFiniteSet(evs[i].snapshot) /\ evs[i].snapshot \subseteq Memory!Record /\ evs[i].epoch \in Nat
    BY CheckpointTypes DEF HasTop
  <2>4. Memory!SetToSeq(evs[i].snapshot) \in Seq(evs[i].snapshot)
    BY <2>3, SetListed
  <2>5. Memory!SetToSeq(evs[i].snapshot) \in Seq(Memory!Record)
    BY <2>3, <2>4
  <2>6. PICK w : w = Memory!RecordsOf(evs, {evs[i].epoch + 1})
    OBVIOUS
  <2>7. w \in Seq(Memory!Record)
    BY <1>1, <2>6
  <2>8. Memory!Replayed(evs) = Memory!SetToSeq(evs[i].snapshot) \o w
    BY <1>4, <2>2, <2>6 DEF Memory!Replayed, Memory!Warm
  <2>9. Memory!Replayed(evs) \in Seq(Memory!Record)
    BY <2>5, <2>7, <2>8
  <2>10. QED
    BY <1>2, <1>4, <2>2, <2>3, <2>9 DEF Now
<1>5. QED
  BY <1>3, <1>4

LEMMA ConcatAppend ==
  ASSUME NEW S, NEW s \in Seq(S), NEW t \in Seq(S), NEW r \in S
  PROVE  s \o Append(t, r) = Append(s \o t, r)
  OBVIOUS

\* A record of the open epoch is the last that a resume reads, on either path.
LEMMA RecordAdded ==
  ASSUME NEW evs \in Seq(Memory!Event), HasTop(evs), NEW r \in Memory!Record,
         NEW more, more = Append(evs, Memory!RecordEvent(r))
  PROVE  /\ more \in Seq(Memory!Event) /\ HasTop(more) /\ Now(more) = Now(evs)
         /\ Memory!Cold(more) = Append(Memory!Cold(evs), r)
         /\ r.epoch = Now(evs) =>
              /\ Memory!Replayed(more) = Append(Memory!Replayed(evs), r)
              /\ Closed(evs) => Closed(more)
<1> DEFINE e == Memory!RecordEvent(r)
<1>1. e \in Memory!Event /\ Memory!IsRecord(e) /\ e.record = r /\ r.epoch \in Nat
  BY DEF Memory!RecordEvent, Memory!Event, Memory!IsRecord, Memory!Record
<1> HIDE DEF e
<1>2. /\ more \in Seq(Memory!Event)
      /\ DOMAIN more = DOMAIN evs \cup {Len(evs) + 1}
      /\ \A i \in DOMAIN evs : more[i] = evs[i] /\ i < Len(evs) + 1 /\ i \in Nat
      /\ more[Len(evs) + 1] = e
      /\ Memory!Checkpoints(more) = Memory!Checkpoints(evs)
  <2>1. Grown(evs, e, more)
    <3>1. Grown(evs, e, Append(evs, e))
      BY <1>1, MoreEvents
    <3>2. QED
      BY <3>1 DEF e
  <2>2. QED
    BY <1>1, <2>1 DEF Grown
<1>3. \A E : r.epoch \in E =>
        Memory!RecordsOf(more, E) = Append(Memory!RecordsOf(evs, E), r)
  <2>1. SUFFICES ASSUME NEW E, r.epoch \in E
                 PROVE  Memory!RecordsOf(more, E) = Append(Memory!RecordsOf(evs, E), r)
    OBVIOUS
  <2>2. Counts(e, E)
    BY <1>1, <2>1 DEF Counts
  <2>3. QED
    BY <1>1, <2>2, RecordsAppend DEF e
<1>4. Memory!Cold(more) = Append(Memory!Cold(evs), r)
  BY <1>1, <1>3 DEF Memory!Cold
<1>5. \A i \in Memory!Checkpoints(evs) : i \in DOMAIN evs /\ more[i] = evs[i]
  BY <1>2 DEF Memory!Checkpoints
<1>6. \A i \in Memory!Checkpoints(evs) : IsTop(more, i) <=> IsTop(evs, i)
  BY <1>2, <1>5 DEF IsTop
<1>7. HasTop(more)
  BY <1>2, <1>5, <1>6 DEF HasTop
<1>8. ASSUME Memory!Checkpoints(evs) = {}
      PROVE  /\ Now(more) = Now(evs)
             /\ r.epoch = Now(evs) => Memory!Replayed(more) = Append(Memory!Replayed(evs), r)
  <2>1. Now(more) = Now(evs)
    BY <1>2, <1>8 DEF Now
  <2>2. Memory!Replayed(more) = Append(Memory!Replayed(evs), r)
    BY <1>2, <1>4, <1>8 DEF Memory!Replayed
  <2>3. QED
    BY <2>1, <2>2
<1>9. ASSUME Memory!Checkpoints(evs) # {}
      PROVE  /\ Now(more) = Now(evs)
             /\ r.epoch = Now(evs) => Memory!Replayed(more) = Append(Memory!Replayed(evs), r)
  <2>1. PICK i \in Memory!Checkpoints(evs) : IsTop(evs, i)
    BY <1>9 DEF HasTop
  <2>2. Memory!LatestCheckpoint(evs) = i /\ Memory!LatestCheckpoint(more) = i
    BY <1>2, <1>6, <2>1, TopIsLatest
  <2>3. Now(more) = Now(evs) /\ Now(evs) = evs[i].epoch + 1
    BY <1>2, <1>5, <1>9, <2>2 DEF Now
  <2>4. ASSUME r.epoch = Now(evs)
        PROVE  Memory!Replayed(more) = Append(Memory!Replayed(evs), r)
    <3>1. PICK w : w = Memory!RecordsOf(evs, {evs[i].epoch + 1})
      OBVIOUS
    <3>2. Memory!RecordsOf(more, {evs[i].epoch + 1}) = Append(w, r)
      BY <1>3, <2>3, <2>4, <3>1
    <3>3. PICK st : st = Memory!SetToSeq(evs[i].snapshot)
      OBVIOUS
    <3>4. Memory!Replayed(more) = st \o Append(w, r)
      BY <1>2, <1>5, <1>9, <2>2, <3>2, <3>3 DEF Memory!Replayed, Memory!Warm
    <3>5. Memory!Replayed(evs) = st \o w
      BY <1>9, <2>2, <3>1, <3>3 DEF Memory!Replayed, Memory!Warm
    <3>6. w \in Seq(Memory!Record)
      BY <3>1, RecordsTyped
    <3>7. st \in Seq(Memory!Record)
      <4>1. IsFiniteSet(evs[i].snapshot) /\ evs[i].snapshot \subseteq Memory!Record
        BY CheckpointTypes DEF HasTop
      <4>2. st \in Seq(evs[i].snapshot)
        BY <3>3, <4>1, SetListed
      <4>3. QED
        BY <4>1, <4>2
    <3>8. st \o Append(w, r) = Append(st \o w, r)
      BY <3>6, <3>7, ConcatAppend
    <3>9. QED
      BY <3>4, <3>5, <3>8
  <2>5. QED
    BY <2>3, <2>4
<1>10. Now(more) = Now(evs)
  BY <1>8, <1>9
<1>11. r.epoch = Now(evs) /\ Closed(evs) => Closed(more)
  <2>1. Now(evs) \in Nat
    BY ViewTyped
  <2>2. QED
    BY <1>1, <1>2, <1>10, <2>1 DEF Closed
<1>12. QED
  BY <1>2, <1>4, <1>7, <1>8, <1>9, <1>10, <1>11

\* A checkpoint of the open epoch n closes it: a resume reads its snapshot alone.
CheckpointOf(recs, n) ==
  [kind |-> "checkpoint", epoch |-> n, snapshot |-> Memory!Snapshot(recs)]
Compacts(evs, recs, n, more) ==
  /\ more \in Seq(Memory!Event) /\ HasTop(more)
  /\ Memory!Cold(more) = Memory!Cold(evs)
  /\ n = Now(evs) =>
       /\ Now(more) = n + 1
       /\ Closed(evs) =>
            /\ Closed(more)
            /\ Memory!Replayed(more) = Memory!SetToSeq(Memory!Snapshot(recs))

LEMMA CheckpointAdded ==
  ASSUME NEW evs \in Seq(Memory!Event), HasTop(evs), NEW recs \in Seq(Memory!Record),
         NEW n \in Nat
  PROVE  Compacts(evs, recs, n, Append(evs, CheckpointOf(recs, n)))
<1>a. PICK e : e = CheckpointOf(recs, n)
  OBVIOUS
<1>b. PICK more : more = Append(evs, e)
  OBVIOUS
<1>0. Memory!Snapshot(recs) \subseteq Memory!Record /\ IsFiniteSet(Memory!Snapshot(recs))
  BY SnapshotTyped
<1>1. /\ e \in Memory!Event /\ Memory!IsCheckpoint(e) /\ ~Memory!IsRecord(e)
      /\ e.epoch = n /\ e.snapshot = Memory!Snapshot(recs)
  BY <1>0, <1>a DEF CheckpointOf, Memory!Event, Memory!IsCheckpoint, Memory!IsRecord
<1>2. /\ more \in Seq(Memory!Event)
      /\ DOMAIN more = DOMAIN evs \cup {Len(evs) + 1}
      /\ \A i \in DOMAIN evs : more[i] = evs[i] /\ i < Len(evs) + 1 /\ i \in Nat
      /\ more[Len(evs) + 1] = e
      /\ Len(evs) + 1 \in Nat /\ Len(evs) + 1 \notin DOMAIN evs
      /\ Memory!Checkpoints(more) = Memory!Checkpoints(evs) \cup {Len(evs) + 1}
  <2>1. Grown(evs, e, more)
    BY <1>1, <1>b, MoreEvents
  <2>2. QED
    BY <1>1, <2>1 DEF Grown
<1>3. \A E : Memory!RecordsOf(more, E) = Memory!RecordsOf(evs, E)
  <2>1. \A E : ~Counts(e, E)
    BY <1>1 DEF Counts
  <2>2. QED
    BY <1>1, <1>b, <2>1, RecordsAppend
<1>4. Memory!Cold(more) = Memory!Cold(evs)
  BY <1>3 DEF Memory!Cold
<1>5. \A i \in Memory!Checkpoints(evs) :
        /\ i \in DOMAIN evs /\ more[i] = evs[i] /\ evs[i].epoch \in Nat
        /\ i < Len(evs) + 1 /\ i \in Nat
  BY <1>2, CheckpointTypes
<1>6. ASSUME \A i \in Memory!Checkpoints(evs) : evs[i].epoch <= n
      PROVE  IsTop(more, Len(evs) + 1)
  BY <1>1, <1>2, <1>5, <1>6 DEF IsTop
<1>7. HasTop(more)
  <2>1. \A i \in Memory!Checkpoints(more) : IsFiniteSet(more[i].snapshot)
    BY <1>0, <1>1, <1>2, <1>5 DEF HasTop
  <2>2. \E i \in Memory!Checkpoints(more) : IsTop(more, i)
    <3>1. CASE Memory!Checkpoints(evs) = {}
      BY <1>2, <1>6, <3>1
    <3>2. CASE Memory!Checkpoints(evs) # {}
      <4>1. PICK i \in Memory!Checkpoints(evs) : IsTop(evs, i)
        BY <3>2 DEF HasTop
      <4>2. CASE evs[i].epoch <= n
        <5>1. \A j \in Memory!Checkpoints(evs) : evs[j].epoch <= n
          BY <1>5, <4>1, <4>2 DEF IsTop
        <5>2. QED
          BY <1>2, <1>6, <5>1
      <4>3. CASE ~(evs[i].epoch <= n)
        <5>1. evs[i].epoch > n
          BY <1>5, <4>3
        <5>2. IsTop(more, i)
          BY <1>1, <1>2, <1>5, <4>1, <5>1 DEF IsTop
        <5>3. QED
          BY <1>2, <5>2
      <4>4. QED
        BY <4>2, <4>3
    <3>3. QED
      BY <3>1, <3>2
  <2>3. QED
    BY <2>1, <2>2 DEF HasTop
<1>8. ASSUME n = Now(evs)
      PROVE  /\ Now(more) = n + 1
             /\ Closed(evs) => /\ Closed(more)
                               /\ Memory!Replayed(more) = Memory!SetToSeq(Memory!Snapshot(recs))
  <2>1. \A i \in Memory!Checkpoints(evs) : evs[i].epoch <= n
    <3>1. SUFFICES ASSUME NEW j \in Memory!Checkpoints(evs) PROVE evs[j].epoch <= n
      OBVIOUS
    <3>2. PICK i \in Memory!Checkpoints(evs) : IsTop(evs, i)
      BY <3>1 DEF HasTop
    <3>3. n = evs[i].epoch + 1
      BY <1>8, <3>1, <3>2, TopIsLatest DEF Now
    <3>4. evs[j].epoch <= evs[i].epoch
      BY <1>5, <3>2 DEF IsTop
    <3>5. QED
      BY <1>5, <3>3, <3>4
  <2>2. Memory!LatestCheckpoint(more) = Len(evs) + 1
    BY <1>2, <1>6, <2>1, TopIsLatest
  <2>3. Memory!Checkpoints(more) # {}
    BY <1>2
  <2>4. Now(more) = n + 1
    BY <1>1, <1>2, <2>2, <2>3 DEF Now
  <2>5. ASSUME Closed(evs)
        PROVE  /\ Closed(more)
               /\ Memory!Replayed(more) = Memory!SetToSeq(Memory!Snapshot(recs))
    <3>1. \A i \in DOMAIN evs : Memory!IsRecord(evs[i]) =>
             evs[i].record.epoch \in Nat /\ evs[i].record.epoch <= n
      <4>1. \A i \in DOMAIN evs : evs[i] \in Memory!Event
        OBVIOUS
      <4>2. \A r \in Memory!Record : r.epoch \in Nat
        BY DEF Memory!Record
      <4>3. QED
        BY <1>8, <2>5, <4>1, <4>2, EventTypes DEF Closed
    <3>2. Closed(more)
      BY <1>1, <1>2, <2>4, <3>1 DEF Closed
    <3>3. \A i \in DOMAIN evs : ~Counts(evs[i], {n + 1})
      BY <3>1 DEF Counts
    <3>4. Memory!RecordsOf(evs, {n + 1}) = <<>>
      BY <3>3, RecordsTyped
    <3>5. PICK st : st = Memory!SetToSeq(Memory!Snapshot(recs))
      OBVIOUS
    <3>6. Memory!Replayed(more) = st \o <<>>
      BY <1>1, <1>2, <1>3, <2>2, <2>3, <3>4, <3>5 DEF Memory!Replayed, Memory!Warm
    <3>7. st \in Seq(Memory!Record)
      BY <3>5, SnapshotListed
    <3>8. st \o <<>> = st
      BY <3>7
    <3>9. QED
      BY <3>2, <3>5, <3>6, <3>8
  <2>6. QED
    BY <2>4, <2>5
<1>9. Compacts(evs, recs, n, more)
  BY <1>2, <1>4, <1>7, <1>8 DEF Compacts
<1>10. QED
  BY <1>a, <1>b, <1>9

-----------------------------------------------------------------------------
(* What the invariant says of a log *)

\* No attempt of the log is above its node's counter.
Ahead(lg, top) == \A i \in DOMAIN lg : lg[i].attempt <= top[lg[i].node]

\* A validated record of the node, of attempt n or later: in the log, and as its newest.
Retains(lg, k, n) ==
  \E i \in DOMAIN lg : lg[i].node = k /\ lg[i].status = "validated" /\ lg[i].attempt >= n
Holds(lg, k, n) ==
  \E i \in DOMAIN lg : /\ lg[i].node = k /\ lg[i].status = "validated" /\ lg[i].attempt >= n
                       /\ Memory!IsLatest(lg, i)

\* The attempts of a node grow along the log.
Grows(lg) ==
  \A i, j \in DOMAIN lg : i < j /\ lg[i].node = lg[j].node => lg[i].attempt < lg[j].attempt

\* For every record of b there is one of its node in a that is no earlier.
Covers(a, b) ==
  \A i \in DOMAIN b : \E j \in DOMAIN a : a[j].node = b[i].node /\ a[j].attempt >= b[i].attempt

\* What is validated was not written again.
Settled(lg) == \A i \in DOMAIN lg : lg[i].status = "validated" => Memory!IsLatest(lg, i)
NoneValidated(lg, k) == \A i \in DOMAIN lg : lg[i].node = k => lg[i].status # "validated"

LEMMA AddedTop ==
  ASSUME NEW lg \in Seq(Memory!Record), NEW r \in Memory!Record,
         NEW top \in [Key -> Nat], r.attempt = top[r.node] + 1, Ahead(lg, top)
  PROVE  /\ Tops(lg, r)
         /\ Ahead(Append(lg, r), [top EXCEPT ![r.node] = @ + 1])
<1>1. /\ DOMAIN Append(lg, r) = DOMAIN lg \cup {Len(lg) + 1}
      /\ \A i \in DOMAIN lg : Append(lg, r)[i] = lg[i]
      /\ Append(lg, r)[Len(lg) + 1] = r
  BY AppendFacts
<1>2. /\ \A i \in DOMAIN lg : lg[i].attempt \in Nat /\ lg[i].node \in Key
  BY LogTypes
<1>3. r.node \in Key
  BY DEF Memory!Record
<1>4. PICK more, up : more = Append(lg, r) /\ up = [top EXCEPT ![r.node] = @ + 1]
  OBVIOUS
<1>5. up[r.node] = top[r.node] + 1 /\ \A k \in Key : up[k] \in Nat /\ top[k] \in Nat /\ up[k] >= top[k]
  BY <1>3, <1>4
<1>6. Tops(lg, r)
  <2>1. SUFFICES ASSUME NEW i \in DOMAIN lg, lg[i].node = r.node PROVE lg[i].attempt < r.attempt
    BY DEF Tops
  <2>2. lg[i].attempt <= top[r.node]
    BY <2>1 DEF Ahead
  <2>3. QED
    BY <1>2, <1>3, <1>5, <2>2
<1>7. Ahead(more, up)
  <2>1. SUFFICES ASSUME NEW i \in DOMAIN more PROVE more[i].attempt <= up[more[i].node]
    BY DEF Ahead
  <2>2. CASE i \in DOMAIN lg
    <3>1. more[i] = lg[i] /\ lg[i].attempt <= top[lg[i].node] /\ lg[i].node \in Key
      BY <1>1, <1>2, <1>4, <2>2 DEF Ahead
    <3>2. top[lg[i].node] <= up[lg[i].node] /\ top[lg[i].node] \in Nat /\ up[lg[i].node] \in Nat
      BY <1>5, <3>1
    <3>3. lg[i].attempt \in Nat
      BY <1>2, <2>2
    <3>4. QED
      BY <3>1, <3>2, <3>3
  <2>3. CASE i = Len(lg) + 1
    <3>1. more[i] = r
      BY <1>1, <1>4, <2>3
    <3>2. up[r.node] = r.attempt /\ r.attempt \in Nat
      BY <1>3, <1>5
    <3>3. QED
      BY <3>1, <3>2
  <2>4. QED
    BY <1>1, <1>4, <2>2, <2>3
<1>8. QED
  BY <1>4, <1>6, <1>7

LEMMA AheadGrows ==
  ASSUME NEW lg \in Seq(Memory!Record), NEW low \in [Key -> Nat], NEW high \in [Key -> Nat],
         \A k \in Key : low[k] <= high[k], Ahead(lg, low)
  PROVE  Ahead(lg, high)
<1>1. SUFFICES ASSUME NEW i \in DOMAIN lg PROVE lg[i].attempt <= high[lg[i].node]
  BY DEF Ahead
<1>2. lg[i].attempt \in Nat /\ lg[i].attempt <= low[lg[i].node]
  BY LogTypes DEF Ahead
<1>3. PICK k \in Key : k = lg[i].node
  BY LogTypes
<1>4. QED
  BY <1>2, <1>3

LEMMA AddedHolds ==
  ASSUME NEW lg \in Seq(Memory!Record), NEW r \in Memory!Record, NEW k, NEW n
  PROVE  /\ Retains(lg, k, n) => Retains(Append(lg, r), k, n)
         /\ r.node = k /\ r.status = "validated" /\ r.attempt >= n => Retains(Append(lg, r), k, n)
         /\ Tops(lg, r) /\ r.node # k /\ Holds(lg, k, n) => Holds(Append(lg, r), k, n)
         /\ Tops(lg, r) /\ r.node = k /\ r.status = "validated" /\ r.attempt >= n
              => Holds(Append(lg, r), k, n)
<1>1. PICK more : more = Append(lg, r)
  OBVIOUS
<1>2. /\ DOMAIN more = DOMAIN lg \cup {Len(lg) + 1}
      /\ \A i \in DOMAIN lg : more[i] = lg[i]
      /\ more[Len(lg) + 1] = r
  BY <1>1, AppendFacts
<1>3. Tops(lg, r) => \A i \in DOMAIN more :
        Memory!IsLatest(more, i)
          <=> \/ i = Len(lg) + 1
              \/ i \in DOMAIN lg /\ lg[i].node # r.node /\ Memory!IsLatest(lg, i)
  BY <1>1, AppendTop
<1>4. Retains(lg, k, n) => Retains(more, k, n)
  BY <1>2 DEF Retains
<1>5. r.node = k /\ r.status = "validated" /\ r.attempt >= n => Retains(more, k, n)
  BY <1>2 DEF Retains
<1>6. Tops(lg, r) /\ r.node # k /\ Holds(lg, k, n) => Holds(more, k, n)
  BY <1>2, <1>3 DEF Holds
<1>7. Tops(lg, r) /\ r.node = k /\ r.status = "validated" /\ r.attempt >= n => Holds(more, k, n)
  BY <1>2, <1>3 DEF Holds
<1>8. QED
  BY <1>1, <1>4, <1>5, <1>6, <1>7

LEMMA AddedGrows ==
  ASSUME NEW a \in Seq(Memory!Record), NEW b \in Seq(Memory!Record), NEW r \in Memory!Record
  PROVE  /\ Covers(a, b) => Covers(Append(a, r), Append(b, r))
         /\ Tops(b, r) /\ Grows(b) => Grows(Append(b, r))
<1>1. PICK c, d : c = Append(a, r) /\ d = Append(b, r)
  OBVIOUS
<1>2. /\ DOMAIN c = DOMAIN a \cup {Len(a) + 1}
      /\ \A i \in DOMAIN a : c[i] = a[i]
      /\ c[Len(a) + 1] = r
  BY <1>1, AppendFacts
<1>3. /\ DOMAIN d = DOMAIN b \cup {Len(b) + 1}
      /\ \A i \in DOMAIN b : d[i] = b[i] /\ i \in Nat /\ i < Len(b) + 1
      /\ d[Len(b) + 1] = r
      /\ Len(b) + 1 \in Nat
  <2>1. Len(b) + 1 \in Nat
    OBVIOUS
  <2>2. QED
    BY <1>1, <2>1, AppendFacts
<1>4. r.attempt \in Nat
  BY DEF Memory!Record
<1>5. Covers(a, b) => Covers(c, d)
  <2>1. SUFFICES ASSUME Covers(a, b), NEW i \in DOMAIN d
                 PROVE  \E j \in DOMAIN c : c[j].node = d[i].node /\ c[j].attempt >= d[i].attempt
    BY DEF Covers
  <2>2. CASE i \in DOMAIN b
    <3>1. PICK j \in DOMAIN a : a[j].node = b[i].node /\ a[j].attempt >= b[i].attempt
      BY <2>1, <2>2 DEF Covers
    <3>2. QED
      BY <1>2, <1>3, <2>2, <3>1
  <2>3. CASE i = Len(b) + 1
    <3>1. d[i] = r /\ c[Len(a) + 1] = r /\ Len(a) + 1 \in DOMAIN c
      BY <1>2, <1>3, <2>3
    <3>2. r.attempt >= r.attempt
      BY <1>4
    <3>3. QED
      BY <3>1, <3>2
  <2>4. QED
    BY <1>3, <2>2, <2>3
<1>6. Tops(b, r) /\ Grows(b) => Grows(d)
  <2>1. SUFFICES ASSUME Tops(b, r), Grows(b), NEW i \in DOMAIN d, NEW j \in DOMAIN d,
                        i < j, d[i].node = d[j].node
                 PROVE  d[i].attempt < d[j].attempt
    BY DEF Grows
  <2>2. i \in DOMAIN b
    BY <1>3, <2>1
  <2>3. CASE j \in DOMAIN b
    BY <1>3, <2>1, <2>2, <2>3 DEF Grows
  <2>4. CASE j = Len(b) + 1
    BY <1>3, <2>1, <2>2, <2>4 DEF Tops
  <2>5. QED
    BY <1>3, <2>3, <2>4
<1>7. QED
  BY <1>1, <1>5, <1>6

LEMMA CoveredTops ==
  ASSUME NEW a \in Seq(Memory!Record), NEW b \in Seq(Memory!Record), NEW r \in Memory!Record,
         Covers(a, b), Tops(a, r)
  PROVE  Tops(b, r)
<1>1. SUFFICES ASSUME NEW i \in DOMAIN b, b[i].node = r.node
               PROVE  b[i].attempt < r.attempt
  BY DEF Tops
<1>2. PICK j \in DOMAIN a : a[j].node = b[i].node /\ a[j].attempt >= b[i].attempt
  BY DEF Covers
<1>3. a[j].attempt < r.attempt
  BY <1>1, <1>2 DEF Tops
<1>4. a[j].attempt \in Nat /\ b[i].attempt \in Nat /\ r.attempt \in Nat
  <2>1. r.attempt \in Nat
    BY DEF Memory!Record
  <2>2. QED
    BY <2>1, LogTypes
<1>5. QED
  BY <1>2, <1>3, <1>4

LEMMA AddedNewest ==
  ASSUME NEW lg \in Seq(Memory!Record), NEW r \in Memory!Record, Tops(lg, r)
  PROVE  /\ Memory!Snapshot(Append(lg, r))
              = {s \in Memory!Snapshot(lg) : s.node # r.node} \cup {r}
         /\ Settled(lg) /\ NoneValidated(lg, r.node) => Settled(Append(lg, r))
<1>1. PICK more : more = Append(lg, r)
  OBVIOUS
<1>2. /\ DOMAIN more = DOMAIN lg \cup {Len(lg) + 1}
      /\ \A i \in DOMAIN lg : more[i] = lg[i]
      /\ more[Len(lg) + 1] = r
      /\ Len(lg) + 1 \notin DOMAIN lg
  BY <1>1, AppendFacts
<1>3. \A i \in DOMAIN more :
        Memory!IsLatest(more, i)
          <=> \/ i = Len(lg) + 1
              \/ i \in DOMAIN lg /\ lg[i].node # r.node /\ Memory!IsLatest(lg, i)
  BY <1>1, AppendTop
<1>4. Memory!Snapshot(more) = {s \in Memory!Snapshot(lg) : s.node # r.node} \cup {r}
  <2>1. ASSUME NEW s \in Memory!Snapshot(more)
        PROVE  s = r \/ (s \in Memory!Snapshot(lg) /\ s.node # r.node)
    <3>1. PICK i \in DOMAIN more : more[i] = s /\ Memory!IsLatest(more, i)
      BY <2>1 DEF Memory!Snapshot
    <3>2. QED
      BY <1>2, <1>3, <3>1 DEF Memory!Snapshot
  <2>2. r \in Memory!Snapshot(more)
    BY <1>2, <1>3 DEF Memory!Snapshot
  <2>3. ASSUME NEW s \in Memory!Snapshot(lg), s.node # r.node
        PROVE  s \in Memory!Snapshot(more)
    <3>1. PICK i \in DOMAIN lg : lg[i] = s /\ Memory!IsLatest(lg, i)
      BY <2>3 DEF Memory!Snapshot
    <3>2. i \in DOMAIN more /\ more[i] = s /\ Memory!IsLatest(more, i)
      BY <1>2, <1>3, <2>3, <3>1
    <3>3. QED
      BY <3>2 DEF Memory!Snapshot
  <2>4. QED
    BY <2>1, <2>2, <2>3
<1>5. Settled(lg) /\ NoneValidated(lg, r.node) => Settled(more)
  BY <1>2, <1>3 DEF Settled, NoneValidated
<1>6. QED
  BY <1>1, <1>4, <1>5

\* A snapshot says of every node what the log says that it was taken of.
LEMMA SnapshotSays ==
  ASSUME NEW lg \in Seq(Memory!Record), NEW st, st = Memory!SetToSeq(Memory!Snapshot(lg)),
         NEW top
  PROVE  /\ Settled(st)
         /\ Ahead(lg, top) => Ahead(st, top)
         /\ \A k, n : Holds(lg, k, n) => Holds(st, k, n)
         /\ HasNewest(lg) => \A b \in Seq(Memory!Record) : Covers(lg, b) => Covers(st, b)
<1>1. /\ st \in Seq(Memory!Record)
      /\ \A i \in DOMAIN st : st[i] \in Memory!Snapshot(lg) /\ Memory!IsLatest(st, i)
      /\ \A s \in Memory!Snapshot(lg) : \E i \in DOMAIN st : st[i] = s
  BY SnapshotListed
<1>2. /\ \A s \in Memory!Snapshot(lg) :
           \E i \in DOMAIN lg : lg[i] = s /\ Memory!IsLatest(lg, i)
      /\ \A i \in DOMAIN lg : Memory!IsLatest(lg, i) => lg[i] \in Memory!Snapshot(lg)
  BY SnapshotTyped
<1>3. Settled(st)
  BY <1>1 DEF Settled
<1>4. Ahead(lg, top) => Ahead(st, top)
  BY <1>1, <1>2 DEF Ahead
<1>5. ASSUME NEW k, NEW n, Holds(lg, k, n)
      PROVE  Holds(st, k, n)
  <2>1. PICK i \in DOMAIN lg : /\ lg[i].node = k /\ lg[i].status = "validated"
                               /\ lg[i].attempt >= n /\ Memory!IsLatest(lg, i)
    BY <1>5 DEF Holds
  <2>2. PICK j \in DOMAIN st : st[j] = lg[i]
    BY <1>1, <1>2, <2>1
  <2>3. QED
    BY <1>1, <2>1, <2>2 DEF Holds
<1>6. ASSUME HasNewest(lg), NEW b \in Seq(Memory!Record), Covers(lg, b)
      PROVE  Covers(st, b)
  <2>1. SUFFICES ASSUME NEW i \in DOMAIN b
                 PROVE  \E j \in DOMAIN st : st[j].node = b[i].node /\ st[j].attempt >= b[i].attempt
    BY DEF Covers
  <2>2. PICK m \in DOMAIN lg : lg[m].node = b[i].node /\ lg[m].attempt >= b[i].attempt
    BY <1>6 DEF Covers
  <2>3. PICK l \in DOMAIN lg : lg[l].node = lg[m].node /\ Memory!IsLatest(lg, l)
    BY <1>6 DEF HasNewest
  <2>4. lg[l].attempt \in Nat /\ lg[m].attempt \in Nat /\ b[i].attempt \in Nat
    BY LogTypes
  <2>5. m = l \/ Memory!Supersedes(lg, l, m)
    BY <2>3 DEF Memory!IsLatest
  <2>6. lg[l].attempt >= lg[m].attempt
    BY <2>4, <2>5 DEF Memory!Supersedes
  <2>7. PICK j \in DOMAIN st : st[j] = lg[l]
    BY <1>1, <1>2, <2>3
  <2>8. st[j].node = b[i].node /\ st[j].attempt >= b[i].attempt
    BY <2>2, <2>3, <2>4, <2>6, <2>7
  <2>9. QED
    BY <2>8
<1>7. QED
  BY <1>3, <1>4, <1>5, <1>6

LEMMA HeldIsCompleted ==
  ASSUME NEW lg, NEW k, NEW n, Holds(lg, k, n)
  PROVE  k \in Memory!Completed(lg)
  BY DEF Holds, Memory!Completed

\* The counters _install takes from a log.
LEMMA CountersOf ==
  ASSUME NEW lg \in Seq(Memory!Record)
  PROVE  /\ \A k \in Key : Memory!TopAttempt(lg, k) \in Nat
         /\ \A k \in Key : Memory!Rebuilt(lg, k, NoOutput) \in Output \cup {NoOutput}
         /\ HasNewest(lg) => Ahead(lg, [k \in Key |-> Memory!TopAttempt(lg, k)])
<1> DEFINE newest(k) == {i \in DOMAIN lg : lg[i].node = k /\ Memory!IsLatest(lg, i)}
           valid(k) == {i \in DOMAIN lg : lg[i].node = k /\ Memory!IsLatestValidated(lg, i)}
<1>1. \A i \in DOMAIN lg : lg[i].attempt \in Nat /\ lg[i].node \in Key /\ lg[i].output \in Output
  BY LogTypes
<1>2. ASSUME NEW k \in Key
      PROVE  Memory!TopAttempt(lg, k) \in Nat
  <2>1. CASE newest(k) = {}
    BY <2>1 DEF Memory!TopAttempt
  <2>2. CASE newest(k) # {}
    <3>1. (CHOOSE i \in newest(k) : TRUE) \in newest(k)
      BY <2>2
    <3>2. QED
      BY <1>1, <2>2, <3>1 DEF Memory!TopAttempt
  <2>3. QED
    BY <2>1, <2>2
<1>3. ASSUME NEW k \in Key
      PROVE  Memory!Rebuilt(lg, k, NoOutput) \in Output \cup {NoOutput}
  <2>1. CASE valid(k) = {}
    BY <2>1 DEF Memory!Rebuilt
  <2>2. CASE valid(k) # {}
    <3>1. (CHOOSE i \in valid(k) : TRUE) \in valid(k)
      BY <2>2
    <3>2. QED
      BY <1>1, <2>2, <3>1 DEF Memory!Rebuilt
  <2>3. QED
    BY <2>1, <2>2
<1>4. ASSUME HasNewest(lg), NEW i \in DOMAIN lg
      PROVE  lg[i].attempt <= Memory!TopAttempt(lg, lg[i].node)
  <2>1. PICK k \in Key : k = lg[i].node
    BY <1>1
  <2>2. PICK j \in DOMAIN lg : lg[j].node = k /\ Memory!IsLatest(lg, j)
    BY <1>4, <2>1 DEF HasNewest
  <2>3. newest(k) # {}
    BY <2>2
  <2>4. PICK l \in newest(k) : Memory!TopAttempt(lg, k) = lg[l].attempt
    BY <2>3 DEF Memory!TopAttempt
  <2>5. i = l \/ Memory!Supersedes(lg, l, i)
    BY <2>1, <2>4 DEF Memory!IsLatest
  <2>6. lg[l].attempt \in Nat /\ lg[i].attempt \in Nat
    BY <1>1, <2>4
  <2>7. QED
    BY <2>1, <2>4, <2>5, <2>6 DEF Memory!Supersedes
<1>5. HasNewest(lg) => Ahead(lg, [k \in Key |-> Memory!TopAttempt(lg, k)])
  BY <1>1, <1>4 DEF Ahead
<1>6. QED
  BY <1>2, <1>3, <1>5

(***************************************************************************)
(* The inductive invariant of the AgentCore store.  What was acknowledged  *)
(* is in the raw log, and the newest validated record of a node can be     *)
(* found there, whatever happened (Durable).  As long as nothing was put   *)
(* before the first read, no full rebuild was forced and no checkpoint     *)
(* lost its response (Calm), the open epoch is the one a resume opens, so  *)
(* that nothing is written outside the window it reads, and no attempt of  *)
(* what it reads is above the counters (Opened).  On top of this: without  *)
(* rewrites an acknowledged record stays the newest (Held); without lost   *)
(* puts a resume finds for every record one that is no earlier (Covered);  *)
(* without either both paths find the same newest records (Agreed).        *)
(***************************************************************************)
Calm == departed \subseteq {"lost_put", "rewrite"}

Durable ==
  /\ HasNewestValidated(Memory!Cold(events))
  /\ \A k \in Key : acked[k] > 0 => Retains(Memory!Cold(events), k, acked[k])

Opened ==
  /\ ~loaded => epoch = 0
  /\ Calm => /\ Closed(events) /\ HasNewest(Memory!Replayed(events))
             /\ loaded => /\ epoch = Now(events) /\ HasNewest(records)
                          /\ Ahead(Memory!Replayed(events), attempts)
                          /\ Ahead(records, attempts)

Held ==
  departed \subseteq {"lost_put"} => \A k \in Key : acked[k] > 0 =>
    /\ Holds(Memory!Replayed(events), k, acked[k])
    /\ loaded => Holds(records, k, acked[k])

Covered ==
  departed \subseteq {"rewrite"} =>
    /\ Grows(Memory!Cold(events))
    /\ Covers(Memory!Replayed(events), Memory!Cold(events))
    /\ loaded => Covers(records, Memory!Cold(events))

Agreed ==
  departed = {} =>
    /\ Memory!Snapshot(Memory!Replayed(events)) = Memory!Snapshot(Memory!Cold(events))
    /\ Settled(Memory!Cold(events)) /\ Settled(Memory!Replayed(events))
    /\ loaded => /\ Memory!Snapshot(records) = Memory!Snapshot(Memory!Cold(events))
                 /\ Settled(records)

MemoryInv ==
  Memory!TypeOK /\ HasTop(events) /\ Durable /\ Opened /\ Held /\ Covered /\ Agreed

\* What both puts do.
Logs(k, o, s) ==
  /\ events' = Append(events, Memory!RecordEvent(Memory!NewRecord(k, o, s)))
  /\ attempts' = [attempts EXCEPT ![k] = @ + 1]
  /\ departed \cup Memory!Undisciplined(k) \subseteq departed'
  /\ departed' \subseteq Memory!Departures
  /\ UNCHANGED <<epoch, loaded, crashes>>

LEMMA LogStep ==
  ASSUME MemoryInv, NEW k \in Key, NEW o \in Output, NEW s \in {"validated", "failed"},
         Logs(k, o, s), NEW r, r = Memory!NewRecord(k, o, s)
  PROVE  /\ r \in Memory!Record /\ r.node = k /\ r.attempt = attempts[k] + 1 /\ r.status = s
         /\ events' \in Seq(Memory!Event) /\ HasTop(events')
         /\ Memory!Cold(events) \in Seq(Memory!Record)
         /\ Memory!Replayed(events) \in Seq(Memory!Record)
         /\ Memory!Cold(events') = Append(Memory!Cold(events), r)
         /\ Calm' => /\ Calm /\ loaded
                     /\ Memory!Replayed(events') = Append(Memory!Replayed(events), r)
                     /\ Closed(events') /\ epoch = Now(events')
                     /\ Tops(Memory!Replayed(events), r) /\ Tops(records, r)
                     /\ Ahead(Append(Memory!Replayed(events), r), attempts')
                     /\ Ahead(Append(records, r), attempts')
         /\ "rewrite" \notin departed' => k \notin Memory!Completed(records)
<1>1. /\ events \in Seq(Memory!Event) /\ HasTop(events)
      /\ records \in Seq(Memory!Record)
      /\ attempts \in [Key -> Nat] /\ epoch \in Nat
  BY DEF MemoryInv, Memory!TypeOK
<1>2. /\ r \in Memory!Record /\ r.node = k /\ r.attempt = attempts[k] + 1 /\ r.status = s
      /\ r.epoch = epoch
  <2>1. attempts[k] + 1 \in Nat \ {0}
    BY <1>1
  <2>2. r = [node |-> k, attempt |-> attempts[k] + 1, status |-> s, output |-> o, epoch |-> epoch]
    BY DEF Memory!NewRecord
  <2>3. QED
    BY <1>1, <2>1, <2>2 DEF Memory!Record
<1>3. events' = Append(events, Memory!RecordEvent(r))
  BY DEF Logs
<1>4. /\ events' \in Seq(Memory!Event) /\ HasTop(events') /\ Now(events') = Now(events)
      /\ Memory!Cold(events') = Append(Memory!Cold(events), r)
      /\ r.epoch = Now(events) =>
           /\ Memory!Replayed(events') = Append(Memory!Replayed(events), r)
           /\ Closed(events) => Closed(events')
  BY <1>1, <1>2, <1>3, RecordAdded
<1>5. Memory!Cold(events) \in Seq(Memory!Record) /\ Memory!Replayed(events) \in Seq(Memory!Record)
  BY <1>1, ViewTyped
<1>6. ASSUME Calm'
      PROVE  /\ Calm /\ loaded
             /\ Memory!Replayed(events') = Append(Memory!Replayed(events), r)
             /\ Closed(events') /\ epoch = Now(events')
             /\ Tops(Memory!Replayed(events), r) /\ Tops(records, r)
             /\ Ahead(Append(Memory!Replayed(events), r), attempts')
             /\ Ahead(Append(records, r), attempts')
  <2>1. Calm /\ "early_put" \notin departed'
    BY <1>6 DEF Calm, Logs
  <2>2. loaded
    BY <2>1 DEF Logs, Memory!Undisciplined
  <2>3. /\ Closed(events) /\ epoch = Now(events)
        /\ Ahead(Memory!Replayed(events), attempts) /\ Ahead(records, attempts)
    BY <2>1, <2>2 DEF MemoryInv, Opened
  <2>4. attempts' = [attempts EXCEPT ![r.node] = @ + 1] /\ r.attempt = attempts[r.node] + 1
    BY <1>2 DEF Logs
  <2>5. /\ Tops(Memory!Replayed(events), r)
        /\ Ahead(Append(Memory!Replayed(events), r), attempts')
    BY <1>1, <1>2, <1>5, <2>3, <2>4, AddedTop
  <2>6. /\ Tops(records, r)
        /\ Ahead(Append(records, r), attempts')
    BY <1>1, <1>2, <2>3, <2>4, AddedTop
  <2>7. QED
    BY <1>2, <1>4, <2>1, <2>2, <2>3, <2>5, <2>6
<1>7. "rewrite" \notin departed' => k \notin Memory!Completed(records)
  BY DEF Logs, Memory!Undisciplined
<1>8. QED
  BY <1>2, <1>4, <1>5, <1>6, <1>7

\* A put that returns is in the cache, and counted as acknowledged; one that
\* raised for want of a response is in neither.
Returned(k, o, s) ==
  /\ records' = Append(records, Memory!NewRecord(k, o, s))
  /\ projection' = IF s = "validated" THEN [projection EXCEPT ![k] = o] ELSE projection
  /\ acked' = IF s = "validated" THEN [acked EXCEPT ![k] = attempts[k] + 1] ELSE acked
Unanswered == "lost_put" \in departed' /\ UNCHANGED <<records, projection, acked>>

LEMMA PutKeeps ==
  ASSUME MemoryInv, NEW k \in Key, NEW o \in Output, NEW s \in {"validated", "failed"},
         Logs(k, o, s), Returned(k, o, s) \/ Unanswered
  PROVE  MemoryInv'
<1>1. /\ events \in Seq(Memory!Event) /\ HasTop(events)
      /\ records \in Seq(Memory!Record)
      /\ attempts \in [Key -> Nat] /\ acked \in [Key -> Nat]
      /\ departed \subseteq departed'
  BY DEF MemoryInv, Memory!TypeOK, Logs
<1>2. PICK r : r = Memory!NewRecord(k, o, s)
  OBVIOUS
<1>3. /\ r \in Memory!Record /\ r.node = k /\ r.attempt = attempts[k] + 1 /\ r.status = s
      /\ events' \in Seq(Memory!Event) /\ HasTop(events')
      /\ Memory!Cold(events) \in Seq(Memory!Record)
      /\ Memory!Replayed(events) \in Seq(Memory!Record)
      /\ Memory!Cold(events') = Append(Memory!Cold(events), r)
      /\ Calm' => /\ Calm /\ loaded
                  /\ Memory!Replayed(events') = Append(Memory!Replayed(events), r)
                  /\ Closed(events') /\ epoch = Now(events')
                  /\ Tops(Memory!Replayed(events), r) /\ Tops(records, r)
                  /\ Ahead(Append(Memory!Replayed(events), r), attempts')
                  /\ Ahead(Append(records, r), attempts')
      /\ "rewrite" \notin departed' => k \notin Memory!Completed(records)
  BY <1>2, LogStep
<1>4. PICK cold, view : cold = Memory!Cold(events) /\ view = Memory!Replayed(events)
  OBVIOUS
<1>5. \/ records' = Append(records, r) /\ (s = "validated" => acked' = [acked EXCEPT ![k] = r.attempt])
         /\ (s # "validated" => acked' = acked)
      \/ records' = records /\ acked' = acked /\ "lost_put" \in departed'
  BY <1>2, <1>3 DEF Returned, Unanswered
<1>6. r.attempt \in Nat /\ r.attempt > 0
  BY <1>1, <1>3
<1>7. Memory!TypeOK'
  <2>1. records' \in Seq(Memory!Record)
    <3>1. Append(records, r) \in Seq(Memory!Record)
      BY <1>1, <1>3, AppendFacts
    <3>2. QED
      BY <1>1, <1>5, <3>1
  <2>2. acked' \in [Key -> Nat]
    BY <1>1, <1>5, <1>6
  <2>3. attempts' \in [Key -> Nat]
    BY <1>1 DEF Logs
  <2>4. projection' \in [Key -> Output \cup {NoOutput}]
    BY DEF MemoryInv, Memory!TypeOK, Returned, Unanswered
  <2>5. QED
    BY <1>3, <2>1, <2>2, <2>3, <2>4 DEF MemoryInv, Memory!TypeOK, Logs
<1>8. Durable'
  <2>1. HasNewestValidated(Append(cold, r))
    BY <1>3, <1>4, AppendNewest DEF MemoryInv, Durable
  <2>2. ASSUME NEW x \in Key, acked'[x] > 0
        PROVE  Retains(Append(cold, r), x, acked'[x])
    <3>1. CASE acked'[x] = acked[x]
      <4>1. Retains(cold, x, acked[x])
        BY <1>4, <2>2, <3>1 DEF MemoryInv, Durable
      <4>2. Retains(Append(cold, r), x, acked[x])
        BY <1>3, <1>4, <4>1, AddedHolds
      <4>3. QED
        BY <3>1, <4>2
    <3>2. CASE acked'[x] # acked[x]
      <4>1. x = k /\ s = "validated" /\ acked'[x] = r.attempt
        BY <1>1, <1>5, <3>2
      <4>2. r.attempt >= r.attempt
        BY <1>6
      <4>3. Retains(Append(cold, r), k, r.attempt)
        BY <1>3, <1>4, <4>1, <4>2, AddedHolds
      <4>4. QED
        BY <4>1, <4>3
    <3>3. QED
      BY <3>1, <3>2
  <2>3. QED
    BY <1>3, <1>4, <2>1, <2>2 DEF Durable
<1>9. ASSUME Calm'
      PROVE  Ahead(records', attempts') /\ HasNewest(records')
  <2>1. HasNewest(records) /\ Ahead(records, attempts)
    BY <1>3, <1>9 DEF MemoryInv, Opened
  <2>2. CASE records' = Append(records, r)
    <3>1. HasNewest(Append(records, r))
      BY <1>1, <1>3, <2>1, AppendNewest
    <3>2. QED
      BY <1>3, <1>9, <2>2, <3>1
  <2>3. CASE records' = records
    <3>1. \A x \in Key : attempts[x] <= attempts'[x]
      BY <1>1 DEF Logs
    <3>2. attempts' \in [Key -> Nat]
      BY <1>1 DEF Logs
    <3>3. Ahead(records, attempts')
      BY <1>1, <2>1, <3>1, <3>2, AheadGrows
    <3>4. QED
      BY <2>1, <2>3, <3>3
  <2>4. QED
    BY <1>5, <2>2, <2>3
<1>10. Opened'
  <2>1. ~loaded' => epoch' = 0
    BY DEF MemoryInv, Opened, Logs
  <2>2. ASSUME Calm'
        PROVE  /\ Closed(events') /\ HasNewest(Memory!Replayed(events'))
               /\ epoch' = Now(events') /\ HasNewest(records')
               /\ Ahead(Memory!Replayed(events'), attempts') /\ Ahead(records', attempts')
    <3>1. HasNewest(Append(view, r))
      BY <1>3, <1>4, <2>2, AppendNewest DEF MemoryInv, Opened
    <3>2. QED
      BY <1>3, <1>4, <1>9, <2>2, <3>1 DEF Logs
  <2>3. QED
    BY <2>1, <2>2 DEF Opened
<1>11. Held'
  <2>1. SUFFICES ASSUME departed' \subseteq {"lost_put"}, NEW x \in Key, acked'[x] > 0
                 PROVE  /\ Holds(Memory!Replayed(events'), x, acked'[x])
                        /\ loaded' => Holds(records', x, acked'[x])
    BY DEF Held
  <2>2. Calm' /\ departed \subseteq {"lost_put"} /\ "rewrite" \notin departed'
    BY <1>1, <2>1 DEF Calm
  <2>3. Memory!Replayed(events') = Append(view, r) /\ Tops(view, r) /\ Tops(records, r) /\ loaded
    BY <1>3, <1>4, <2>2
  <2>4. CASE acked'[x] = acked[x]
    <3>1. Holds(view, x, acked[x]) /\ Holds(records, x, acked[x])
      BY <1>4, <2>1, <2>2, <2>3, <2>4 DEF MemoryInv, Held
    <3>2. x # k
      BY <1>3, <2>2, <3>1, HeldIsCompleted
    <3>3. Holds(Append(view, r), x, acked[x])
      BY <1>3, <1>4, <2>3, <3>1, <3>2, AddedHolds
    <3>4. Holds(Append(records, r), x, acked[x])
      BY <1>1, <1>3, <2>3, <3>1, <3>2, AddedHolds
    <3>5. QED
      BY <1>5, <2>3, <2>4, <3>1, <3>3, <3>4
  <2>5. CASE acked'[x] # acked[x]
    <3>1. x = k /\ s = "validated" /\ acked'[x] = r.attempt /\ records' = Append(records, r)
      BY <1>1, <1>5, <2>5
    <3>2. r.attempt >= r.attempt
      BY <1>6
    <3>3. Holds(Append(view, r), k, r.attempt)
      BY <1>3, <1>4, <2>3, <3>1, <3>2, AddedHolds
    <3>4. Holds(Append(records, r), k, r.attempt)
      BY <1>1, <1>3, <2>3, <3>1, <3>2, AddedHolds
    <3>5. QED
      BY <2>3, <3>1, <3>3, <3>4
  <2>6. QED
    BY <2>4, <2>5
<1>12. Covered'
  <2>1. SUFFICES ASSUME departed' \subseteq {"rewrite"}
                 PROVE  /\ Grows(Memory!Cold(events'))
                        /\ Covers(Memory!Replayed(events'), Memory!Cold(events'))
                        /\ loaded' => Covers(records', Memory!Cold(events'))
    BY DEF Covered
  <2>2. Calm' /\ departed \subseteq {"rewrite"} /\ records' = Append(records, r)
    BY <1>1, <1>5, <2>1 DEF Calm
  <2>3. Memory!Replayed(events') = Append(view, r) /\ Tops(view, r) /\ loaded
    BY <1>3, <1>4, <2>2
  <2>4. Grows(cold) /\ Covers(view, cold) /\ Covers(records, cold)
    BY <1>4, <2>2, <2>3 DEF MemoryInv, Covered
  <2>5. Tops(cold, r)
    BY <1>3, <1>4, <2>3, <2>4, CoveredTops
  <2>6. Grows(Append(cold, r)) /\ Covers(Append(view, r), Append(cold, r))
    BY <1>3, <1>4, <2>4, <2>5, AddedGrows
  <2>7. Covers(Append(records, r), Append(cold, r))
    BY <1>1, <1>3, <1>4, <2>4, AddedGrows
  <2>8. QED
    BY <1>3, <1>4, <2>2, <2>3, <2>6, <2>7
<1>13. Agreed'
  <2>1. SUFFICES ASSUME departed' = {}
                 PROVE  /\ Memory!Snapshot(Memory!Replayed(events'))
                             = Memory!Snapshot(Memory!Cold(events'))
                        /\ Settled(Memory!Cold(events')) /\ Settled(Memory!Replayed(events'))
                        /\ Memory!Snapshot(records') = Memory!Snapshot(Memory!Cold(events'))
                        /\ Settled(records')
    BY DEF Agreed
  <2>2. Calm' /\ departed = {} /\ records' = Append(records, r) /\ "rewrite" \notin departed'
    BY <1>1, <1>5, <2>1 DEF Calm
  <2>3. Memory!Replayed(events') = Append(view, r) /\ Tops(view, r) /\ Tops(records, r) /\ loaded
    BY <1>3, <1>4, <2>2
  <2>4. /\ Memory!Snapshot(view) = Memory!Snapshot(cold) /\ Memory!Snapshot(records) = Memory!Snapshot(cold)
        /\ Settled(cold) /\ Settled(view) /\ Settled(records) /\ Covers(view, cold)
    BY <1>4, <2>2, <2>3 DEF MemoryInv, Agreed, Covered
  <2>5. \A lg \in Seq(Memory!Record) :
          Settled(lg) /\ Memory!Snapshot(lg) = Memory!Snapshot(records) => NoneValidated(lg, r.node)
    <3>1. SUFFICES ASSUME NEW lg \in Seq(Memory!Record), Settled(lg),
                          Memory!Snapshot(lg) = Memory!Snapshot(records),
                          NEW i \in DOMAIN lg, lg[i].node = r.node, lg[i].status = "validated"
                   PROVE  FALSE
      BY DEF NoneValidated
    <3>2. lg[i] \in Memory!Snapshot(records)
      BY <3>1, SnapshotTyped DEF Settled
    <3>3. PICK j \in DOMAIN records : records[j] = lg[i] /\ Memory!IsLatest(records, j)
      BY <1>1, <3>2, SnapshotTyped
    <3>4. r.node \in Memory!Completed(records)
      BY <3>1, <3>3 DEF Memory!Completed
    <3>5. QED
      BY <1>3, <2>2, <3>4
  <2>6. NoneValidated(cold, r.node) /\ NoneValidated(view, r.node) /\ NoneValidated(records, r.node)
    BY <1>1, <1>3, <1>4, <2>4, <2>5
  <2>7. Tops(cold, r)
    BY <1>3, <1>4, <2>3, <2>4, CoveredTops
  <2>8. \A lg \in Seq(Memory!Record) :
          Tops(lg, r) /\ Settled(lg) /\ NoneValidated(lg, r.node) =>
            /\ Memory!Snapshot(Append(lg, r)) = {x \in Memory!Snapshot(lg) : x.node # r.node} \cup {r}
            /\ Settled(Append(lg, r))
    BY <1>3, AddedNewest
  <2>9. /\ Memory!Snapshot(Append(cold, r)) = {x \in Memory!Snapshot(cold) : x.node # r.node} \cup {r}
        /\ Settled(Append(cold, r))
    BY <1>3, <1>4, <2>4, <2>6, <2>7, <2>8
  <2>10. /\ Memory!Snapshot(Append(view, r)) = {x \in Memory!Snapshot(view) : x.node # r.node} \cup {r}
         /\ Settled(Append(view, r))
    BY <1>3, <1>4, <2>3, <2>4, <2>6, <2>8
  <2>11. /\ Memory!Snapshot(Append(records, r))
              = {x \in Memory!Snapshot(records) : x.node # r.node} \cup {r}
         /\ Settled(Append(records, r))
    BY <1>1, <2>3, <2>4, <2>6, <2>8
  <2>12. QED
    BY <1>3, <1>4, <2>2, <2>3, <2>4, <2>9, <2>10, <2>11
<1>14. QED
  BY <1>3, <1>7, <1>8, <1>10, <1>11, <1>12, <1>13 DEF MemoryInv

LEMMA RaisingKeeps ==
  ASSUME MemoryInv, NEW k \in Key, Memory!PutRaises(k)
  PROVE  MemoryInv'
<1>1. /\ events' = events /\ records' = records /\ epoch' = epoch /\ loaded' = loaded
      /\ acked' = acked /\ departed \subseteq departed' /\ departed' \subseteq Memory!Departures
      /\ attempts' = [attempts EXCEPT ![k] = @ + 1]
      /\ projection' = projection /\ crashes' = crashes
  BY DEF Memory!PutRaises, Memory!Departs, Memory!Undisciplined, Memory!Departures, MemoryInv,
         Memory!TypeOK
<1>2. /\ events \in Seq(Memory!Event) /\ HasTop(events)
      /\ records \in Seq(Memory!Record) /\ attempts \in [Key -> Nat]
  BY DEF MemoryInv, Memory!TypeOK
<1>3. \A x \in Key : attempts[x] \in Nat /\ attempts'[x] \in Nat /\ attempts[x] <= attempts'[x]
  BY <1>1, <1>2
<1>4. \A lg \in Seq(Memory!Record) : Ahead(lg, attempts) => Ahead(lg, attempts')
  <2>1. attempts' \in [Key -> Nat] /\ \A x \in Key : attempts[x] <= attempts'[x]
    BY <1>1, <1>2, <1>3
  <2>2. SUFFICES ASSUME NEW lg \in Seq(Memory!Record), Ahead(lg, attempts)
                 PROVE  Ahead(lg, attempts')
    OBVIOUS
  <2>3. QED
    BY <1>2, <2>1, <2>2, AheadGrows
<1>5. Memory!Replayed(events) \in Seq(Memory!Record)
  BY <1>2, ViewTyped
<1>6. Memory!TypeOK'
  <2>1. attempts' \in [Key -> Nat]
    BY <1>1, <1>2
  <2>2. QED
    BY <1>1, <2>1 DEF MemoryInv, Memory!TypeOK
<1>7. Durable' /\ HasTop(events')
  BY <1>1, <1>2 DEF MemoryInv, Durable
<1>8. Opened'
  <2>1. ASSUME Calm' PROVE Calm
    BY <1>1, <2>1 DEF Calm
  <2>2. QED
    BY <1>1, <1>2, <1>4, <1>5, <2>1 DEF MemoryInv, Opened
<1>9. Held'
  <2>1. departed' \subseteq {"lost_put"} => departed \subseteq {"lost_put"}
    BY <1>1
  <2>2. QED
    BY <1>1, <2>1 DEF MemoryInv, Held
<1>10. Covered'
  <2>1. departed' \subseteq {"rewrite"} => departed \subseteq {"rewrite"}
    BY <1>1
  <2>2. QED
    BY <1>1, <2>1 DEF MemoryInv, Covered
<1>11. Agreed'
  <2>1. departed' = {} => departed = {}
    BY <1>1
  <2>2. QED
    BY <1>1, <2>1 DEF MemoryInv, Agreed
<1>12. QED
  BY <1>6, <1>7, <1>8, <1>9, <1>10, <1>11 DEF MemoryInv

LEMMA CrashKeeps ==
  ASSUME MemoryInv, Memory!Crash, MaxCrashes \in Nat
  PROVE  MemoryInv'
<1>1. /\ events' = events /\ records' = <<>> /\ epoch' = 0 /\ loaded' = FALSE
      /\ acked' = acked /\ departed' = departed
  BY DEF Memory!Crash
<1>2. Memory!TypeOK'
  <2>1. records' \in Seq(Memory!Record)
    BY <1>1
  <2>2. attempts' \in [Key -> Nat] /\ projection' \in [Key -> Output \cup {NoOutput}]
    BY DEF Memory!Crash
  <2>3. crashes' \in 0..MaxCrashes
    BY DEF Memory!Crash, MemoryInv, Memory!TypeOK
  <2>4. QED
    BY <1>1, <2>1, <2>2, <2>3 DEF MemoryInv, Memory!TypeOK
<1>3. Durable' /\ HasTop(events')
  BY <1>1 DEF MemoryInv, Durable
<1>4. Opened'
  BY <1>1 DEF MemoryInv, Opened, Calm
<1>5. Held'
  BY <1>1 DEF MemoryInv, Held
<1>6. Covered'
  BY <1>1 DEF MemoryInv, Covered
<1>7. Agreed'
  BY <1>1 DEF MemoryInv, Agreed
<1>8. QED
  BY <1>2, <1>3, <1>4, <1>5, <1>6, <1>7 DEF MemoryInv

\* What both replays leave alone, and what they install.
LEMMA InstallTypes ==
  ASSUME NEW lg \in Seq(Memory!Record), Memory!Install(lg)
  PROVE  /\ records' = lg /\ records' \in Seq(Memory!Record) /\ loaded' = TRUE
         /\ projection' \in [Key -> Output \cup {NoOutput}] /\ attempts' \in [Key -> Nat]
         /\ HasNewest(lg) => Ahead(lg, attempts')
<1>1. /\ records' = lg /\ loaded' = TRUE
      /\ projection' = [k \in Key |-> Memory!Rebuilt(lg, k, NoOutput)]
      /\ attempts' = [k \in Key |-> Memory!TopAttempt(lg, k)]
  BY DEF Memory!Install
<1>2. /\ \A k \in Key : Memory!TopAttempt(lg, k) \in Nat
      /\ \A k \in Key : Memory!Rebuilt(lg, k, NoOutput) \in Output \cup {NoOutput}
      /\ HasNewest(lg) => Ahead(lg, [k \in Key |-> Memory!TopAttempt(lg, k)])
  BY CountersOf
<1>3. QED
  BY <1>1, <1>2

LEMMA LoadKeeps ==
  ASSUME MemoryInv, Memory!Load
  PROVE  MemoryInv'
<1>1. /\ events' = events /\ acked' = acked /\ departed' = departed /\ crashes' = crashes
      /\ Memory!Install(Memory!Replayed(events)) /\ ~loaded
  BY DEF Memory!Load
<1>2. /\ events \in Seq(Memory!Event) /\ HasTop(events)
  BY DEF MemoryInv, Memory!TypeOK
<1>3. /\ Memory!Replayed(events) \in Seq(Memory!Record) /\ Now(events) \in Nat
  BY <1>2, ViewTyped
<1>4. /\ records' = Memory!Replayed(events) /\ records' \in Seq(Memory!Record) /\ loaded' = TRUE
      /\ projection' \in [Key -> Output \cup {NoOutput}] /\ attempts' \in [Key -> Nat]
      /\ HasNewest(Memory!Replayed(events)) => Ahead(Memory!Replayed(events), attempts')
  BY <1>1, <1>3, InstallTypes
<1>5. epoch' = Now(events)
  BY <1>1 DEF Memory!Load, Now, MemoryInv, Opened
<1>6. Memory!TypeOK'
  BY <1>1, <1>3, <1>4, <1>5 DEF MemoryInv, Memory!TypeOK
<1>7. Durable' /\ HasTop(events')
  BY <1>1 DEF MemoryInv, Durable
<1>8. Opened'
  BY <1>1, <1>4, <1>5 DEF MemoryInv, Opened, Calm
<1>9. Held'
  BY <1>1, <1>4 DEF MemoryInv, Held
<1>10. Covered'
  BY <1>1, <1>4 DEF MemoryInv, Covered
<1>11. Agreed'
  BY <1>1, <1>4 DEF MemoryInv, Agreed
<1>12. QED
  BY <1>6, <1>7, <1>8, <1>9, <1>10, <1>11 DEF MemoryInv

\* After a departure that nothing but the raw log survives, only its part is left.
LEMMA RawKeeps ==
  ASSUME Memory!TypeOK', HasTop(events'), Durable', loaded' \/ epoch' = 0,
         "force_full" \in departed' \/ "lost_checkpoint" \in departed'
  PROVE  MemoryInv'
<1>1. ~Calm' /\ ~(departed' \subseteq {"lost_put"}) /\ ~(departed' \subseteq {"rewrite"})
      /\ departed' # {}
  BY DEF Calm
<1>2. Opened'
  BY <1>1 DEF Opened
<1>3. Held'
  BY <1>1 DEF Held
<1>4. Covered'
  BY <1>1 DEF Covered
<1>5. Agreed'
  BY <1>1 DEF Agreed
<1>6. QED
  BY <1>2, <1>3, <1>4, <1>5 DEF MemoryInv

LEMMA ForceFullKeeps ==
  ASSUME MemoryInv, Memory!ReplayForceFull
  PROVE  MemoryInv'
<1>1. /\ events' = events /\ acked' = acked /\ epoch' = epoch /\ crashes' = crashes
      /\ departed' = departed \cup {"force_full"}
      /\ Memory!Install(Memory!Cold(events))
  BY DEF Memory!ReplayForceFull, Memory!Departs
<1>2. Memory!Cold(events) \in Seq(Memory!Record)
  BY ViewTyped DEF MemoryInv, Memory!TypeOK
<1>3. /\ records' \in Seq(Memory!Record) /\ loaded' = TRUE
      /\ projection' \in [Key -> Output \cup {NoOutput}] /\ attempts' \in [Key -> Nat]
  BY <1>1, <1>2, InstallTypes
<1>4. Memory!TypeOK'
  BY <1>1, <1>3 DEF MemoryInv, Memory!TypeOK, Memory!Departures
<1>5. Durable' /\ HasTop(events')
  BY <1>1 DEF MemoryInv, Durable
<1>6. QED
  BY <1>1, <1>3, <1>4, <1>5, RawKeeps

\* What both checkpoints append.
LEMMA CheckpointStep ==
  ASSUME MemoryInv, Memory!Checkpointing
  PROVE  /\ events' \in Seq(Memory!Event) /\ HasTop(events')
         /\ Memory!Cold(events') = Memory!Cold(events)
         /\ epoch = Now(events) =>
              /\ Now(events') = epoch + 1
              /\ Closed(events) =>
                   /\ Closed(events')
                   /\ Memory!Replayed(events') = Memory!SetToSeq(Memory!Snapshot(records))
<1>1. /\ events \in Seq(Memory!Event) /\ HasTop(events) /\ records \in Seq(Memory!Record)
      /\ epoch \in Nat
  BY DEF MemoryInv, Memory!TypeOK
<1>2. Compacts(events, records, epoch, events')
  BY <1>1, CheckpointAdded DEF Memory!Checkpointing, Memory!CheckpointEvent, CheckpointOf
<1>3. QED
  BY <1>2 DEF Compacts

LEMMA LostCheckpointKeeps ==
  ASSUME MemoryInv, Memory!CheckpointResponseLost
  PROVE  MemoryInv'
<1>1. /\ Memory!Checkpointing /\ departed' = departed \cup {"lost_checkpoint"}
      /\ records' = records /\ projection' = projection /\ attempts' = attempts
      /\ epoch' = epoch /\ loaded' = loaded /\ acked' = acked /\ crashes' = crashes /\ loaded
  BY DEF Memory!CheckpointResponseLost, Memory!Departs, Memory!cache, Memory!Checkpointing
<1>2. /\ events' \in Seq(Memory!Event) /\ HasTop(events')
      /\ Memory!Cold(events') = Memory!Cold(events)
  BY <1>1, CheckpointStep
<1>3. Memory!TypeOK'
  BY <1>1, <1>2 DEF MemoryInv, Memory!TypeOK, Memory!Departures
<1>4. Durable'
  BY <1>1, <1>2 DEF MemoryInv, Durable
<1>5. QED
  BY <1>1, <1>2, <1>3, <1>4, RawKeeps

LEMMA CheckpointKeeps ==
  ASSUME MemoryInv, Memory!Checkpoint
  PROVE  MemoryInv'
<1>1. /\ Memory!Checkpointing /\ epoch' = epoch + 1 /\ loaded
      /\ records' = records /\ projection' = projection /\ attempts' = attempts
      /\ loaded' = loaded /\ acked' = acked /\ crashes' = crashes /\ departed' = departed
  BY DEF Memory!Checkpoint, Memory!Checkpointing
<1>2. /\ events' \in Seq(Memory!Event) /\ HasTop(events')
      /\ Memory!Cold(events') = Memory!Cold(events)
      /\ epoch = Now(events) =>
           /\ Now(events') = epoch + 1
           /\ Closed(events) =>
                /\ Closed(events')
                /\ Memory!Replayed(events') = Memory!SetToSeq(Memory!Snapshot(records))
  BY <1>1, CheckpointStep
<1>3. /\ events \in Seq(Memory!Event) /\ records \in Seq(Memory!Record)
      /\ Memory!Cold(events) \in Seq(Memory!Record)
  BY ViewTyped DEF MemoryInv, Memory!TypeOK
<1>4. PICK st : st = Memory!SetToSeq(Memory!Snapshot(records))
  OBVIOUS
<1>5. /\ HasNewest(st) /\ Memory!Snapshot(st) = Memory!Snapshot(records)
  BY <1>3, <1>4, SnapshotListed
<1>6. /\ Settled(st)
      /\ Ahead(records, attempts) => Ahead(st, attempts)
      /\ \A k, n : Holds(records, k, n) => Holds(st, k, n)
      /\ HasNewest(records) => \A b \in Seq(Memory!Record) : Covers(records, b) => Covers(st, b)
  BY <1>3, <1>4, SnapshotSays
<1>7. Calm => /\ Closed(events') /\ Memory!Replayed(events') = st /\ epoch' = Now(events')
              /\ HasNewest(records) /\ Ahead(records, attempts)
  BY <1>1, <1>2, <1>4 DEF MemoryInv, Opened
<1>8. Memory!TypeOK'
  BY <1>1, <1>2 DEF MemoryInv, Memory!TypeOK
<1>9. Durable'
  BY <1>1, <1>2 DEF MemoryInv, Durable
<1>10. Opened'
  BY <1>1, <1>5, <1>6, <1>7 DEF Opened, Calm
<1>11. Held'
  <2>1. SUFFICES ASSUME departed \subseteq {"lost_put"}, NEW k \in Key, acked[k] > 0
                 PROVE  Holds(Memory!Replayed(events'), k, acked[k]) /\ Holds(records, k, acked[k])
    BY <1>1 DEF Held
  <2>2. Calm
    BY <2>1 DEF Calm
  <2>3. Holds(records, k, acked[k])
    BY <1>1, <2>1 DEF MemoryInv, Held
  <2>4. QED
    BY <1>6, <1>7, <2>2, <2>3
<1>12. Covered'
  <2>1. SUFFICES ASSUME departed \subseteq {"rewrite"}
                 PROVE  /\ Grows(Memory!Cold(events))
                        /\ Covers(Memory!Replayed(events'), Memory!Cold(events))
                        /\ Covers(records, Memory!Cold(events))
    BY <1>1, <1>2 DEF Covered
  <2>2. Calm
    BY <2>1 DEF Calm
  <2>3. Grows(Memory!Cold(events)) /\ Covers(records, Memory!Cold(events))
    BY <1>1, <2>1 DEF MemoryInv, Covered
  <2>4. QED
    BY <1>3, <1>6, <1>7, <2>2, <2>3
<1>13. Agreed'
  <2>1. SUFFICES ASSUME departed = {}
                 PROVE  /\ Memory!Snapshot(Memory!Replayed(events'))
                             = Memory!Snapshot(Memory!Cold(events))
                        /\ Settled(Memory!Cold(events)) /\ Settled(Memory!Replayed(events'))
                        /\ Memory!Snapshot(records) = Memory!Snapshot(Memory!Cold(events))
                        /\ Settled(records)
    BY <1>1, <1>2 DEF Agreed
  <2>2. Calm
    BY <2>1 DEF Calm
  <2>3. /\ Settled(Memory!Cold(events)) /\ Settled(records)
        /\ Memory!Snapshot(records) = Memory!Snapshot(Memory!Cold(events))
    BY <1>1, <2>1 DEF MemoryInv, Agreed
  <2>4. QED
    BY <1>5, <1>6, <1>7, <2>2, <2>3
<1>14. QED
  BY <1>2, <1>8, <1>9, <1>10, <1>11, <1>12, <1>13 DEF MemoryInv

LEMMA InitKeeps ==
  ASSUME Memory!Init, MaxCrashes \in Nat
  PROVE  MemoryInv
<1>1. /\ events = <<>> /\ records = <<>> /\ epoch = 0 /\ loaded = FALSE
      /\ acked = [k \in Key |-> 0] /\ departed = {} /\ crashes = 0
      /\ attempts = [k \in Key |-> 0] /\ projection = [k \in Key |-> NoOutput]
  BY DEF Memory!Init
<1>2. /\ Memory!Cold(events) = <<>> /\ Memory!Checkpoints(events) = {}
      /\ Memory!Replayed(events) = <<>>
  <2>1. Memory!Cold(events) = <<>>
    BY <1>1, RecordsBegin DEF Memory!Cold
  <2>2. Memory!Checkpoints(events) = {}
    BY <1>1 DEF Memory!Checkpoints
  <2>3. QED
    BY <2>1, <2>2 DEF Memory!Replayed
<1>3. DOMAIN <<>> = {}
  OBVIOUS
<1>4. Memory!TypeOK
  <2>1. events \in Seq(Memory!Event)
    BY <1>1
  <2>2. records \in Seq(Memory!Record)
    BY <1>1
  <2>3. attempts \in [Key -> Nat] /\ acked \in [Key -> Nat]
        /\ projection \in [Key -> Output \cup {NoOutput}]
    BY <1>1
  <2>4. crashes \in 0..MaxCrashes /\ departed \subseteq Memory!Departures
    BY <1>1
  <2>5. QED
    BY <1>1, <2>1, <2>2, <2>3, <2>4 DEF Memory!TypeOK
<1>5. HasTop(events)
  BY <1>2 DEF HasTop
<1>6. Durable
  BY <1>1, <1>2, <1>3 DEF Durable, HasNewestValidated
<1>7. Opened
  <2>1. Closed(events) /\ HasNewest(Memory!Replayed(events))
    BY <1>1, <1>2, <1>3 DEF Closed, HasNewest
  <2>2. QED
    BY <1>1, <2>1 DEF Opened
<1>8. Held
  BY <1>1 DEF Held
<1>9. Covered
  BY <1>1, <1>2, <1>3 DEF Covered, Grows, Covers
<1>10. Agreed
  BY <1>1, <1>2, <1>3 DEF Agreed, Settled
<1>11. QED
  BY <1>4, <1>5, <1>6, <1>7, <1>8, <1>9, <1>10 DEF MemoryInv

LEMMA PutLogs ==
  ASSUME MemoryInv, NEW k \in Key, NEW o \in Output, NEW s \in {"validated", "failed"}
  PROVE  /\ Memory!Put(k, o, s) => Logs(k, o, s) /\ Returned(k, o, s)
         /\ Memory!PutResponseLost(k, o, s) => Logs(k, o, s) /\ Unanswered
<1>1. /\ departed \subseteq Memory!Departures /\ Memory!Undisciplined(k) \subseteq Memory!Departures
      /\ "lost_put" \in Memory!Departures
  BY DEF MemoryInv, Memory!TypeOK, Memory!Undisciplined, Memory!Departures
<1>2. Memory!NewRecord(k, o, s).attempt = attempts[k] + 1
  BY DEF Memory!NewRecord
<1>3. ASSUME Memory!Put(k, o, s)
      PROVE  Logs(k, o, s) /\ Returned(k, o, s)
  <2>1. /\ departed' = departed \cup Memory!Undisciplined(k)
        /\ attempts' = [attempts EXCEPT ![k] = @ + 1]
        /\ events' = Append(events, Memory!RecordEvent(Memory!NewRecord(k, o, s)))
        /\ records' = Append(records, Memory!NewRecord(k, o, s))
        /\ acked' = IF s = "validated"
                    THEN [acked EXCEPT ![k] = Memory!NewRecord(k, o, s).attempt] ELSE acked
        /\ projection' = IF s = "validated" THEN [projection EXCEPT ![k] = o] ELSE projection
        /\ UNCHANGED <<epoch, loaded, crashes>>
    BY <1>3 DEF Memory!Put, Memory!Departs
  <2>2. Logs(k, o, s)
    BY <1>1, <2>1 DEF Logs
  <2>3. Returned(k, o, s)
    BY <1>2, <2>1 DEF Returned
  <2>4. QED
    BY <2>2, <2>3
<1>4. ASSUME Memory!PutResponseLost(k, o, s)
      PROVE  Logs(k, o, s) /\ Unanswered
  <2>1. /\ departed' = departed \cup (Memory!Undisciplined(k) \cup {"lost_put"})
        /\ attempts' = [attempts EXCEPT ![k] = @ + 1]
        /\ events' = Append(events, Memory!RecordEvent(Memory!NewRecord(k, o, s)))
        /\ UNCHANGED <<records, projection, epoch, loaded, acked, crashes>>
    BY <1>4 DEF Memory!PutResponseLost, Memory!Departs
  <2>2. departed' \subseteq Memory!Departures /\ "lost_put" \in departed'
        /\ departed \cup Memory!Undisciplined(k) \subseteq departed'
    BY <1>1, <2>1
  <2>3. QED
    BY <2>1, <2>2 DEF Logs, Unanswered
<1>5. QED
  BY <1>3, <1>4

LEMMA MemoryStepKeeps ==
  ASSUME MemoryInv, [Memory!Next]_(Memory!vars), MaxCrashes \in Nat
  PROVE  MemoryInv'
<1>1. CASE Memory!Load
  BY <1>1, LoadKeeps
<1>2. CASE Memory!ReplayForceFull
  BY <1>2, ForceFullKeeps
<1>3. CASE Memory!Crash
  BY <1>3, CrashKeeps
<1>4. CASE Memory!Checkpoint
  BY <1>4, CheckpointKeeps
<1>5. CASE Memory!CheckpointResponseLost
  BY <1>5, LostCheckpointKeeps
<1>6. ASSUME NEW k \in Key, Memory!PutRaises(k)
      PROVE  MemoryInv'
  BY <1>6, RaisingKeeps
<1>7. ASSUME NEW k \in Key, NEW o \in Output, NEW s \in {"validated", "failed"},
             Memory!Put(k, o, s) \/ Memory!PutResponseLost(k, o, s)
      PROVE  MemoryInv'
  BY <1>7, PutLogs, PutKeeps
<1>8. CASE UNCHANGED Memory!vars
  <2>1. /\ events' = events /\ records' = records /\ projection' = projection
        /\ attempts' = attempts /\ epoch' = epoch /\ loaded' = loaded /\ acked' = acked
        /\ departed' = departed /\ crashes' = crashes
    BY <1>8 DEF Memory!vars, Memory!cache
  <2>2. Memory!TypeOK' /\ HasTop(events') /\ Durable'
    BY <2>1 DEF MemoryInv, Memory!TypeOK, Durable
  <2>3. Opened' /\ Held'
    BY <2>1 DEF MemoryInv, Opened, Held, Calm
  <2>4. Covered' /\ Agreed'
    BY <2>1 DEF MemoryInv, Covered, Agreed
  <2>5. QED
    BY <2>2, <2>3, <2>4 DEF MemoryInv
<1>9. QED
  BY <1>1, <1>2, <1>3, <1>4, <1>5, <1>6, <1>7, <1>8 DEF Memory!Next

LEMMA MemoryInvariant == MaxCrashes \in Nat => (Memory!Spec => []MemoryInv)
<1> SUFFICES ASSUME MaxCrashes \in Nat PROVE Memory!Spec => []MemoryInv
  OBVIOUS
<1>1. Memory!Init => MemoryInv
  BY InitKeeps
<1>2. MemoryInv /\ [Memory!Next]_(Memory!vars) => MemoryInv'
  BY MemoryStepKeeps
<1>3. QED
  BY <1>1, <1>2, PTL DEF Memory!Spec

-----------------------------------------------------------------------------
(* What the invariant gives *)

\* A record that is its node's newest answers every read of the node, in a log
\* where nothing validated was written again.
LEMMA ReadsOf ==
  ASSUME NEW lg \in Seq(Memory!Record), Settled(lg), NEW i \in DOMAIN lg, Memory!IsLatest(lg, i)
  PROVE  /\ Memory!TopAttempt(lg, lg[i].node) = lg[i].attempt
         /\ Memory!Rebuilt(lg, lg[i].node, NoOutput)
              = IF lg[i].status = "validated" THEN lg[i].output ELSE NoOutput
<1>1. PICK k : k = lg[i].node
  OBVIOUS
<1> DEFINE newest == {j \in DOMAIN lg : lg[j].node = k /\ Memory!IsLatest(lg, j)}
           valid == {j \in DOMAIN lg : lg[j].node = k /\ Memory!IsLatestValidated(lg, j)}
<1>2. newest = {i}
  BY <1>1, LatestIsOne
<1>3. Memory!TopAttempt(lg, k) = lg[i].attempt
  <2>1. (CHOOSE j \in newest : TRUE) = i /\ newest # {}
    BY <1>2
  <2>2. QED
    BY <2>1 DEF Memory!TopAttempt
<1>4. \A j \in valid : j = i /\ lg[i].status = "validated"
  BY <1>1, LatestIsOne DEF Settled, Memory!IsLatestValidated
<1>5. CASE lg[i].status = "validated"
  <2>1. valid = {i}
    BY <1>1, <1>4, <1>5, LatestIsValidated
  <2>2. (CHOOSE j \in valid : TRUE) = i /\ valid # {}
    BY <2>1
  <2>3. Memory!Rebuilt(lg, k, NoOutput) = lg[i].output
    BY <2>2 DEF Memory!Rebuilt
  <2>4. QED
    BY <1>1, <1>3, <1>5, <2>3
<1>6. CASE lg[i].status # "validated"
  <2>1. valid = {}
    BY <1>4, <1>6
  <2>2. Memory!Rebuilt(lg, k, NoOutput) = NoOutput
    BY <2>1 DEF Memory!Rebuilt
  <2>3. QED
    BY <1>1, <1>3, <1>6, <2>2
<1>7. QED
  BY <1>5, <1>6

\* A node of which the snapshot has no record is a node that was never run.
LEMMA ReadsNothing ==
  ASSUME NEW lg \in Seq(Memory!Record), Settled(lg), NEW k,
         \A r \in Memory!Snapshot(lg) : r.node # k
  PROVE  Memory!TopAttempt(lg, k) = 0 /\ Memory!Rebuilt(lg, k, NoOutput) = NoOutput
<1>1. \A i \in DOMAIN lg : Memory!IsLatest(lg, i) => lg[i].node # k
  BY DEF Memory!Snapshot
<1>2. {i \in DOMAIN lg : lg[i].node = k /\ Memory!IsLatest(lg, i)} = {}
  BY <1>1
<1>3. {i \in DOMAIN lg : lg[i].node = k /\ Memory!IsLatestValidated(lg, i)} = {}
  BY <1>1 DEF Settled, Memory!IsLatestValidated
<1>4. QED
  BY <1>2, <1>3 DEF Memory!TopAttempt, Memory!Rebuilt

\* The snapshot decides every read.
LEMMA SnapshotDecides ==
  ASSUME NEW a \in Seq(Memory!Record), NEW b \in Seq(Memory!Record), Settled(a), Settled(b),
         Memory!Snapshot(a) = Memory!Snapshot(b)
  PROVE  /\ Memory!Completed(a) = Memory!Completed(b)
         /\ \A k \in Key : /\ Memory!Rebuilt(a, k, NoOutput) = Memory!Rebuilt(b, k, NoOutput)
                           /\ Memory!TopAttempt(a, k) = Memory!TopAttempt(b, k)
<1>1. \A r \in Memory!Snapshot(a) :
        /\ \E i \in DOMAIN a : Memory!IsLatest(a, i) /\ a[i] = r
        /\ \E i \in DOMAIN b : Memory!IsLatest(b, i) /\ b[i] = r
  BY SnapshotTyped
<1>2. Memory!Completed(a) = Memory!Completed(b)
  <2>1. ASSUME NEW i \in DOMAIN a, Memory!IsLatest(a, i)
        PROVE  \E j \in DOMAIN b : Memory!IsLatest(b, j) /\ b[j] = a[i]
    <3>1. a[i] \in Memory!Snapshot(a)
      BY <2>1, SnapshotTyped
    <3>2. QED
      BY <1>1, <3>1
  <2>2. ASSUME NEW i \in DOMAIN b, Memory!IsLatest(b, i)
        PROVE  \E j \in DOMAIN a : Memory!IsLatest(a, j) /\ a[j] = b[i]
    <3>1. b[i] \in Memory!Snapshot(b)
      BY <2>2, SnapshotTyped
    <3>2. QED
      BY <1>1, <3>1
  <2>3. \A x : x \in Memory!Completed(a) => x \in Memory!Completed(b)
    BY <2>1 DEF Memory!Completed
  <2>4. \A x : x \in Memory!Completed(b) => x \in Memory!Completed(a)
    BY <2>2 DEF Memory!Completed
  <2>5. QED
    BY <2>3, <2>4
<1>3. ASSUME NEW k \in Key
      PROVE  /\ Memory!Rebuilt(a, k, NoOutput) = Memory!Rebuilt(b, k, NoOutput)
             /\ Memory!TopAttempt(a, k) = Memory!TopAttempt(b, k)
  <2>1. CASE \E r \in Memory!Snapshot(a) : r.node = k
    <3>1. PICK i \in DOMAIN a, j \in DOMAIN b :
             a[i].node = k /\ a[i] = b[j] /\ Memory!IsLatest(a, i) /\ Memory!IsLatest(b, j)
      BY <1>1, <2>1
    <3>2. /\ Memory!TopAttempt(a, a[i].node) = a[i].attempt
          /\ Memory!Rebuilt(a, a[i].node, NoOutput)
               = IF a[i].status = "validated" THEN a[i].output ELSE NoOutput
      BY <3>1, ReadsOf
    <3>3. /\ Memory!TopAttempt(b, b[j].node) = b[j].attempt
          /\ Memory!Rebuilt(b, b[j].node, NoOutput)
               = IF b[j].status = "validated" THEN b[j].output ELSE NoOutput
      BY <3>1, ReadsOf
    <3>4. QED
      BY <3>1, <3>2, <3>3
  <2>2. CASE \A r \in Memory!Snapshot(a) : r.node # k
    <3>1. Memory!TopAttempt(a, k) = 0 /\ Memory!Rebuilt(a, k, NoOutput) = NoOutput
      BY <2>2, ReadsNothing
    <3>2. Memory!TopAttempt(b, k) = 0 /\ Memory!Rebuilt(b, k, NoOutput) = NoOutput
      BY <2>2, ReadsNothing
    <3>3. QED
      BY <3>1, <3>2
  <2>3. QED
    BY <2>1, <2>2
<1>4. QED
  BY <1>2, <1>3

\* In the remote log the attempts of a node grow, across checkpoints, raised
\* puts, crashes and resumes, for any number of nodes and events, as long as a
\* put follows a read and its response arrives (MemoryStateStore.put).
THEOREM MemoryAttemptsGrow ==
  MaxCrashes \in Nat => (Memory!Spec => []Memory!AttemptsGrow)
<1>1. MemoryInv => Memory!AttemptsGrow
  BY DEF MemoryInv, Covered, Grows, Memory!AttemptsGrow
<1>2. QED
  BY <1>1, MemoryInvariant, PTL

\* A validated output whose put returned is found by the resume that reads the
\* last checkpoint and the epoch after it, also when responses of other puts
\* were lost, and by a full rebuild whatever happened (MemoryStateStore.replay).
THEOREM AcknowledgedIsKept ==
  MaxCrashes \in Nat => (Memory!Spec => []Memory!NothingAckedIsLost)
<1>1. ASSUME MemoryInv PROVE Memory!AckedIsDurable
  <2>1. SUFFICES ASSUME departed \subseteq {"lost_put"}, NEW k \in Key, acked[k] > 0
                 PROVE  \E i \in DOMAIN Memory!Replayed(events) :
                          /\ Memory!Replayed(events)[i].node = k
                          /\ Memory!IsLatestValidated(Memory!Replayed(events), i)
                          /\ Memory!Replayed(events)[i].attempt >= acked[k]
    BY DEF Memory!AckedIsDurable, Memory!Keeps
  <2>2. Holds(Memory!Replayed(events), k, acked[k])
    BY <1>1, <2>1 DEF MemoryInv, Held
  <2>3. QED
    BY <2>2, LatestIsValidated DEF Holds
<1>2. ASSUME MemoryInv PROVE Memory!ColdIsDurable
  <2>1. PICK cold : cold = Memory!Cold(events)
    OBVIOUS
  <2>2. cold \in Seq(Memory!Record) /\ acked \in [Key -> Nat]
    BY <1>2, <2>1, ViewTyped DEF MemoryInv, Memory!TypeOK
  <2>3. SUFFICES ASSUME NEW k \in Key, acked[k] > 0
                 PROVE  \E i \in DOMAIN cold :
                          /\ cold[i].node = k /\ Memory!IsLatestValidated(cold, i)
                          /\ cold[i].attempt >= acked[k]
    BY <2>1 DEF Memory!ColdIsDurable, Memory!Keeps
  <2>4. PICK i \in DOMAIN cold :
           cold[i].node = k /\ cold[i].status = "validated" /\ cold[i].attempt >= acked[k]
    BY <1>2, <2>1, <2>3 DEF MemoryInv, Durable, Retains
  <2>5. PICK j \in DOMAIN cold : cold[j].node = k /\ Memory!IsLatestValidated(cold, j)
    BY <1>2, <2>1, <2>4 DEF MemoryInv, Durable, HasNewestValidated
  <2>6. i = j \/ Memory!Supersedes(cold, j, i)
    BY <2>4, <2>5 DEF Memory!IsLatestValidated
  <2>7. cold[i].attempt \in Nat /\ cold[j].attempt \in Nat /\ acked[k] \in Nat
    BY <2>2, LogTypes
  <2>8. cold[j].attempt >= acked[k]
    BY <2>4, <2>6, <2>7 DEF Memory!Supersedes
  <2>9. QED
    BY <2>5, <2>8
<1>3. MemoryInv => Memory!NothingAckedIsLost
  BY <1>1, <1>2 DEF Memory!NothingAckedIsLost, MemoryInv
<1>4. QED
  BY <1>3, MemoryInvariant, PTL

\* Under the supervisor's discipline the resume from a checkpoint and the full
\* rebuild answer every read alike: completed nodes, outputs and attempt
\* counters (replay's docstring), however many checkpoints, crashes and nodes.
THEOREM ReplaysAgree ==
  MaxCrashes \in Nat => (Memory!Spec => []Memory!ReplayPathsAgree)
<1>1. ASSUME MemoryInv PROVE Memory!ReplayPathsAgree
  <2>1. SUFFICES ASSUME departed = {}, Memory!Checkpoints(events) # {}
                 PROVE  /\ Memory!Completed(Memory!Warm(events))
                             = Memory!Completed(Memory!Cold(events))
                        /\ \A k \in Key :
                             /\ Memory!Rebuilt(Memory!Warm(events), k, NoOutput)
                                  = Memory!Rebuilt(Memory!Cold(events), k, NoOutput)
                             /\ Memory!TopAttempt(Memory!Warm(events), k)
                                  = Memory!TopAttempt(Memory!Cold(events), k)
    BY DEF Memory!ReplayPathsAgree
  <2>2. Memory!Warm(events) = Memory!Replayed(events)
    BY <2>1 DEF Memory!Replayed
  <2>3. /\ Memory!Cold(events) \in Seq(Memory!Record)
        /\ Memory!Replayed(events) \in Seq(Memory!Record)
    BY <1>1, ViewTyped DEF MemoryInv, Memory!TypeOK
  <2>4. /\ Memory!Snapshot(Memory!Replayed(events)) = Memory!Snapshot(Memory!Cold(events))
        /\ Settled(Memory!Cold(events)) /\ Settled(Memory!Replayed(events))
    BY <1>1, <2>1 DEF MemoryInv, Agreed
  <2>5. QED
    BY <2>2, <2>3, <2>4, SnapshotDecides
<1>2. MemoryInv => Memory!ReplayPathsAgree
  BY <1>1
<1>3. QED
  BY <1>2, MemoryInvariant, PTL

-----------------------------------------------------------------------------
(* FileVault: the copy a reload makes of the notes *)

LEMMA NoteTypes ==
  ASSUME NEW r \in Vault!Record
  PROVE  /\ r.node \in Key /\ r.attempt \in Nat /\ r.clock \in Nat /\ r.clock > 0
         /\ r.output \in Output /\ r.address \in {"node", "attempt"}
<1>1. \A x \in Nat \ {0} : x \in Nat /\ x > 0
  OBVIOUS
<1>2. r.attempt \in Nat \ {0} /\ r.clock \in Nat \ {0}
  BY DEF Vault!Record
<1>3. r.node \in Key /\ r.output \in Output /\ r.address \in {"node", "attempt"}
  BY DEF Vault!Record
<1>4. QED
  BY <1>1, <1>2, <1>3

\* A finite set of notes that has one has a latest one: strict inclusion orders
\* what is later than each of them.
LEMMA LatestNote ==
  ASSUME NEW S, S \subseteq Vault!Record, IsFiniteSet(S), S # {}
  PROVE  \E r \in S : \A s \in S : s.clock <= r.clock
<1> DEFINE Later(r) == {s \in S : s.clock > r.clock}
           I == {Later(r) : r \in S}
<1>1. \A r \in S : r.clock \in Nat
  BY NoteTypes
<1>2. I \subseteq FiniteSubsetsOf(S)
  <2>1. SUFFICES ASSUME NEW r \in S PROVE Later(r) \in FiniteSubsetsOf(S)
    OBVIOUS
  <2>2. IsFiniteSet(Later(r))
    BY FS_Subset
  <2>3. QED
    BY <2>2 DEF FiniteSubsetsOf
<1>3. I # {}
  OBVIOUS
<1>4. IsWellFoundedOn(StrictSubsetOrdering(S), FiniteSubsetsOf(S))
  BY FS_StrictSubsetOrderingWellFounded
<1>5. PICK x \in I : \A y \in I : ~(<<y, x>> \in StrictSubsetOrdering(S))
  <2> HIDE DEF I
  <2>1. QED
    BY <1>2, <1>3, <1>4, WFMin
<1>6. PICK r \in S : x = Later(r)
  OBVIOUS
<1>7. ASSUME NEW s \in S, ~(s.clock <= r.clock)
      PROVE  FALSE
  <2>1. s \in Later(r) /\ s \notin Later(s)
    BY <1>1, <1>7
  <2>2. Later(s) \subseteq Later(r)
    <3>1. SUFFICES ASSUME NEW t \in Later(s) PROVE t \in Later(r)
      OBVIOUS
    <3>2. t \in S /\ t.clock > s.clock /\ s.clock > r.clock
      BY <1>1, <1>7
    <3>3. t.clock > r.clock
      BY <1>1, <3>2
    <3>4. QED
      BY <3>2, <3>3
  <2>3. <<Later(s), Later(r)>> \in StrictSubsetOrdering(S)
    <3>1. Later(s) \in SUBSET S /\ Later(r) \in SUBSET S
      OBVIOUS
    <3> HIDE DEF Later
    <3>2. QED
      BY <2>1, <2>2, <3>1 DEF StrictSubsetOrdering
  <2>4. Later(s) \in I
    OBVIOUS
  <2>5. QED
    BY <1>5, <1>6, <2>3, <2>4
<1>8. QED
  BY <1>7

LEMMA LastClockBounds ==
  ASSUME notes \subseteq Vault!Record, IsFiniteSet(notes)
  PROVE  Vault!LastClock \in Nat /\ \A r \in notes : r.clock <= Vault!LastClock
<1> DEFINE C == {0} \cup {r.clock : r \in notes}
<1>1. Vault!LastClock = (CHOOSE x \in C : \A y \in C : x >= y)
  BY Zenon DEF Vault!LastClock, Vault!Max
<1>2. \A r \in notes : r.clock \in Nat /\ r.clock > 0
  BY NoteTypes
<1>3. \E x \in C : \A y \in C : x >= y
  <2>1. CASE notes = {}
    BY <2>1
  <2>2. CASE notes # {}
    <3>1. PICK r \in notes : \A s \in notes : s.clock <= r.clock
      BY <2>2, LatestNote
    <3>2. r.clock \in C /\ \A y \in C : r.clock >= y
      BY <1>2, <3>1
    <3>3. QED
      BY <3>2
  <2>3. QED
    BY <2>1, <2>2
<1>4. PICK m : m = Vault!LastClock
  OBVIOUS
<1>5. m \in C /\ \A y \in C : m >= y
  BY <1>1, <1>3, <1>4
<1>6. C \subseteq Nat
  BY <1>2
<1>7. QED
  BY <1>2, <1>4, <1>5, <1>6

LEMMA NotesListed ==
  ASSUME NEW S, IsFiniteSet(S)
  PROVE  /\ Vault!SetToSeq(S) \in Seq(S)
         /\ \A s \in S : \E i \in DOMAIN Vault!SetToSeq(S) : Vault!SetToSeq(S)[i] = s
<1>1. Cardinality(S) \in Nat /\ ExistsBijection(1..Cardinality(S), S)
  BY FS_CardinalityType
<1>2. PICK f \in [1..Cardinality(S) -> S] : \A i, j \in 1..Cardinality(S) : f[i] = f[j] => i = j
  BY <1>1 DEF ExistsBijection, Bijection, Injection, IsInjective
<1>3. \E g \in [1..Cardinality(S) -> S] : Vault!IsInjective(g)
  BY <1>2 DEF Vault!IsInjective
<1>4. /\ Vault!SetToSeq(S) \in [1..Cardinality(S) -> S]
      /\ Vault!IsInjective(Vault!SetToSeq(S))
  <2>1. Vault!Cardinality(S) = Cardinality(S)
    BY Zenon DEF Vault!Cardinality, Cardinality
  <2>2. QED
    BY <1>3, <2>1 DEF Vault!SetToSeq
<1>5. PICK g : g = Vault!SetToSeq(S)
  OBVIOUS
<1>6. /\ g \in [1..Cardinality(S) -> S] /\ DOMAIN g = 1..Cardinality(S)
      /\ \A i, j \in DOMAIN g : g[i] = g[j] => i = j
  BY <1>4, <1>5 DEF Vault!IsInjective
<1>7. g \in Injection(1..Cardinality(S), S)
  BY <1>6 DEF Injection, IsInjective
<1>8. IsFiniteSet(1..Cardinality(S)) /\ Cardinality(1..Cardinality(S)) = Cardinality(S)
  BY <1>1, FS_Interval
<1>9. g \in Surjection(1..Cardinality(S), S)
  BY <1>7, <1>8, FS_Injection
<1>10. \A s \in S : \E i \in DOMAIN g : g[i] = s
  BY <1>6, <1>9 DEF Surjection
<1>11. g \in Seq(S)
  BY <1>1, <1>6
<1>12. QED
  BY <1>5, <1>6, <1>10, <1>11

\* The sequence holds the records of S, and no others.
Lists(lg, S) == lg \in Seq(S) /\ \A s \in S : \E i \in DOMAIN lg : lg[i] = s

LEMMA ListsJoin ==
  ASSUME NEW S, NEW T, NEW s, NEW t, Lists(s, S), Lists(t, T)
  PROVE  Lists(s \o t, S \cup T)
<1>1. s \in Seq(S \cup T) /\ t \in Seq(S \cup T) /\ s \in Seq(S) /\ t \in Seq(T)
  BY DEF Lists
<1>2. s \o t \in Seq(S \cup T)
  BY <1>1
<1>3. /\ \A i \in DOMAIN s : i \in DOMAIN (s \o t) /\ (s \o t)[i] = s[i]
      /\ \A i \in DOMAIN t : Len(s) + i \in DOMAIN (s \o t) /\ (s \o t)[Len(s) + i] = t[i]
  BY <1>1
<1>4. ASSUME NEW x \in S \cup T
      PROVE  \E i \in DOMAIN (s \o t) : (s \o t)[i] = x
  <2>1. CASE x \in S
    BY <1>3, <2>1 DEF Lists
  <2>2. CASE x \in T
    BY <1>3, <2>2 DEF Lists
  <2>3. QED
    BY <2>1, <2>2
<1>5. QED
  BY <1>2, <1>4 DEF Lists

\* The recursion of Loaded: the notes of one clock after those of the clocks
\* below it.
Chunk(c, a) == Vault!SetToSeq({r \in notes : r.clock = c /\ r.address = a})

Joins(f) ==
  f = [c \in 0..Vault!LastClock |->
         IF c = 0 THEN <<>> ELSE f[c - 1] \o Chunk(c, "attempt") \o Chunk(c, "node")]

LEMMA ChunksListed ==
  ASSUME notes \subseteq Vault!Record, IsFiniteSet(notes), NEW c, NEW a
  PROVE  Lists(Chunk(c, a), {r \in notes : r.clock = c /\ r.address = a})
<1> DEFINE S == {r \in notes : r.clock = c /\ r.address = a}
<1>1. IsFiniteSet(S)
  BY FS_Subset
<1>2. /\ Vault!SetToSeq(S) \in Seq(S)
      /\ \A s \in S : \E i \in DOMAIN Vault!SetToSeq(S) : Vault!SetToSeq(S)[i] = s
  <2> HIDE DEF S
  <2>1. QED
    BY <1>1, NotesListed
<1>3. QED
  BY <1>2 DEF Lists, Chunk

LEMMA JoinsExists ==
  ASSUME notes \subseteq Vault!Record, IsFiniteSet(notes)
  PROVE  \E f : Joins(f)
<1> DEFINE D == 0..Vault!LastClock
           V == Seq(Vault!Record)
           Step(f, c) == IF c = 0 THEN <<>>
                         ELSE f[c - 1] \o Chunk(c, "attempt") \o Chunk(c, "node")
           F == [x \in D \X [D -> V] |-> Step(x[2], x[1])]
<1>1. Vault!LastClock \in Nat /\ D \subseteq 0..Vault!LastClock /\ V # {}
  <2>1. Vault!LastClock \in Nat
    BY LastClockBounds
  <2>2. <<>> \in V
    OBVIOUS
  <2>3. QED
    BY <2>1, <2>2
<1>2. \A c \in D : c # 0 => c - 1 \in D
  <2>1. SUFFICES ASSUME NEW c \in 0..Vault!LastClock, c # 0 PROVE c - 1 \in 0..Vault!LastClock
    OBVIOUS
  <2>2. QED
    BY <1>1, <2>1
<1>3. ASSUME NEW c \in D, NEW f \in [D -> V]
      PROVE  Step(f, c) \in V
  <2>1. CASE c = 0
    BY <2>1
  <2>2. CASE c # 0
    <3>1. f[c - 1] \in V
      BY <1>2, <2>2
    <3>2. ASSUME NEW a PROVE Chunk(c, a) \in V
      <4>1. Chunk(c, a) \in Seq({r \in notes : r.clock = c /\ r.address = a})
        BY ChunksListed DEF Lists
      <4>2. {r \in notes : r.clock = c /\ r.address = a} \subseteq Vault!Record
        OBVIOUS
      <4>3. QED
        BY <4>1, <4>2
    <3>3. ASSUME NEW s \in V, NEW t \in V PROVE s \o t \in V
      OBVIOUS
    <3> HIDE DEF V
    <3>4. f[c - 1] \o Chunk(c, "attempt") \o Chunk(c, "node") \in V
      BY <3>1, <3>2, <3>3
    <3>5. QED
      BY <2>2, <3>4
  <2>3. QED
    BY <2>1, <2>2
<1>4. \A c \in D, f \in [D -> V] : F[<<c, f>>] = Step(f, c)
  OBVIOUS
<1>5. Downward(D, V, F)
  <2>1. F \in [D \X [D -> V] -> V]
    <3> HIDE DEF Step
    <3>1. QED
      BY <1>3
  <2>2. ASSUME NEW n \in D, NEW f \in [D -> V], NEW g \in [D -> V],
               \A m \in D : m < n => f[m] = g[m]
        PROVE  F[<<n, f>>] = F[<<n, g>>]
    <3>1. n # 0 => n - 1 \in D /\ n - 1 < n
      BY <1>1, <1>2
    <3>2. n # 0 => f[n - 1] = g[n - 1]
      BY <2>2, <3>1
    <3>3. Step(f, n) = Step(g, n)
      BY <3>2
    <3> HIDE DEF F, Step
    <3>4. QED
      BY <1>4, <3>3
  <2> HIDE DEF D, V, F, Step
  <2>3. QED
    BY <2>1, <2>2 DEF Downward
<1>6. PICK f : Solves(f, D, V, F)
  <2> HIDE DEF D, V, F, Step
  <2>1. QED
    BY <1>1, <1>5, RecursionDefines
<1>7. f \in [D -> V] /\ \A n \in D : f[n] = Step(f, n)
  <2> HIDE DEF D, V, F, Step
  <2>1. QED
    BY <1>4, <1>6 DEF Solves
<1>8. f = [n \in D |-> Step(f, n)]
  <2> HIDE DEF D, V, Step
  <2>1. QED
    BY <1>7
<1>9. QED
  BY <1>8 DEF Joins

LEMMA JoinsDefines ==
  ASSUME notes \subseteq Vault!Record, IsFiniteSet(notes)
  PROVE  \E f : Joins(f) /\ Vault!Loaded = f[Vault!LastClock]
<1> DEFINE upto[c \in 0..Vault!LastClock] ==
             IF c = 0 THEN <<>>
             ELSE upto[c - 1] \o Chunk(c, "attempt") \o Chunk(c, "node")
<1>1. Vault!Loaded = upto[Vault!LastClock]
  BY Zenon DEF Vault!Loaded, Chunk
<1>2. Joins(upto)
  <2>1. \E f : Joins(f)
    BY JoinsExists
  <2>2. QED
    BY <2>1, Zenon DEF Joins
<1>3. QED
  BY <1>1, <1>2

\* A reload reads every note, and nothing else.
LEMMA LoadedLists ==
  ASSUME notes \subseteq Vault!Record, IsFiniteSet(notes)
  PROVE  Lists(Vault!Loaded, notes)
<1>1. PICK f : Joins(f) /\ Vault!Loaded = f[Vault!LastClock]
  BY JoinsDefines
<1>2. PICK hi \in Nat : hi = Vault!LastClock
  BY LastClockBounds
<1>3. /\ 0 \in 0..hi => f[0] = <<>>
      /\ \A c \in 0..hi : c # 0 => f[c] = f[c - 1] \o Chunk(c, "attempt") \o Chunk(c, "node")
  <2>1. f = [c \in 0..hi |->
               IF c = 0 THEN <<>> ELSE f[c - 1] \o Chunk(c, "attempt") \o Chunk(c, "node")]
    BY <1>1, <1>2 DEF Joins
  <2>2. \A c \in 0..hi :
          f[c] = IF c = 0 THEN <<>> ELSE f[c - 1] \o Chunk(c, "attempt") \o Chunk(c, "node")
    BY <2>1, Zenon
  <2>3. QED
    BY <2>2, Zenon
<1> DEFINE Below(c) == {r \in notes : r.clock <= c}
           S == {c \in Nat : c <= hi => Lists(f[c], Below(c))}
<1>4. \A r \in notes : r.clock \in Nat /\ r.clock > 0 /\ r.address \in {"node", "attempt"}
                       /\ r.clock <= hi
  BY <1>2, NoteTypes, LastClockBounds
<1>5. 0 \in S
  <2>1. Below(0) = {}
    BY <1>4
  <2>2. f[0] = <<>>
    BY <1>3
  <2>3. Lists(<<>>, {})
    BY DEF Lists
  <2>4. QED
    BY <2>1, <2>2, <2>3
<1>6. ASSUME NEW n \in Nat, n \in S
      PROVE  n + 1 \in S
  <2>1. SUFFICES ASSUME n + 1 <= hi PROVE Lists(f[n + 1], Below(n + 1))
    OBVIOUS
  <2>2. PICK c : c = n + 1
    OBVIOUS
  <2>3. c \in 0..hi /\ c # 0 /\ c - 1 = n /\ n <= hi
    BY <2>1, <2>2
  <2>4. f[c] = f[n] \o Chunk(c, "attempt") \o Chunk(c, "node")
    BY <1>3, <2>3
  <2>5. Lists(f[n], Below(n))
    BY <1>6, <2>3
  <2> DEFINE At(a) == {r \in notes : r.clock = c /\ r.address = a}
  <2>6. Lists(Chunk(c, "attempt"), At("attempt")) /\ Lists(Chunk(c, "node"), At("node"))
    BY ChunksListed
  <2>7. Below(c) = Below(n) \cup At("attempt") \cup At("node")
    <3>1. \A r \in notes : r.clock <= c <=> r.clock <= n \/ r.clock = c
      BY <1>4, <2>2
    <3>2. QED
      BY <1>4, <3>1
  <2> HIDE DEF Below, At
  <2>8. Lists(f[n] \o Chunk(c, "attempt"), Below(n) \cup At("attempt"))
    BY <2>5, <2>6, ListsJoin
  <2>9. Lists(f[n] \o Chunk(c, "attempt") \o Chunk(c, "node"),
              Below(n) \cup At("attempt") \cup At("node"))
    BY <2>6, <2>8, ListsJoin
  <2>10. QED
    BY <2>2, <2>4, <2>7, <2>9
<1>7. hi \in S
  <2> HIDE DEF S
  <2>1. QED
    BY <1>5, <1>6, Induct
<1>8. Below(hi) = notes
  BY <1>4
<1>9. QED
  BY <1>1, <1>2, <1>7, <1>8

-----------------------------------------------------------------------------
(* FileVault: what a copy answers *)

LEMMA CopyTypes ==
  ASSUME NEW lg \in Seq(Vault!Record)
  PROVE  /\ Len(lg) \in Nat /\ DOMAIN lg = 1..Len(lg)
         /\ \A i \in DOMAIN lg : /\ i \in Nat /\ lg[i] \in Vault!Record
                                 /\ lg[i].attempt \in Nat /\ lg[i].node \in Key
                                 /\ lg[i].output \in Output
<1>1. /\ Len(lg) \in Nat /\ DOMAIN lg = 1..Len(lg)
      /\ \A i \in DOMAIN lg : i \in Nat /\ lg[i] \in Vault!Record
  OBVIOUS
<1>2. QED
  BY <1>1, NoteTypes

\* Among the records of a node one is the newest: strict inclusion orders what
\* supersedes each of them.
LEMMA NewestExists ==
  ASSUME NEW lg \in Seq(Vault!Record), NEW k, NEW o \in DOMAIN lg, lg[o].node = k
  PROVE  \E i \in DOMAIN lg : lg[i].node = k /\ Vault!IsLatest(lg, i)
<1> DEFINE D == {i \in DOMAIN lg : lg[i].node = k}
           Better(i) == {j \in D : Vault!Supersedes(lg, j, i)}
           I == {Better(i) : i \in D}
<1>1. \A i \in D : i \in Nat /\ lg[i].attempt \in Nat
  BY CopyTypes
<1>2. IsFiniteSet(D)
  <2>1. IsFiniteSet(DOMAIN lg)
    BY CopyTypes, FS_Interval
  <2>2. QED
    BY <2>1, FS_Subset
<1>3. I \subseteq FiniteSubsetsOf(D)
  <2>1. SUFFICES ASSUME NEW i \in D PROVE Better(i) \in FiniteSubsetsOf(D)
    OBVIOUS
  <2>2. IsFiniteSet(Better(i))
    BY <1>2, FS_Subset
  <2>3. QED
    BY <2>2 DEF FiniteSubsetsOf
<1>4. I # {}
  OBVIOUS
<1>5. IsWellFoundedOn(StrictSubsetOrdering(D), FiniteSubsetsOf(D))
  BY FS_StrictSubsetOrderingWellFounded
<1>6. PICK x \in I : \A y \in I : ~(<<y, x>> \in StrictSubsetOrdering(D))
  <2> HIDE DEF I
  <2>1. QED
    BY <1>3, <1>4, <1>5, WFMin
<1>7. PICK i \in D : x = Better(i)
  OBVIOUS
<1>8. ASSUME NEW j \in D, Vault!Supersedes(lg, j, i)
      PROVE  FALSE
  <2>1. j \in Better(i) /\ j \notin Better(j)
    BY <1>1, <1>8 DEF Vault!Supersedes
  <2>2. Better(j) \subseteq Better(i)
    BY <1>1, <1>8 DEF Vault!Supersedes
  <2>3. <<Better(j), Better(i)>> \in StrictSubsetOrdering(D)
    <3>1. Better(j) \in SUBSET D /\ Better(i) \in SUBSET D
      OBVIOUS
    <3> HIDE DEF Better
    <3>2. QED
      BY <2>1, <2>2, <3>1 DEF StrictSubsetOrdering
  <2>4. Better(j) \in I
    OBVIOUS
  <2>5. QED
    BY <1>6, <1>7, <2>3, <2>4
<1>9. \A j \in D : j = i \/ Vault!Supersedes(lg, i, j)
  BY <1>1, <1>8 DEF Vault!Supersedes
<1>10. QED
  BY <1>9 DEF Vault!IsLatest

\* No record of the copy is above the counters.
Within(lg, top) == \A i \in DOMAIN lg : lg[i].attempt <= top[lg[i].node]

\* What _load sets next to the records.
LEMMA CopyCounters ==
  ASSUME NEW lg \in Seq(Vault!Record)
  PROVE  /\ \A k \in Key : Vault!TopAttempt(lg, k) \in Nat
         /\ \A k \in Key : Vault!Rebuilt(lg, k, NoOutput) \in Output \cup {NoOutput}
         /\ Within(lg, [k \in Key |-> Vault!TopAttempt(lg, k)])
<1> DEFINE newest(k) == {i \in DOMAIN lg : lg[i].node = k /\ Vault!IsLatest(lg, i)}
           valid(k) == {i \in DOMAIN lg : lg[i].node = k /\ Vault!IsLatestValidated(lg, i)}
<1>1. \A i \in DOMAIN lg : lg[i].attempt \in Nat /\ lg[i].node \in Key /\ lg[i].output \in Output
  BY CopyTypes
<1>2. ASSUME NEW k \in Key
      PROVE  Vault!TopAttempt(lg, k) \in Nat
  <2>1. CASE newest(k) = {}
    BY <2>1 DEF Vault!TopAttempt
  <2>2. CASE newest(k) # {}
    <3>1. (CHOOSE i \in newest(k) : TRUE) \in newest(k)
      BY <2>2
    <3>2. QED
      BY <1>1, <2>2, <3>1 DEF Vault!TopAttempt
  <2>3. QED
    BY <2>1, <2>2
<1>3. ASSUME NEW k \in Key
      PROVE  Vault!Rebuilt(lg, k, NoOutput) \in Output \cup {NoOutput}
  <2>1. CASE valid(k) = {}
    BY <2>1 DEF Vault!Rebuilt
  <2>2. CASE valid(k) # {}
    <3>1. (CHOOSE i \in valid(k) : TRUE) \in valid(k)
      BY <2>2
    <3>2. QED
      BY <1>1, <2>2, <3>1 DEF Vault!Rebuilt
  <2>3. QED
    BY <2>1, <2>2
<1>4. ASSUME NEW i \in DOMAIN lg
      PROVE  lg[i].attempt <= Vault!TopAttempt(lg, lg[i].node)
  <2>1. PICK k \in Key : k = lg[i].node
    BY <1>1
  <2>2. PICK j \in DOMAIN lg : lg[j].node = k /\ Vault!IsLatest(lg, j)
    BY <2>1, NewestExists
  <2>3. newest(k) # {}
    BY <2>2
  <2>4. PICK l \in newest(k) : Vault!TopAttempt(lg, k) = lg[l].attempt
    BY <2>3 DEF Vault!TopAttempt
  <2>5. i = l \/ Vault!Supersedes(lg, l, i)
    BY <2>1, <2>4 DEF Vault!IsLatest
  <2>6. lg[l].attempt \in Nat /\ lg[i].attempt \in Nat
    BY <1>1, <2>4
  <2>7. QED
    BY <2>1, <2>4, <2>5, <2>6 DEF Vault!Supersedes
<1>5. Within(lg, [k \in Key |-> Vault!TopAttempt(lg, k)])
  BY <1>1, <1>4 DEF Within
<1>6. QED
  BY <1>2, <1>3, <1>5

Above(lg, r) == \A i \in DOMAIN lg : lg[i].node = r.node => lg[i].attempt < r.attempt

\* A record above all of its node's answers the node's reads from then on, and
\* changes no others.
LEMMA RebuiltAppends ==
  ASSUME NEW lg \in Seq(Vault!Record), NEW r \in Vault!Record, Above(lg, r), NEW k \in Key
  PROVE  Vault!Rebuilt(Append(lg, r), k, NoOutput)
           = IF r.status = "validated" /\ k = r.node THEN r.output
             ELSE Vault!Rebuilt(lg, k, NoOutput)
<1> DEFINE more == Append(lg, r)
           new == Len(lg) + 1
           before == {i \in DOMAIN lg : lg[i].node = k /\ Vault!IsLatestValidated(lg, i)}
           after == {i \in DOMAIN more : more[i].node = k /\ Vault!IsLatestValidated(more, i)}
<1>1. /\ DOMAIN more = DOMAIN lg \cup {new}
      /\ \A i \in DOMAIN lg : more[i] = lg[i]
      /\ more[new] = r
      /\ \A i \in DOMAIN lg : i \in Nat /\ i < new
      /\ new \notin DOMAIN lg
  BY AppendFacts
<1>2. /\ new \in Nat /\ r.attempt \in Nat
      /\ \A i \in DOMAIN lg : lg[i].attempt \in Nat
  BY CopyTypes, NoteTypes
<1>3. \A i, j \in DOMAIN lg : Vault!Supersedes(more, i, j) <=> Vault!Supersedes(lg, i, j)
  BY <1>1 DEF Vault!Supersedes
<1> HIDE DEF more, new
<1>4. CASE r.status = "validated" /\ k = r.node
  <2>1. ASSUME NEW i \in DOMAIN lg, lg[i].node = r.node
        PROVE  Vault!Supersedes(more, new, i) /\ ~Vault!Supersedes(more, i, new)
    <3>1. lg[i].attempt < r.attempt
      BY <2>1 DEF Above
    <3>2. QED
      BY <1>1, <1>2, <3>1 DEF Vault!Supersedes
  <2>2. Vault!IsLatestValidated(more, new)
    BY <1>1, <1>4, <2>1 DEF Vault!IsLatestValidated
  <2>3. ASSUME NEW i \in after, i # new
        PROVE  FALSE
    <3>1. i \in DOMAIN lg /\ lg[i].node = r.node
      BY <1>1, <1>4, <2>3
    <3>2. new = i \/ Vault!Supersedes(more, i, new)
      BY <1>1, <1>4, <2>3, <3>1 DEF Vault!IsLatestValidated
    <3>3. QED
      BY <2>1, <2>3, <3>1, <3>2
  <2>4. after = {new}
    BY <1>1, <1>4, <2>2, <2>3
  <2>5. Vault!Rebuilt(more, k, NoOutput) = more[new].output
    BY <2>4 DEF Vault!Rebuilt
  <2>6. QED
    BY <1>1, <1>4, <2>5 DEF more
<1>5. CASE ~(r.status = "validated" /\ k = r.node)
  <2>1. ASSUME NEW i \in DOMAIN lg, lg[i].node = k
        PROVE  Vault!IsLatestValidated(more, i) <=> Vault!IsLatestValidated(lg, i)
    <3>1. ASSUME Vault!IsLatestValidated(lg, i)
          PROVE  Vault!IsLatestValidated(more, i)
      <4>1. SUFFICES ASSUME NEW j \in DOMAIN more,
                            more[j].node = more[i].node, more[j].status = "validated"
                     PROVE  j = i \/ Vault!Supersedes(more, i, j)
        BY <1>1, <3>1 DEF Vault!IsLatestValidated
      <4>2. j \in DOMAIN lg
        BY <1>1, <1>5, <2>1, <4>1
      <4>3. QED
        BY <1>1, <1>3, <3>1, <4>1, <4>2 DEF Vault!IsLatestValidated
    <3>2. ASSUME Vault!IsLatestValidated(more, i)
          PROVE  Vault!IsLatestValidated(lg, i)
      BY <1>1, <1>3, <3>2 DEF Vault!IsLatestValidated
    <3>3. QED
      BY <3>1, <3>2
  <2>2. after = before
    <3>1. ~(new \in after)
      BY <1>1, <1>5 DEF Vault!IsLatestValidated
    <3>2. \A i \in DOMAIN lg : i \in after <=> i \in before
      BY <1>1, <2>1
    <3>3. after \subseteq DOMAIN lg /\ before \subseteq DOMAIN lg
      BY <1>1, <3>1
    <3> HIDE DEF after, before
    <3>4. QED
      BY <3>2, <3>3
  <2>3. CASE before = {}
    <3>1. Vault!Rebuilt(more, k, NoOutput) = NoOutput
      BY <2>2, <2>3 DEF Vault!Rebuilt
    <3>2. Vault!Rebuilt(lg, k, NoOutput) = NoOutput
      BY <2>3 DEF Vault!Rebuilt
    <3>3. QED
      BY <1>5, <3>1, <3>2 DEF more
  <2>4. CASE before # {}
    <3>1. Vault!Rebuilt(lg, k, NoOutput) = lg[CHOOSE i \in before : TRUE].output
      BY <2>4 DEF Vault!Rebuilt
    <3>2. Vault!Rebuilt(more, k, NoOutput) = more[CHOOSE i \in after : TRUE].output
      BY <2>2, <2>4 DEF Vault!Rebuilt
    <3> HIDE DEF after
    <3>3. PICK i : i = CHOOSE j \in before : TRUE
      OBVIOUS
    <3>4. i \in before
      BY <2>4, <3>3
    <3>5. Vault!Rebuilt(more, k, NoOutput) = lg[i].output
      BY <1>1, <2>2, <3>2, <3>3, <3>4
    <3>6. QED
      BY <1>5, <3>1, <3>3, <3>5 DEF more
  <2>5. QED
    BY <2>3, <2>4
<1>6. QED
  BY <1>4, <1>5

(***************************************************************************)
(* The inductive invariant of the file vault.  Whoever is in its critical  *)
(* section holds the lock and a copy of the present generation (Locks), so *)
(* that one process at a time is there.  A copy answers from its own       *)
(* records, its counters bound them, and while it is not stale it holds    *)
(* all that was acknowledged (Copies): the next attempt is above every     *)
(* acknowledged one, and the note a put replaces, if any, is none of those *)
(* (InDoubt).  A bumped generation leaves every other copy stale until the *)
(* put returns.  Until a put is cut short, a copy that is not stale lacks  *)
(* at most the note whose generation is still to be bumped (Whole).        *)
(***************************************************************************)
Has(lg, r) == \E i \in DOMAIN lg : lg[i] = r

InHand(r) == \E p \in Proc : pc[p] = "written" /\ writing[p] = r

Kept == IsFiniteSet(notes) /\ \A i \in DOMAIN acked : acked[i] \in notes

Locks(p) == pc[p] # "out" => lock = p /\ ~Vault!Stale(p)

Dated(p) == loaded[p] => own_gen[p] <= gen

Copies(p) ==
  /\ Within(records[p], attempts[p])
  /\ \A k \in Key : projection[p][k] = Vault!Rebuilt(records[p], k, NoOutput)
  /\ ~Vault!Stale(p) => \A i \in DOMAIN acked : Has(records[p], acked[i])

InDoubt(p) ==
  pc[p] \in {"written", "bumped"} =>
    /\ writing[p] \in Vault!Record /\ writing[p] \in notes
    /\ Above(acked, writing[p])
    /\ pc[p] = "written" => /\ Above(records[p], writing[p])
                            /\ writing[p].attempt <= attempts[p][writing[p].node]
    /\ pc[p] = "bumped" => /\ Has(records[p], writing[p])
                           /\ \A q \in Proc \ {p} : Vault!Stale(q)

Whole(p) ==
  ~torn /\ ~Vault!Stale(p) =>
    /\ \A i \in DOMAIN records[p] : records[p][i] \in notes
    /\ \A r \in notes : Has(records[p], r) \/ InHand(r)

VaultInv ==
  /\ Vault!TypeOK /\ Kept
  /\ \A p \in Proc : Locks(p) /\ Dated(p) /\ Copies(p) /\ InDoubt(p) /\ Whole(p)

LEMMA VaultBegins ==
  ASSUME Vault!Init, MaxCrashes \in Nat
  PROVE  VaultInv
<1>1. /\ notes = {} /\ gen = 0 /\ lock = Nobody /\ acked = <<>> /\ torn = FALSE /\ crashes = 0
      /\ records = [p \in Proc |-> <<>>]
      /\ projection = [p \in Proc |-> [k \in Key |-> NoOutput]]
      /\ attempts = [p \in Proc |-> [k \in Key |-> 0]]
      /\ clock = [p \in Proc |-> 0] /\ loaded = [p \in Proc |-> FALSE]
      /\ own_gen = [p \in Proc |-> -1] /\ pc = [p \in Proc |-> "out"]
      /\ writing = [p \in Proc |-> <<>>]
  BY DEF Vault!Init, Vault!NoRecord
<1>2. Vault!TypeOK
  <2>1. acked \in Seq(Vault!Record) /\ <<>> \in Seq(Vault!Record)
    BY <1>1
  <2>2. /\ records \in [Proc -> Seq(Vault!Record)]
        /\ projection \in [Proc -> [Key -> Output \cup {NoOutput}]]
        /\ attempts \in [Proc -> [Key -> Nat]]
    BY <1>1, <2>1
  <2>3. /\ clock \in [Proc -> Nat] /\ loaded \in [Proc -> BOOLEAN]
        /\ own_gen \in [Proc -> Nat \cup {-1}]
        /\ pc \in [Proc -> {"out", "in", "written", "bumped"}]
        /\ writing \in [Proc -> Vault!Record \cup {Vault!NoRecord}]
    BY <1>1 DEF Vault!NoRecord
  <2>4. /\ notes \subseteq Vault!Record /\ gen \in Nat /\ lock \in Proc \cup {Nobody}
        /\ crashes \in 0..MaxCrashes
    BY <1>1
  <2>5. torn \in BOOLEAN
    BY <1>1, Zenon
  <2>6. QED
    BY <2>1, <2>2, <2>3, <2>4, <2>5 DEF Vault!TypeOK
<1>3. Kept
  BY <1>1, FS_EmptySet DEF Kept
<1>4. ASSUME NEW p \in Proc
      PROVE  Locks(p) /\ Dated(p) /\ Copies(p) /\ InDoubt(p) /\ Whole(p)
  <2>1. /\ records[p] = <<>> /\ pc[p] = "out" /\ ~loaded[p]
        /\ \A k \in Key : projection[p][k] = NoOutput
    BY <1>1
  <2>2. \A k \in Key : Vault!Rebuilt(<<>>, k, NoOutput) = NoOutput
    BY DEF Vault!Rebuilt
  <2>3. QED
    BY <2>1, <2>2 DEF Locks, Dated, Copies, InDoubt, Whole, Within, Vault!Stale
<1>5. QED
  BY <1>2, <1>3, <1>4 DEF VaultInv

\* In the critical section a process is alone.
LEMMA Alone ==
  ASSUME VaultInv, NEW p \in Proc, pc[p] # "out"
  PROVE  lock = p /\ ~Vault!Stale(p) /\ \A q \in Proc : q # p => pc[q] = "out"
  BY DEF VaultInv, Locks

LEMMA VaultTypes ==
  ASSUME VaultInv, NEW p \in Proc
  PROVE  /\ records[p] \in Seq(Vault!Record) /\ projection[p] \in [Key -> Output \cup {NoOutput}]
         /\ attempts[p] \in [Key -> Nat] /\ clock[p] \in Nat /\ loaded[p] \in BOOLEAN
         /\ own_gen[p] \in Nat \cup {-1} /\ gen \in Nat /\ acked \in Seq(Vault!Record)
         /\ notes \subseteq Vault!Record /\ IsFiniteSet(notes)
  BY DEF VaultInv, Vault!TypeOK, Kept

\* What a process's release of the lock does to the rest.
Releases(p) ==
  /\ lock' = Nobody
  /\ pc' = [pc EXCEPT ![p] = "out"]
  /\ writing' = [writing EXCEPT ![p] = <<>>]

\* After a release all processes are out.
LEMMA ReleaseFacts ==
  ASSUME VaultInv, NEW p \in Proc, pc[p] # "out", Releases(p)
  PROVE  /\ \A q \in Proc : pc'[q] = "out"
         /\ lock' \in Proc \cup {Nobody}
         /\ pc' \in [Proc -> {"out", "in", "written", "bumped"}]
         /\ writing' \in [Proc -> Vault!Record \cup {Vault!NoRecord}]
         /\ \A r : ~InHand(r)'
         /\ \A q \in Proc : Locks(q)' /\ InDoubt(q)'
<1>1. \A q \in Proc : pc'[q] = "out"
  BY Alone DEF Releases, VaultInv, Vault!TypeOK
<1>2. /\ lock' \in Proc \cup {Nobody}
      /\ pc' \in [Proc -> {"out", "in", "written", "bumped"}]
      /\ writing' \in [Proc -> Vault!Record \cup {Vault!NoRecord}]
  BY DEF Releases, VaultInv, Vault!TypeOK, Vault!NoRecord
<1>3. \A r : ~InHand(r)'
  BY <1>1 DEF InHand
<1>4. \A q \in Proc : Locks(q)' /\ InDoubt(q)'
  BY <1>1 DEF Locks, InDoubt
<1>5. QED
  BY <1>1, <1>2, <1>3, <1>4

LEMMA LeaveKeeps ==
  ASSUME VaultInv, NEW p \in Proc, Vault!Leave(p)
  PROVE  VaultInv'
<1>1. /\ pc[p] = "in" /\ Releases(p)
      /\ UNCHANGED <<notes, gen, records, projection, attempts, clock, loaded, own_gen,
                     acked, torn, crashes>>
  BY DEF Vault!Leave, Vault!Out, Releases, Vault!disk, Vault!cache, Vault!history, Vault!NoRecord
<1>2. Vault!TypeOK'
  BY <1>1, ReleaseFacts DEF VaultInv, Vault!TypeOK
<1>3. Kept'
  BY <1>1 DEF VaultInv, Kept
<1>4. ASSUME NEW q \in Proc
      PROVE  Dated(q)' /\ Copies(q)'
  BY <1>1 DEF VaultInv, Dated, Copies, Vault!Stale
<1>5. ASSUME NEW q \in Proc
      PROVE  Whole(q)'
  <2>1. \A r : ~InHand(r)
    BY <1>1, Alone DEF InHand
  <2>2. QED
    BY <1>1, <2>1 DEF VaultInv, Whole, Vault!Stale
<1>6. QED
  BY <1>1, <1>2, <1>3, <1>4, <1>5, ReleaseFacts DEF VaultInv

LEMMA WriteFailsKeeps ==
  ASSUME VaultInv, NEW p \in Proc, Vault!WriteFails(p)
  PROVE  VaultInv'
<1>1. /\ pc[p] = "written" /\ Releases(p) /\ torn' = TRUE
      /\ UNCHANGED <<notes, gen, records, projection, attempts, clock, loaded, own_gen,
                     acked, crashes>>
  BY DEF Vault!WriteFails, Vault!Out, Releases, Vault!disk, Vault!cache, Vault!NoRecord
<1>2. Vault!TypeOK'
  BY <1>1, ReleaseFacts DEF VaultInv, Vault!TypeOK
<1>3. Kept'
  BY <1>1 DEF VaultInv, Kept
<1>4. ASSUME NEW q \in Proc
      PROVE  Dated(q)' /\ Copies(q)' /\ Whole(q)'
  BY <1>1 DEF VaultInv, Dated, Copies, Whole, Vault!Stale
<1>5. QED
  BY <1>1, <1>2, <1>3, <1>4, ReleaseFacts DEF VaultInv

LEMMA PutRaisesKeeps ==
  ASSUME VaultInv, NEW p \in Proc, NEW k \in Key, Vault!PutRaises(p, k)
  PROVE  VaultInv'
<1>1. /\ pc[p] = "in" /\ Releases(p)
      /\ clock' = [clock EXCEPT ![p] = @ + 1]
      /\ attempts' = [attempts EXCEPT ![p][k] = @ + 1]
      /\ UNCHANGED <<notes, gen, records, projection, loaded, own_gen, acked, torn, crashes>>
  BY DEF Vault!PutRaises, Vault!CountAttempt, Vault!Out, Releases, Vault!disk, Vault!history,
         Vault!NoRecord
<1>2. /\ attempts' \in [Proc -> [Key -> Nat]] /\ clock' \in [Proc -> Nat]
      /\ \A q \in Proc, j \in Key : attempts[q][j] \in Nat /\ attempts'[q][j] \in Nat
                                    /\ attempts[q][j] <= attempts'[q][j]
  BY <1>1 DEF VaultInv, Vault!TypeOK
<1>3. Vault!TypeOK'
  BY <1>1, <1>2, ReleaseFacts DEF VaultInv, Vault!TypeOK
<1>4. Kept'
  BY <1>1 DEF VaultInv, Kept
<1>5. ASSUME NEW q \in Proc
      PROVE  Dated(q)' /\ Copies(q)'
  <2>1. \A i \in DOMAIN records[q] : records[q][i].node \in Key /\ records[q][i].attempt \in Nat
    BY VaultTypes, CopyTypes
  <2>2. Within(records[q], attempts[q])
    BY DEF VaultInv, Copies
  <2>3. Within(records[q], attempts'[q])
    BY <1>2, <2>1, <2>2 DEF Within
  <2>4. Dated(q) /\ Copies(q)
    BY DEF VaultInv
  <2>5. Dated(q)'
    BY <1>1, <2>4 DEF Dated
  <2>6. Copies(q)'
    BY <1>1, <2>3, <2>4 DEF Copies, Vault!Stale
  <2>7. QED
    BY <2>5, <2>6
<1>6. ASSUME NEW q \in Proc
      PROVE  Whole(q)'
  <2>1. \A r : ~InHand(r)
    BY <1>1, Alone DEF InHand
  <2>2. QED
    BY <1>1, <2>1 DEF VaultInv, Whole, Vault!Stale
<1>7. QED
  BY <1>1, <1>3, <1>4, <1>5, <1>6, ReleaseFacts DEF VaultInv

LEMMA EnterKeeps ==
  ASSUME VaultInv, Nobody \notin Proc, NEW p \in Proc, Vault!Enter(p)
  PROVE  VaultInv'
<1>1. /\ pc[p] = "out" /\ lock = Nobody /\ lock' = p
      /\ pc' = [pc EXCEPT ![p] = "in"]
      /\ UNCHANGED <<notes, gen, writing, acked, torn, crashes>>
  BY DEF Vault!Enter, Vault!disk, Vault!history
<1>2. \A q \in Proc : pc[q] = "out" /\ pc'[q] = IF q = p THEN "in" ELSE "out"
  <2>1. \A q \in Proc : pc[q] = "out"
    BY <1>1, Alone
  <2>2. QED
    BY <1>1, <2>1 DEF VaultInv, Vault!TypeOK
<1>3. /\ lock' \in Proc \cup {Nobody}
      /\ pc' \in [Proc -> {"out", "in", "written", "bumped"}]
  BY <1>1 DEF VaultInv, Vault!TypeOK
<1>4. \A q \in Proc : InDoubt(q)'
  BY <1>2 DEF InDoubt
<1>5. \A r : ~InHand(r)
  BY <1>2 DEF InHand
<1>6. Kept'
  BY <1>1 DEF VaultInv, Kept
<1>7. CASE ~Vault!Stale(p)
  <2>1. UNCHANGED <<records, projection, attempts, clock, loaded, own_gen>>
    BY <1>7 DEF Vault!Enter, Vault!cache
  <2>2. Vault!TypeOK'
    BY <1>1, <1>3, <2>1 DEF VaultInv, Vault!TypeOK
  <2>3. ASSUME NEW q \in Proc
        PROVE  Dated(q)' /\ Copies(q)' /\ Whole(q)'
    BY <1>1, <1>5, <2>1 DEF VaultInv, Dated, Copies, Whole, Vault!Stale
  <2>4. ASSUME NEW q \in Proc
        PROVE  Locks(q)'
    BY <1>1, <1>2, <1>7, <2>1 DEF Locks, Vault!Stale
  <2>5. QED
    BY <1>4, <1>6, <2>2, <2>3, <2>4 DEF VaultInv
<1>8. CASE Vault!Stale(p)
  <2>1. PICK lg : lg = Vault!Loaded
    OBVIOUS
  <2>2. /\ records' = [records EXCEPT ![p] = lg]
        /\ projection' = [projection EXCEPT
                            ![p] = [k \in Key |-> Vault!Rebuilt(lg, k, NoOutput)]]
        /\ attempts' = [attempts EXCEPT ![p] = [k \in Key |-> Vault!TopAttempt(lg, k)]]
        /\ clock' = [clock EXCEPT ![p] = Vault!LastClock]
        /\ own_gen' = [own_gen EXCEPT ![p] = gen]
        /\ loaded' = [loaded EXCEPT ![p] = TRUE]
    BY <1>8, <2>1 DEF Vault!Enter, Vault!Load
  <2>3. /\ lg \in Seq(Vault!Record) /\ \A i \in DOMAIN lg : lg[i] \in notes
        /\ \A r \in notes : Has(lg, r)
    <3>1. Lists(lg, notes)
      BY <2>1, LoadedLists DEF VaultInv, Vault!TypeOK, Kept
    <3>2. lg \in Seq(notes) /\ notes \subseteq Vault!Record
      BY <3>1 DEF Lists, VaultInv, Vault!TypeOK
    <3>3. \A i \in DOMAIN lg : lg[i] \in notes
      BY <3>2
    <3>4. lg \in Seq(Vault!Record)
      BY <3>2
    <3>5. QED
      BY <3>1, <3>3, <3>4 DEF Lists, Has
  <2>4. /\ \A k \in Key : /\ Vault!TopAttempt(lg, k) \in Nat
                          /\ Vault!Rebuilt(lg, k, NoOutput) \in Output \cup {NoOutput}
        /\ Within(lg, [k \in Key |-> Vault!TopAttempt(lg, k)])
    BY <2>3, CopyCounters
  <2>5. Vault!LastClock \in Nat
    BY LastClockBounds DEF VaultInv, Vault!TypeOK, Kept
  <2>6. Vault!TypeOK'
    <3>1. records' \in [Proc -> Seq(Vault!Record)]
      BY <2>2, <2>3 DEF VaultInv, Vault!TypeOK
    <3>2. projection' \in [Proc -> [Key -> Output \cup {NoOutput}]]
      BY <2>2, <2>4 DEF VaultInv, Vault!TypeOK
    <3>3. attempts' \in [Proc -> [Key -> Nat]] /\ clock' \in [Proc -> Nat]
      BY <2>2, <2>4, <2>5 DEF VaultInv, Vault!TypeOK
    <3>4. own_gen' \in [Proc -> Nat \cup {-1}] /\ loaded' \in [Proc -> BOOLEAN]
      BY <2>2 DEF VaultInv, Vault!TypeOK
    <3>5. QED
      BY <1>1, <1>3, <3>1, <3>2, <3>3, <3>4 DEF VaultInv, Vault!TypeOK
  <2>7. /\ records'[p] = lg /\ own_gen'[p] = gen /\ loaded'[p] /\ gen' = gen
        /\ projection'[p] = [k \in Key |-> Vault!Rebuilt(lg, k, NoOutput)]
        /\ attempts'[p] = [k \in Key |-> Vault!TopAttempt(lg, k)]
    BY <1>1, <2>2 DEF VaultInv, Vault!TypeOK
  <2>8. ASSUME NEW q \in Proc, q # p
        PROVE  /\ records'[q] = records[q] /\ own_gen'[q] = own_gen[q] /\ loaded'[q] = loaded[q]
               /\ projection'[q] = projection[q] /\ attempts'[q] = attempts[q]
    BY <2>2, <2>8 DEF VaultInv, Vault!TypeOK
  <2>9. Locks(p)' /\ Dated(p)' /\ Copies(p)' /\ Whole(p)'
    <3>1. gen \in Nat /\ \A i \in DOMAIN acked : acked[i] \in notes
      BY DEF VaultInv, Vault!TypeOK, Kept
    <3>2. Locks(p)'
      BY <1>1, <2>7 DEF Locks, Vault!Stale
    <3>3. Dated(p)'
      BY <2>7, <3>1 DEF Dated
    <3>4. Copies(p)'
      BY <1>1, <2>3, <2>4, <2>7, <3>1 DEF Copies
    <3>5. Whole(p)'
      BY <1>1, <2>3, <2>7 DEF Whole
    <3>6. QED
      BY <3>2, <3>3, <3>4, <3>5
  <2>10. ASSUME NEW q \in Proc, q # p
         PROVE  Locks(q)' /\ Dated(q)' /\ Copies(q)' /\ Whole(q)'
    <3>1. Dated(q) /\ Copies(q) /\ Whole(q)
      BY DEF VaultInv
    <3>2. QED
      BY <1>1, <1>2, <1>5, <2>8, <2>10, <3>1 DEF Locks, Dated, Copies, Whole, Vault!Stale
  <2>11. QED
    BY <1>4, <1>6, <2>6, <2>9, <2>10 DEF VaultInv
<1>9. QED
  BY <1>7, <1>8

LEMMA WriteNoteKeeps ==
  ASSUME VaultInv, NEW p \in Proc, NEW k \in Key, NEW o \in Output,
         NEW s \in {"validated", "failed"}, NEW a \in {"node", "attempt"},
         Vault!WriteNote(p, k, o, s, a)
  PROVE  VaultInv'
<1>1. PICK r : r = Vault!NewRecord(p, k, o, s, a)
  OBVIOUS
<1>2. /\ pc[p] = "in"
      /\ clock' = [clock EXCEPT ![p] = @ + 1]
      /\ attempts' = [attempts EXCEPT ![p][k] = @ + 1]
      /\ notes' = {t \in notes : Vault!NoteName(t) # Vault!NoteName(r)} \cup {r}
      /\ writing' = [writing EXCEPT ![p] = r]
      /\ pc' = [pc EXCEPT ![p] = "written"]
      /\ UNCHANGED <<gen, lock, records, projection, loaded, own_gen, acked, torn, crashes>>
  BY <1>1 DEF Vault!WriteNote, Vault!CountAttempt, Vault!Replace, Vault!history
<1>3. /\ attempts[p][k] \in Nat /\ clock[p] \in Nat
      /\ r \in Vault!Record /\ r.node = k /\ r.attempt = attempts[p][k] + 1
  <2>1. attempts[p][k] \in Nat /\ clock[p] \in Nat
    BY VaultTypes
  <2>2. attempts[p][k] + 1 \in Nat \ {0} /\ clock[p] + 1 \in Nat \ {0}
    BY <2>1
  <2>3. QED
    BY <1>1, <2>1, <2>2 DEF Vault!NewRecord, Vault!Record
<1>4. /\ attempts' \in [Proc -> [Key -> Nat]] /\ clock' \in [Proc -> Nat]
      /\ \A q \in Proc, j \in Key : attempts[q][j] \in Nat /\ attempts'[q][j] \in Nat
                                    /\ attempts[q][j] <= attempts'[q][j]
      /\ attempts'[p][k] = r.attempt
  BY <1>2, <1>3 DEF VaultInv, Vault!TypeOK
<1>5. /\ lock = p /\ ~Vault!Stale(p)
      /\ \A q \in Proc : pc'[q] = IF q = p THEN "written" ELSE "out"
  <2>1. lock = p /\ ~Vault!Stale(p) /\ \A q \in Proc : q # p => pc[q] = "out"
    BY <1>2, Alone
  <2>2. QED
    BY <1>2, <2>1 DEF VaultInv, Vault!TypeOK
<1>6. writing'[p] = r
  BY <1>2 DEF VaultInv, Vault!TypeOK
<1>7. Above(records[p], r)
  <2>1. SUFFICES ASSUME NEW i \in DOMAIN records[p], records[p][i].node = k
                 PROVE  records[p][i].attempt < r.attempt
    BY <1>3 DEF Above
  <2>2. records[p][i].attempt <= attempts[p][k]
    BY <2>1 DEF VaultInv, Copies, Within
  <2>3. records[p][i].attempt \in Nat
    BY VaultTypes, CopyTypes
  <2>4. QED
    BY <1>3, <2>2, <2>3
<1>8. \A i \in DOMAIN acked : Has(records[p], acked[i])
  BY <1>5 DEF VaultInv, Copies
\* The note the put replaces, if any, is not one its copy holds.
<1>9. ASSUME NEW t, Has(records[p], t)
      PROVE  Vault!NoteName(t) # Vault!NoteName(r)
  <2>1. PICK i \in DOMAIN records[p] : records[p][i] = t
    BY <1>9 DEF Has
  <2>2. t.node = r.node => t.attempt < r.attempt
    BY <1>7, <2>1 DEF Above
  <2>3. t.attempt \in Nat /\ r.attempt \in Nat
    BY <1>3, <2>1, VaultTypes, CopyTypes
  <2>4. t.node # r.node \/ t.attempt # r.attempt
    BY <2>2, <2>3
  <2>5. QED
    BY <2>4 DEF Vault!NoteName
<1>10. \A t \in notes : Has(records[p], t) => t \in notes'
  BY <1>2, <1>9
<1>11. Above(acked, r)
  <2>1. SUFFICES ASSUME NEW i \in DOMAIN acked, acked[i].node = r.node
                 PROVE  acked[i].attempt < r.attempt
    BY DEF Above
  <2>2. PICK j \in DOMAIN records[p] : records[p][j] = acked[i]
    BY <1>8 DEF Has
  <2>3. QED
    BY <1>7, <2>1, <2>2 DEF Above
<1>12. Vault!TypeOK'
  <2>1. notes' \subseteq Vault!Record
    BY <1>2, <1>3 DEF VaultInv, Vault!TypeOK
  <2>2. /\ writing' \in [Proc -> Vault!Record \cup {Vault!NoRecord}]
        /\ pc' \in [Proc -> {"out", "in", "written", "bumped"}]
    BY <1>2, <1>3 DEF VaultInv, Vault!TypeOK
  <2>3. QED
    BY <1>2, <1>4, <2>1, <2>2 DEF VaultInv, Vault!TypeOK
<1>13. Kept'
  <2>1. IsFiniteSet({t \in notes : Vault!NoteName(t) # Vault!NoteName(r)})
    BY FS_Subset DEF VaultInv, Kept
  <2>2. IsFiniteSet(notes')
    BY <1>2, <2>1, FS_AddElement
  <2>3. \A i \in DOMAIN acked : acked[i] \in notes'
    BY <1>8, <1>10 DEF VaultInv, Kept
  <2>4. QED
    BY <1>2, <2>2, <2>3 DEF Kept
<1>14. ASSUME NEW q \in Proc
       PROVE  Locks(q)' /\ Dated(q)'
  BY <1>2, <1>5 DEF VaultInv, Locks, Dated, Vault!Stale
<1>15. ASSUME NEW q \in Proc
       PROVE  Copies(q)'
  <2>1. \A i \in DOMAIN records[q] : records[q][i].node \in Key /\ records[q][i].attempt \in Nat
    BY VaultTypes, CopyTypes
  <2>2. Copies(q)
    BY DEF VaultInv
  <2>3. Within(records[q], attempts'[q])
    BY <1>4, <2>1, <2>2 DEF Copies, Within
  <2>4. QED
    BY <1>2, <2>2, <2>3 DEF Copies, Vault!Stale
<1>16. ASSUME NEW q \in Proc
       PROVE  InDoubt(q)'
  <2>1. CASE q # p
    BY <1>5, <2>1 DEF InDoubt
  <2>2. CASE q = p
    <3>1. r \in notes'
      BY <1>2
    <3>2. r.attempt <= attempts'[p][r.node]
      BY <1>3, <1>4
    <3>3. QED
      BY <1>2, <1>3, <1>5, <1>6, <1>7, <1>11, <2>2, <3>1, <3>2 DEF InDoubt
  <2>3. QED
    BY <2>1, <2>2
<1>17. ASSUME NEW q \in Proc
       PROVE  Whole(q)'
  <2>1. SUFFICES ASSUME ~torn, ~Vault!Stale(q)
                 PROVE  /\ \A i \in DOMAIN records[q] : records[q][i] \in notes'
                        /\ \A t \in notes' : Has(records[q], t) \/ InHand(t)'
    BY <1>2 DEF Whole, Vault!Stale
  <2>2. \A t : ~InHand(t)
    BY <1>2, Alone DEF InHand
  <2>3. \A t \in notes : Has(records[p], t) /\ Has(records[q], t)
    BY <1>5, <2>1, <2>2 DEF VaultInv, Whole
  <2>4. notes' = notes \cup {r}
    BY <1>2, <1>10, <2>3
  <2>5. InHand(r)'
    BY <1>5, <1>6 DEF InHand
  <2>6. \A i \in DOMAIN records[q] : records[q][i] \in notes
    BY <2>1 DEF VaultInv, Whole
  <2>7. QED
    BY <2>3, <2>4, <2>5, <2>6
<1>18. QED
  BY <1>12, <1>13, <1>14, <1>15, <1>16, <1>17 DEF VaultInv

LEMMA BumpKeeps ==
  ASSUME VaultInv, NEW p \in Proc, Vault!Bump(p)
  PROVE  VaultInv'
<1>1. PICK r : r = writing[p]
  OBVIOUS
<1>2. PICK lg : lg = records[p]
  OBVIOUS
<1>3. /\ pc[p] = "written"
      /\ records' = [records EXCEPT ![p] = Append(lg, r)]
      /\ projection' = IF r.status = "validated"
                         THEN [projection EXCEPT ![p][r.node] = r.output]
                         ELSE projection
      /\ gen' = gen + 1
      /\ own_gen' = [own_gen EXCEPT ![p] = gen + 1]
      /\ pc' = [pc EXCEPT ![p] = "bumped"]
      /\ UNCHANGED <<notes, lock, attempts, clock, loaded, writing, acked, torn, crashes>>
  BY <1>1, <1>2 DEF Vault!Bump, Vault!Remember, Vault!history, VaultInv, Vault!TypeOK
<1>4. /\ lock = p /\ ~Vault!Stale(p) /\ loaded[p]
      /\ \A q \in Proc : q # p => pc[q] = "out" /\ pc'[q] = "out"
      /\ pc'[p] = "bumped"
  <2>1. lock = p /\ ~Vault!Stale(p) /\ \A q \in Proc : q # p => pc[q] = "out"
    BY <1>3, Alone
  <2>2. loaded[p]
    BY <2>1 DEF Vault!Stale
  <2>3. QED
    BY <1>3, <2>1, <2>2 DEF VaultInv, Vault!TypeOK
<1>5. /\ r \in Vault!Record /\ r \in notes /\ Above(acked, r) /\ Above(lg, r)
      /\ r.attempt <= attempts[p][r.node]
  <2>1. InDoubt(p) /\ pc[p] \in {"written", "bumped"}
    BY <1>3 DEF VaultInv
  <2>2. QED
    BY <1>1, <1>2, <1>3, <2>1 DEF InDoubt
<1>6. /\ r.node \in Key /\ r.output \in Output /\ r.attempt \in Nat
      /\ lg \in Seq(Vault!Record) /\ gen \in Nat
      /\ \A i \in DOMAIN lg : lg[i] \in Vault!Record
  BY <1>2, <1>5, NoteTypes, VaultTypes, CopyTypes
<1>7. PICK more : more = Append(lg, r)
  OBVIOUS
<1>8. /\ more \in Seq(Vault!Record)
      /\ DOMAIN more = DOMAIN lg \cup {Len(lg) + 1}
      /\ \A i \in DOMAIN lg : more[i] = lg[i]
      /\ more[Len(lg) + 1] = r
  BY <1>5, <1>6, <1>7, AppendFacts
<1>9. \A t : Has(more, t) <=> Has(lg, t) \/ t = r
  BY <1>8 DEF Has
<1>10. /\ records'[p] = more /\ own_gen'[p] = gen'
       /\ \A k \in Key : projection'[p][k] = IF r.status = "validated" /\ k = r.node
                                             THEN r.output ELSE projection[p][k]
       /\ \A q \in Proc : q # p => /\ records'[q] = records[q] /\ own_gen'[q] = own_gen[q]
                                   /\ projection'[q] = projection[q]
  <2>1. records'[p] = more /\ own_gen'[p] = gen'
    BY <1>3, <1>7 DEF VaultInv, Vault!TypeOK
  <2>2. \A q \in Proc : q # p => records'[q] = records[q] /\ own_gen'[q] = own_gen[q]
    BY <1>3 DEF VaultInv, Vault!TypeOK
  <2>3. CASE r.status = "validated"
    BY <1>3, <1>6, <2>1, <2>2, <2>3 DEF VaultInv, Vault!TypeOK
  <2>4. CASE r.status # "validated"
    BY <1>3, <1>6, <2>1, <2>2, <2>4 DEF VaultInv, Vault!TypeOK
  <2>5. QED
    BY <2>3, <2>4
<1>11. Vault!TypeOK'
  <2>1. records' \in [Proc -> Seq(Vault!Record)]
    BY <1>3, <1>7, <1>8 DEF VaultInv, Vault!TypeOK
  <2>2. projection' \in [Proc -> [Key -> Output \cup {NoOutput}]]
    <3>1. CASE r.status = "validated"
      BY <1>3, <1>6, <3>1 DEF VaultInv, Vault!TypeOK
    <3>2. CASE r.status # "validated"
      BY <1>3, <3>2 DEF VaultInv, Vault!TypeOK
    <3>3. QED
      BY <3>1, <3>2
  <2>3. /\ gen' \in Nat /\ own_gen' \in [Proc -> Nat \cup {-1}]
        /\ pc' \in [Proc -> {"out", "in", "written", "bumped"}]
    BY <1>3, <1>6 DEF VaultInv, Vault!TypeOK
  <2>4. QED
    BY <1>3, <2>1, <2>2, <2>3 DEF VaultInv, Vault!TypeOK
<1>12. Kept'
  BY <1>3 DEF VaultInv, Kept
<1>13. ~Vault!Stale(p)'
  BY <1>3, <1>4, <1>10 DEF Vault!Stale
<1>14. ASSUME NEW q \in Proc, q # p
       PROVE  Vault!Stale(q)'
  <2>1. loaded[q] => own_gen[q] <= gen /\ own_gen[q] \in Nat \cup {-1}
    BY VaultTypes DEF VaultInv, Dated
  <2>2. CASE loaded[q]
    <3>1. own_gen[q] # gen + 1
      BY <1>6, <2>1, <2>2
    <3>2. QED
      BY <1>3, <1>10, <1>14, <3>1 DEF Vault!Stale
  <2>3. CASE ~loaded[q]
    BY <1>3, <2>3 DEF Vault!Stale
  <2>4. QED
    BY <2>2, <2>3
<1>15. ASSUME NEW q \in Proc
       PROVE  Locks(q)'
  BY <1>3, <1>4, <1>13 DEF Locks
<1>16. ASSUME NEW q \in Proc
       PROVE  Dated(q)'
  <2>1. CASE q = p
    BY <1>3, <1>6, <1>10, <2>1 DEF Dated
  <2>2. CASE q # p
    <3>1. own_gen[q] \in Nat \cup {-1} /\ (loaded[q] => own_gen[q] <= gen)
      BY VaultTypes DEF VaultInv, Dated
    <3>2. loaded[q] => own_gen[q] <= gen + 1
      BY <1>6, <3>1
    <3>3. QED
      BY <1>3, <1>10, <2>2, <3>2 DEF Dated
  <2>3. QED
    BY <2>1, <2>2
<1>17. ASSUME NEW q \in Proc
       PROVE  Copies(q)'
  <2>1. Copies(q) /\ Copies(p)
    BY DEF VaultInv
  <2>2. CASE q # p
    <3>1. Within(records'[q], attempts'[q])
      BY <1>3, <1>10, <2>1, <2>2 DEF Copies
    <3>2. \A k \in Key : projection'[q][k] = Vault!Rebuilt(records'[q], k, NoOutput)
      BY <1>10, <2>1, <2>2 DEF Copies
    <3>3. QED
      BY <1>14, <2>2, <3>1, <3>2 DEF Copies
  <2>3. CASE q = p
    <3>1. Within(more, attempts[p])
      BY <1>2, <1>5, <1>8, <2>1 DEF Copies, Within
    <3>2. ASSUME NEW k \in Key
          PROVE  projection'[p][k] = Vault!Rebuilt(more, k, NoOutput)
      <4>1. Vault!Rebuilt(more, k, NoOutput)
              = IF r.status = "validated" /\ k = r.node THEN r.output
                ELSE Vault!Rebuilt(lg, k, NoOutput)
        BY <1>5, <1>6, <1>7, RebuiltAppends
      <4>2. projection[p][k] = Vault!Rebuilt(lg, k, NoOutput)
        BY <1>2, <2>1 DEF Copies
      <4>3. QED
        BY <1>10, <4>1, <4>2
    <3>3. \A i \in DOMAIN acked : Has(more, acked[i])
      BY <1>2, <1>4, <1>9, <2>1 DEF Copies
    <3>4. QED
      BY <1>3, <1>10, <2>3, <3>1, <3>2, <3>3 DEF Copies
  <2>4. QED
    BY <2>2, <2>3
<1>18. ASSUME NEW q \in Proc
       PROVE  InDoubt(q)'
  <2>1. CASE q # p
    BY <1>4, <2>1 DEF InDoubt
  <2>2. CASE q = p
    <3>1. Has(records'[p], r)
      BY <1>9, <1>10
    <3>2. QED
      BY <1>1, <1>3, <1>4, <1>5, <1>14, <2>2, <3>1 DEF InDoubt
  <2>3. QED
    BY <2>1, <2>2
<1>19. ASSUME NEW q \in Proc
       PROVE  Whole(q)'
  <2>1. CASE q # p
    BY <1>14, <2>1 DEF Whole
  <2>2. CASE q = p
    <3>1. ASSUME ~torn
          PROVE  /\ \A i \in DOMAIN more : more[i] \in notes
                 /\ \A t \in notes : Has(more, t)
      <4>1. /\ \A i \in DOMAIN lg : lg[i] \in notes
            /\ \A t \in notes : Has(lg, t) \/ InHand(t)
        BY <1>2, <1>4, <3>1 DEF VaultInv, Whole
      <4>2. \A t : InHand(t) => t = r
        BY <1>1, <1>4 DEF InHand
      <4>3. QED
        BY <1>5, <1>8, <1>9, <4>1, <4>2
    <3>2. records'[q] = more /\ notes' = notes /\ torn' = torn
      BY <1>3, <1>10, <2>2
    <3>3. /\ \A i \in DOMAIN records'[q] : ~torn' => records'[q][i] \in notes'
          /\ \A t \in notes' : ~torn' => Has(records'[q], t)
      BY <3>1, <3>2
    <3>4. QED
      BY <3>3 DEF Whole
  <2>3. QED
    BY <2>1, <2>2
<1>20. QED
  BY <1>11, <1>12, <1>15, <1>16, <1>17, <1>18, <1>19 DEF VaultInv

LEMMA ReturnKeeps ==
  ASSUME VaultInv, NEW p \in Proc, Vault!Return(p)
  PROVE  VaultInv'
<1>1. PICK r : r = writing[p]
  OBVIOUS
<1>2. /\ pc[p] = "bumped" /\ Releases(p) /\ acked' = Append(acked, r)
      /\ UNCHANGED <<notes, gen, records, projection, attempts, clock, loaded, own_gen,
                     torn, crashes>>
  BY <1>1 DEF Vault!Return, Vault!Out, Releases, Vault!disk, Vault!cache, Vault!NoRecord
<1>3. /\ r \in Vault!Record /\ r \in notes /\ Has(records[p], r)
      /\ \A q \in Proc \ {p} : Vault!Stale(q)
  <2>1. InDoubt(p) /\ pc[p] \in {"written", "bumped"}
    BY <1>2 DEF VaultInv
  <2>2. QED
    BY <1>1, <1>2, <2>1 DEF InDoubt
<1>4. /\ acked' \in Seq(Vault!Record)
      /\ DOMAIN acked' = DOMAIN acked \cup {Len(acked) + 1}
      /\ \A i \in DOMAIN acked : acked'[i] = acked[i]
      /\ acked'[Len(acked) + 1] = r
  <2>1. acked \in Seq(Vault!Record)
    BY DEF VaultInv, Vault!TypeOK
  <2>2. QED
    BY <1>2, <1>3, <2>1, AppendFacts
<1>5. Vault!TypeOK'
  BY <1>2, <1>4, ReleaseFacts DEF VaultInv, Vault!TypeOK
<1>6. Kept'
  BY <1>2, <1>3, <1>4 DEF VaultInv, Kept
<1>7. ASSUME NEW q \in Proc
      PROVE  Dated(q)' /\ Copies(q)'
  <2>1. Dated(q) /\ Copies(q)
    BY DEF VaultInv
  <2>2. Dated(q)'
    BY <1>2, <2>1 DEF Dated
  <2>3. ~Vault!Stale(q) => \A i \in DOMAIN acked' : Has(records[q], acked'[i])
    BY <1>3, <1>4, <2>1 DEF Copies
  <2>4. Copies(q)'
    BY <1>2, <2>1, <2>3 DEF Copies, Vault!Stale
  <2>5. QED
    BY <2>2, <2>4
<1>8. ASSUME NEW q \in Proc
      PROVE  Whole(q)'
  <2>1. \A t : ~InHand(t)
    BY <1>2, Alone DEF InHand
  <2>2. QED
    BY <1>2, <2>1 DEF VaultInv, Whole, Vault!Stale
<1>9. QED
  BY <1>2, <1>5, <1>6, <1>7, <1>8, ReleaseFacts DEF VaultInv

LEMMA VaultCrashKeeps ==
  ASSUME VaultInv, MaxCrashes \in Nat, NEW p \in Proc, Vault!Crash(p)
  PROVE  VaultInv'
<1>1. /\ crashes < MaxCrashes /\ crashes' = crashes + 1
      /\ torn' = (torn \/ pc[p] = "written")
      /\ lock' = IF lock = p THEN Nobody ELSE lock
      /\ pc' = [pc EXCEPT ![p] = "out"]
      /\ writing' = [writing EXCEPT ![p] = <<>>]
      /\ records' = [records EXCEPT ![p] = <<>>]
      /\ projection' = [projection EXCEPT ![p] = [k \in Key |-> NoOutput]]
      /\ attempts' = [attempts EXCEPT ![p] = [k \in Key |-> 0]]
      /\ clock' = [clock EXCEPT ![p] = 0]
      /\ loaded' = [loaded EXCEPT ![p] = FALSE]
      /\ own_gen' = [own_gen EXCEPT ![p] = -1]
      /\ UNCHANGED <<notes, gen, acked>>
  BY DEF Vault!Crash, Vault!disk, Vault!NoRecord
<1>2. Vault!TypeOK'
  <2>1. <<>> \in Seq(Vault!Record)
    OBVIOUS
  <2>2. records' \in [Proc -> Seq(Vault!Record)]
    BY <1>1, <2>1 DEF VaultInv, Vault!TypeOK
  <2>3. /\ projection' \in [Proc -> [Key -> Output \cup {NoOutput}]]
        /\ attempts' \in [Proc -> [Key -> Nat]]
    BY <1>1 DEF VaultInv, Vault!TypeOK
  <2>4. /\ clock' \in [Proc -> Nat] /\ loaded' \in [Proc -> BOOLEAN]
        /\ own_gen' \in [Proc -> Nat \cup {-1}]
    BY <1>1 DEF VaultInv, Vault!TypeOK
  <2>5. /\ pc' \in [Proc -> {"out", "in", "written", "bumped"}]
        /\ writing' \in [Proc -> Vault!Record \cup {Vault!NoRecord}]
        /\ lock' \in Proc \cup {Nobody}
    BY <1>1 DEF VaultInv, Vault!TypeOK, Vault!NoRecord
  <2>6. crashes' \in 0..MaxCrashes
    BY <1>1 DEF VaultInv, Vault!TypeOK
  <2>7. torn' \in BOOLEAN
    BY <1>1, Zenon DEF VaultInv, Vault!TypeOK
  <2>8. QED
    BY <1>1, <2>2, <2>3, <2>4, <2>5, <2>6, <2>7 DEF VaultInv, Vault!TypeOK
<1>3. Kept'
  BY <1>1 DEF VaultInv, Kept
<1>4. /\ records'[p] = <<>> /\ pc'[p] = "out" /\ ~loaded'[p]
      /\ \A k \in Key : projection'[p][k] = NoOutput
  BY <1>1 DEF VaultInv, Vault!TypeOK
<1>5. ASSUME NEW q \in Proc, q # p
      PROVE  /\ records'[q] = records[q] /\ pc'[q] = pc[q] /\ loaded'[q] = loaded[q]
             /\ own_gen'[q] = own_gen[q] /\ projection'[q] = projection[q]
             /\ attempts'[q] = attempts[q] /\ writing'[q] = writing[q]
  BY <1>1, <1>5 DEF VaultInv, Vault!TypeOK
<1>6. Vault!Stale(p)' /\ \A q \in Proc : q # p => (Vault!Stale(q)' <=> Vault!Stale(q))
  BY <1>1, <1>4, <1>5 DEF Vault!Stale
<1>7. Locks(p)' /\ Dated(p)' /\ Copies(p)' /\ InDoubt(p)' /\ Whole(p)'
  <2>1. \A k \in Key : Vault!Rebuilt(<<>>, k, NoOutput) = NoOutput
    BY DEF Vault!Rebuilt
  <2>2. QED
    BY <1>4, <1>6, <2>1 DEF Locks, Dated, Copies, InDoubt, Whole, Within
<1>8. ASSUME NEW q \in Proc, q # p
      PROVE  Locks(q)' /\ Dated(q)' /\ Copies(q)' /\ InDoubt(q)' /\ Whole(q)'
  <2>1. Locks(q) /\ Dated(q) /\ Copies(q) /\ InDoubt(q) /\ Whole(q)
    BY DEF VaultInv
  <2>2. Locks(q)'
    BY <1>1, <1>5, <1>6, <1>8, <2>1 DEF Locks
  <2>3. Dated(q)'
    BY <1>1, <1>5, <1>8, <2>1 DEF Dated
  <2>4. Copies(q)'
    BY <1>1, <1>5, <1>6, <1>8, <2>1 DEF Copies
  <2>5. InDoubt(q)'
    BY <1>1, <1>5, <1>6, <1>8, <2>1 DEF InDoubt
  <2>6. Whole(q)'
    <3>1. ASSUME ~torn', ~Vault!Stale(q)
          PROVE  /\ \A i \in DOMAIN records[q] : records[q][i] \in notes
                 /\ \A r \in notes : Has(records[q], r) \/ InHand(r)'
      <4>1. ~torn /\ pc[p] # "written"
        BY <1>1, <3>1
      <4>2. \A r : InHand(r) => InHand(r)'
        BY <1>5, <4>1 DEF InHand
      <4>3. QED
        BY <2>1, <3>1, <4>1, <4>2 DEF Whole
    <3>2. records'[q] = records[q] /\ notes' = notes
      BY <1>1, <1>5, <1>8
    <3>3. Vault!Stale(q)' <=> Vault!Stale(q)
      BY <1>6, <1>8
    <3>4. QED
      BY <3>1, <3>2, <3>3 DEF Whole
  <2>7. QED
    BY <2>2, <2>3, <2>4, <2>5, <2>6
<1>9. QED
  BY <1>2, <1>3, <1>7, <1>8 DEF VaultInv

LEMMA VaultStepKeeps ==
  ASSUME VaultInv, [Vault!Next]_(Vault!vars), MaxCrashes \in Nat, Nobody \notin Proc,
         FailureAddress \subseteq {"node", "attempt"}
  PROVE  VaultInv'
<1>1. ASSUME NEW p \in Proc, Vault!Step(p)
      PROVE  VaultInv'
  <2>1. CASE Vault!Enter(p)
    BY <2>1, EnterKeeps
  <2>2. CASE Vault!Leave(p)
    BY <2>2, LeaveKeeps
  <2>3. CASE Vault!WriteFails(p)
    BY <2>3, WriteFailsKeeps
  <2>4. CASE Vault!Bump(p)
    BY <2>4, BumpKeeps
  <2>5. CASE Vault!Return(p)
    BY <2>5, ReturnKeeps
  <2>6. CASE Vault!Crash(p)
    BY <2>6, VaultCrashKeeps
  <2>7. ASSUME NEW k \in Key, Vault!PutRaises(p, k)
        PROVE  VaultInv'
    BY <2>7, PutRaisesKeeps
  <2>8. ASSUME NEW k \in Key, NEW o \in Output, NEW s \in {"validated", "failed"},
               NEW a \in {"node", "attempt"}, Vault!WriteNote(p, k, o, s, a)
        PROVE  VaultInv'
    BY <2>8, WriteNoteKeeps
  <2>9. QED
    BY <1>1, <2>1, <2>2, <2>3, <2>4, <2>5, <2>6, <2>7, <2>8 DEF Vault!Step
<1>2. CASE UNCHANGED Vault!vars
  <2>1. UNCHANGED <<notes, gen, lock, records, projection, attempts, clock, loaded, own_gen,
                    pc, writing, acked, torn, crashes>>
    BY <1>2 DEF Vault!vars, Vault!disk, Vault!cache, Vault!history
  <2>2. Vault!TypeOK' /\ Kept'
    BY <2>1 DEF VaultInv, Vault!TypeOK, Kept
  <2>3. ASSUME NEW p \in Proc
        PROVE  Locks(p)' /\ Dated(p)' /\ Copies(p)'
    BY <2>1 DEF VaultInv, Locks, Dated, Copies, Vault!Stale
  <2>4. ASSUME NEW p \in Proc
        PROVE  InDoubt(p)' /\ Whole(p)'
    BY <2>1 DEF VaultInv, InDoubt, Whole, InHand, Vault!Stale
  <2>5. QED
    BY <2>2, <2>3, <2>4 DEF VaultInv
<1>3. QED
  BY <1>1, <1>2 DEF Vault!Next

\* What FileVault assumes of its constants.
VaultConstants ==
  Nobody \notin Proc /\ FailureAddress \subseteq {"node", "attempt"} /\ MaxCrashes \in Nat

LEMMA VaultInvariant == VaultConstants => (Vault!Spec => []VaultInv)
<1> SUFFICES ASSUME VaultConstants PROVE Vault!Spec => []VaultInv
  OBVIOUS
<1>1. Vault!Init => VaultInv
  BY VaultBegins DEF VaultConstants
<1>2. VaultInv /\ [Vault!Next]_(Vault!vars) => VaultInv'
  BY VaultStepKeeps DEF VaultConstants
<1>3. QED
  BY <1>1, <1>2, PTL DEF Vault!Spec

-----------------------------------------------------------------------------
(* What the file vault's invariant gives *)

\* A record whose put returned stays on disk, as it was written, through any
\* number of crashes and cut-short puts of any number of processes that share
\* the directory (FileVaultStateStore.put under _Critical).
THEOREM VaultIsDurable == VaultConstants => (Vault!Spec => []Vault!AckedIsDurable)
<1>1. VaultInv => Vault!AckedIsDurable
  BY DEF VaultInv, Kept, Vault!AckedIsDurable
<1>2. QED
  BY <1>1, VaultInvariant, PTL

\* In the critical section a process reads whatever was acknowledged, whichever
\* process wrote it; and until a put is cut short between its note and the
\* generation, a copy whose generation agrees is the directory, and answers
\* like it (_Critical.__enter__, _load, _bump_gen).
THEOREM VaultCopiesAreCurrent == VaultConstants => (Vault!Spec => []Vault!CopiesAreCurrent)
<1>1. ASSUME NEW lg, NEW r
      PROVE  r \in Vault!Range(lg) <=> Has(lg, r)
  BY DEF Vault!Range, Has
<1>2. ASSUME VaultInv PROVE Vault!ReadsAreFresh
  <2>1. SUFFICES ASSUME NEW p \in Proc, pc[p] = "in", NEW i \in DOMAIN acked
                 PROVE  acked[i] \in Vault!Range(records[p])
    BY DEF Vault!ReadsAreFresh
  <2>2. Has(records[p], acked[i])
    BY <1>2, <2>1, Alone DEF VaultInv, Copies
  <2>3. QED
    BY <1>1, <2>2
<1>3. ASSUME VaultInv, Nobody \notin Proc PROVE Vault!GenerationIsContent
  <2>1. SUFFICES ASSUME ~torn, lock = Nobody, NEW p \in Proc, ~Vault!Stale(p)
                 PROVE  /\ Vault!Range(records[p]) = notes
                        /\ \A k \in Key :
                             projection[p][k] = Vault!Rebuilt(records[p], k, NoOutput)
    BY DEF Vault!GenerationIsContent
  <2>2. \A r : ~InHand(r)
    BY <1>3, <2>1, Alone DEF InHand
  <2>3. /\ \A i \in DOMAIN records[p] : records[p][i] \in notes
        /\ \A r \in notes : Has(records[p], r)
    BY <1>3, <2>1, <2>2 DEF VaultInv, Whole
  <2>4. Vault!Range(records[p]) = notes
    <3>1. Vault!Range(records[p]) \subseteq notes
      BY <2>3 DEF Vault!Range
    <3>2. notes \subseteq Vault!Range(records[p])
      BY <1>1, <2>3
    <3>3. QED
      BY <3>1, <3>2
  <2>5. QED
    BY <1>3, <2>4 DEF VaultInv, Copies
<1>4. ASSUME VaultConstants PROVE VaultInv => Vault!CopiesAreCurrent
  BY <1>2, <1>3, <1>4 DEF Vault!CopiesAreCurrent, VaultInv, VaultConstants
<1>5. SUFFICES ASSUME VaultConstants PROVE Vault!Spec => []Vault!CopiesAreCurrent
  OBVIOUS
<1>6. VaultInv => Vault!CopiesAreCurrent
  BY <1>4, <1>5
<1>7. Vault!Spec => []VaultInv
  BY <1>5, VaultInvariant
<1>8. QED
  BY <1>6, <1>7, PTL

\* The puts that returned form the append-only run log of RunLog: the processes
\* that share a directory never number two attempts of a node alike, nor
\* backwards, whatever crashes and fails among them.
THEOREM VaultImplementsRunLog == VaultConstants => (Vault!Spec => Vault!ImplementsRunLog)
<1>1. SUFFICES ASSUME VaultConstants PROVE Vault!Spec => Vault!ImplementsRunLog
  OBVIOUS
<1>2. Vault!Init => Vault!Promise!Init
  BY DEF Vault!Init, Vault!Promise!Init
<1>3. VaultInv /\ [Vault!Next]_(Vault!vars) => [Vault!Promise!Put]_acked
  <2>1. ASSUME VaultInv, NEW p \in Proc, Vault!Return(p)
        PROVE  Vault!Promise!Put
    <3>1. PICK r : r = writing[p]
      OBVIOUS
    <3>2. acked' = Append(acked, r) /\ pc[p] = "bumped"
      BY <2>1, <3>1 DEF Vault!Return
    <3>3. r \in Vault!Record /\ Above(acked, r)
      BY <2>1, <3>1, <3>2 DEF VaultInv, InDoubt
    <3>4. acked \in Seq(Vault!Record)
      BY <2>1 DEF VaultInv, Vault!TypeOK
    <3>5. /\ Len(acked') = Len(acked) + 1
          /\ \A i \in DOMAIN acked : acked'[i] = acked[i]
          /\ acked'[Len(acked')] = r
      BY <3>2, <3>3, <3>4, AppendFacts
    <3>6. QED
      BY <3>3, <3>5 DEF Vault!Promise!Put, Vault!Promise!Extends, Above
  <2>2. ASSUME VaultInv, NEW p \in Proc, Vault!Step(p)
        PROVE  Vault!Promise!Put \/ UNCHANGED acked
    <3>1. CASE Vault!Return(p)
      BY <2>1, <2>2, <3>1
    <3>2. CASE Vault!Enter(p) \/ Vault!Leave(p) \/ Vault!Bump(p)
      BY <3>2 DEF Vault!Enter, Vault!Leave, Vault!Bump, Vault!history
    <3>3. CASE Vault!WriteFails(p) \/ Vault!Crash(p)
      BY <3>3 DEF Vault!WriteFails, Vault!Crash
    <3>4. CASE \E k \in Key : Vault!PutRaises(p, k)
      BY <3>4 DEF Vault!PutRaises, Vault!history
    <3>5. CASE \E k \in Key, o \in Output :
                 \/ Vault!WriteNote(p, k, o, "validated", "node")
                 \/ \E a \in FailureAddress : Vault!WriteNote(p, k, o, "failed", a)
      BY <3>5 DEF Vault!WriteNote, Vault!history
    <3>6. QED
      BY <2>2, <3>1, <3>2, <3>3, <3>4, <3>5 DEF Vault!Step
  <2>3. UNCHANGED Vault!vars => UNCHANGED acked
    BY DEF Vault!vars, Vault!history
  <2>4. QED
    BY <2>2, <2>3 DEF Vault!Next
<1>4. Vault!Spec => []VaultInv
  BY <1>1, VaultInvariant
<1>5. QED
  BY <1>2, <1>3, <1>4, PTL DEF Vault!Spec, Vault!ImplementsRunLog, Vault!Promise!Spec
=============================================================================
