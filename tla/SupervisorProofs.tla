-------------------------- MODULE SupervisorProofs --------------------------
(***************************************************************************)
(* Proofs about Supervisor, for every number of nodes, set of plans and    *)
(* values, and every number of runs, attempts and records.  The store's    *)
(* invariant is taken from StateStoreProofs: every step of a run is a      *)
(* step of the store or leaves it alone.                                   *)
(***************************************************************************)
EXTENDS Supervisor, TLAPS

\* Its parts on the AgentCore store and the file vault are not used: their
\* variables are fixed.
SP == INSTANCE StateStoreProofs
        WITH events <- <<>>, records <- <<>>, epoch <- 0, loaded <- FALSE, acked <- <<>>,
             departed <- {}, crashes <- 0,
             notes <- {}, gen <- 0, lock <- 0, own_gen <- <<>>, pc <- <<>>, writing <- <<>>,
             torn <- FALSE,
             MaxEvents <- 0, MaxSpent <- 0, MaxKinds <- 0, MaxCrashes <- 0,
             Proc <- {}, Nobody <- 0, FailureAddress <- {}, MaxClock <- 0

-----------------------------------------------------------------------------
(* The store under the Supervisor *)

LEMMA StoreAssumptionHolds == SP!StoreAssumption
<1>1. Coordination \in Key
  BY DEF Key
<1>2. NoOutput \notin Output
  BY SupervisorAssumption DEF Output
<1>3. QED
  BY <1>1, <1>2, SupervisorAssumption DEF SP!StoreAssumption

\* A put of the Supervisor keeps the store's invariant and appends one record
\* with the highest attempt of its key.
LEMMA PutFacts ==
  ASSUME SP!IInv,
         NEW k \in Key \ {Coordination}, NEW o \in Output,
         NEW s \in {"validated", "failed"}, NEW m \in Meta,
         Store!Put(k, o, s, m)
  PROVE  /\ SP!IInv'
         /\ \E r : SP!Adds(k, o, s, r, Len(log) + 1) /\ r.meta = m
         /\ projection' = IF s = "validated" THEN [projection EXCEPT ![k] = o] ELSE projection
<1>1. SP!Put(k, o, s, m)
  BY DEF Store!Put, Store!Admit, SP!Put, SP!Admit
<1>2. SP!IInv'
  <2>1. SP!Next
    BY <1>1 DEF SP!Next
  <2>2. QED
    BY <2>1, SP!NextIInv, StoreAssumptionHolds
<1>3. SP!Admit(k, o, s, "agent_output", m)
  BY <1>1 DEF SP!Put
<1>4. SP!Adds(k, o, s, SP!NewRecord(k, o, s, "agent_output", m), Len(log) + 1)
  <2>1. k \in Key /\ o \in Output \cup {NoOutput} /\ s \in SP!Status
    BY DEF SP!Status
  <2>2. QED
    BY <2>1, <1>3, SP!AdmitFacts, StoreAssumptionHolds
<1>5. SP!NewRecord(k, o, s, "agent_output", m).meta = m
  BY DEF SP!NewRecord
<1>6. projection' = IF s = "validated" THEN [projection EXCEPT ![k] = o] ELSE projection
  BY <1>3 DEF SP!Admit
<1>7. QED
  BY <1>2, <1>4, <1>5, <1>6

\* A put that raises, and a reload, leave what is read from the store alone.
LEMMA QuietFacts ==
  ASSUME SP!IInv,
         \/ Store!Reload
         \/ \E k \in Node : Store!PutRaises(k)
         \/ UNCHANGED storeVars
  PROVE  SP!IInv' /\ UNCHANGED <<log, projection>>
<1>1. CASE Store!Reload
  <2>1. SP!Reload
    BY <1>1 DEF Store!Reload, SP!Reload, Store!Rebuilt, SP!Rebuilt, Store!TopAttempt, SP!TopAttempt,
                Store!IsLatest, SP!IsLatest, Store!IsLatestValidated, SP!IsLatestValidated,
                Store!Supersedes, SP!Supersedes
  <2>2. SP!IInv' /\ projection' = projection
    BY <2>1, SP!ReloadKeepsIInv, StoreAssumptionHolds
  <2>3. QED
    BY <2>1, <2>2 DEF SP!Reload
<1>2. ASSUME NEW k \in Node, Store!PutRaises(k)
      PROVE  SP!IInv' /\ UNCHANGED <<log, projection>>
  <2>1. k \in Key /\ SP!PutRaises(k)
    BY <1>2 DEF Store!PutRaises, SP!PutRaises, Key
  <2>2. SP!IInv'
    BY <2>1, SP!RaisingKeepsIInv, StoreAssumptionHolds
  <2>3. QED
    BY <2>1, <2>2 DEF SP!PutRaises
<1>3. CASE UNCHANGED storeVars
  <2>1. [SP!Next]_SP!vars
    BY <1>3 DEF storeVars, SP!vars
  <2>2. QED
    BY <2>1, <1>3, SP!NextIInv, StoreAssumptionHolds DEF storeVars
<1>4. QED
  BY <1>1, <1>2, <1>3

-----------------------------------------------------------------------------
(***************************************************************************)
(* The inductive invariant.  While a node is dispatched it has no output,  *)
(* its producers have, and the payload is made of their outputs            *)
(* (Dispatched): nothing writes the store between the assembly of the      *)
(* payload and the put of the output.                                      *)
(***************************************************************************)
ControlTypes ==
  /\ options \in Options
  /\ plan \in Plan /\ held \in SUBSET Node
  /\ pc \in Ended \cup {"identity", "walk", "check", "invoke", "admit"}
  /\ at \in 1..(N + 1)
  /\ tries \in 0..MaxAttempts
  /\ got \in Value \cup {Unstorable, NoOutput}
  /\ runs \in Nat /\ base \in Nat

Dispatched ==
  /\ pc \in {"check", "invoke", "admit"} =>
       /\ at \in Node
       /\ projection[at] = NoOutput
       /\ \A p \in plan[at] : projection[p] # NoOutput
       /\ payload = [p \in plan[at] |-> projection[p]]
  /\ pc = "admit" => got \in Value \cup {Unstorable}

Inv == SP!IInv /\ ControlTypes /\ Dispatched /\ ValidatedIsNewest

LEMMA PlanFacts ==
  ASSUME Inv, NEW n \in Node
  PROVE  /\ plan[n] \subseteq Node
         /\ n \in Key \ {Coordination} /\ n \in Nat
         /\ [consumes |-> plan[n], class |-> "none"] \in Meta
         /\ [consumes |-> plan[n], class |-> "crash"] \in Meta
         /\ [consumes |-> {}, class |-> "hold"] \in Meta
<1>1. plan[n] \subseteq Node
  BY SupervisorAssumption DEF Inv, ControlTypes, Wirings
<1>2. n \in Key \ {Coordination} /\ n \in Nat
  BY SupervisorAssumption DEF Key, Node
<1>3. QED
  BY <1>1, <1>2 DEF Meta

\* A node is completed exactly when it is in the projection.
LEMMA CompletedIsProjected ==
  ASSUME Inv, NEW n \in Node
  PROVE  n \in Completed(log) <=> projection[n] # NoOutput
<1>1. n \in Key
  BY DEF Key
<1>2. ASSUME n \in Completed(log)
      PROVE  projection[n] # NoOutput
  <2>1. PICK i \in DOMAIN log : log[i].node = n /\ log[i].status = "validated"
    BY <1>2 DEF Completed
  <2>2. QED
    BY <2>1, <1>1 DEF Inv, SP!IInv, SP!ProjectionIsLog
<1>3. ASSUME projection[n] # NoOutput
      PROVE  n \in Completed(log)
  <2>1. PICK i \in DOMAIN log : log[i].node = n /\ log[i].status = "validated"
    BY <1>1, <1>3 DEF Inv, SP!IInv, SP!ProjectionIsLog, SP!IsLatestValidated
  <2>2. IsLatest(log, i)
    BY <2>1 DEF Inv, ValidatedIsNewest, NodeRecords
  <2>3. QED
    BY <2>1, <2>2 DEF Completed
<1>4. QED
  BY <1>2, <1>3

\* Recording anything for a node that has no output yet, or under the id of
\* the plan's identity, keeps every validated record the newest of its node.
LEMMA PutKeepsNewest ==
  ASSUME Inv,
         NEW k \in Key \ {Coordination}, NEW o \in Output,
         NEW s \in {"validated", "failed"}, NEW m \in Meta,
         k \in Node => projection[k] = NoOutput,
         Store!Put(k, o, s, m)
  PROVE  ValidatedIsNewest'
<1> DEFINE top == Len(log) + 1
<1>1. PICK r : SP!Adds(k, o, s, r, top)
  BY PutFacts DEF Inv
<1> HIDE DEF top
<1> USE DEF SP!Adds
<1>2. k \in Node => \A i \in DOMAIN log : log[i].node = k => log[i].status # "validated"
  BY DEF Inv, SP!IInv, SP!ProjectionIsLog
<1>3. SUFFICES ASSUME NEW i \in DOMAIN log', log'[i].node \in Node, log'[i].status = "validated"
               PROVE  IsLatest(log', i)
  BY DEF ValidatedIsNewest, NodeRecords
<1>4. CASE i = top
  BY <1>1, <1>4 DEF IsLatest, Supersedes
<1>5. CASE i \in DOMAIN log
  <2>1. IsLatest(log, i)
    BY <1>1, <1>3, <1>5 DEF Inv, ValidatedIsNewest, NodeRecords
  <2>2. log[i].node # k
    BY <1>1, <1>2, <1>3, <1>5
  <2>3. QED
    BY <1>1, <1>5, <2>1, <2>2 DEF IsLatest, Supersedes
<1>6. QED
  BY <1>1, <1>4, <1>5

LEMMA InitInv == Init => Inv
<1> SUFFICES ASSUME Init PROVE Inv
  OBVIOUS
<1>1. SP!IInv
  <2>1. SP!Init
    BY DEF Init, Store!Init, SP!Init
  <2>2. QED
    BY <2>1, SP!InitIInv, StoreAssumptionHolds
<1>2. ControlTypes
  BY SupervisorAssumption DEF Init, ControlTypes, Ended
<1>3. Dispatched
  BY DEF Init, Dispatched
<1>4. ValidatedIsNewest
  <2>1. log = <<>>
    BY DEF Init, Store!Init
  <2>2. QED
    BY <2>1 DEF ValidatedIsNewest, NodeRecords
<1>5. QED
  BY <1>1, <1>2, <1>3, <1>4 DEF Inv

\* The walk goes on after a record for a node that has no output.
LEMMA PutAndNext ==
  ASSUME Inv, at \in Node, projection[at] = NoOutput,
         NEW o \in Output, NEW s \in {"validated", "failed"}, NEW m \in Meta,
         Store!Put(at, o, s, m), NextNode, UNCHANGED <<options, runs, base>>
  PROVE  Inv'
<1>1. at \in Key \ {Coordination} /\ at \in Nat
  BY PlanFacts
<1>2. SP!IInv'
  BY <1>1, PutFacts DEF Inv
<1>3. ValidatedIsNewest'
  BY <1>1, PutKeepsNewest
<1>4. ControlTypes'
  BY <1>1, SupervisorAssumption DEF Inv, ControlTypes, NextNode, Node, Ended
<1>5. Dispatched'
  BY DEF NextNode, Dispatched
<1>6. QED
  BY <1>2, <1>3, <1>4, <1>5 DEF Inv

\* A step that leaves the log and the projection alone.
LEMMA QuietStep ==
  ASSUME Inv, SP!IInv', UNCHANGED <<log, projection>>, ControlTypes', Dispatched'
  PROVE  Inv'
  BY DEF Inv, ValidatedIsNewest, NodeRecords, IsLatest, Supersedes

LEMMA FailsKeepsInv ==
  ASSUME Inv, pc \in {"check", "invoke"}, Fails, UNCHANGED <<options, runs, base>>
  PROVE  Inv'
<1>1. at \in Node /\ projection[at] = NoOutput
  BY DEF Inv, Dispatched
<1>2. CASE pc' = "raised" /\ UNCHANGED <<storeVars, runVars>>
  <2>1. SP!IInv' /\ UNCHANGED <<log, projection>>
    BY <1>2, QuietFacts DEF Inv
  <2>2. ControlTypes' /\ Dispatched'
    BY <1>2 DEF Inv, ControlTypes, Dispatched, runVars, Ended
  <2>3. QED
    BY <2>1, <2>2, QuietStep
<1>3. CASE /\ Store!Put(at, Failure, "failed", [consumes |-> plan[at], class |-> "crash"])
           /\ NextNode
  <2>1. Failure \in Output /\ [consumes |-> plan[at], class |-> "crash"] \in Meta
    BY <1>1, PlanFacts DEF Output
  <2>2. QED
    BY <1>1, <1>3, <2>1, PutAndNext
<1>4. QED
  BY <1>2, <1>3 DEF Fails

LEMMA NextInv == Inv /\ [Next]_vars => Inv'
<1> SUFFICES ASSUME Inv, [Next]_vars PROVE Inv'
  OBVIOUS
<1> USE SupervisorAssumption
<1>1. ASSUME UNCHANGED storeVars, ControlTypes', Dispatched'
      PROVE  Inv'
  BY <1>1, QuietFacts, QuietStep DEF Inv
<1>2. ASSUME NEW p \in Plan, NEW h \in SUBSET Node, StartRun(p, h)
      PROVE  Inv'
  <2>1. Len(log) \in Nat
    BY DEF Inv, SP!IInv, SP!TypeOK
  <2>2. ControlTypes' /\ Dispatched'
    BY <1>2, <2>1 DEF StartRun, Inv, ControlTypes, Dispatched, Ended
  <2>3. QED
    BY <1>1, <1>2, <2>2 DEF StartRun
<1>3. CASE PersistIdentity
  <2>1. /\ PlanIdentity \in Key \ {Coordination} /\ PlanIdentity \notin Node
        /\ plan \in Output
        /\ [consumes |-> {}, class |-> "none"] \in Meta
    BY DEF Key, Output, Meta, Inv, ControlTypes
  <2>2. SP!IInv' /\ ValidatedIsNewest'
    BY <1>3, <2>1, PutFacts, PutKeepsNewest DEF PersistIdentity, Inv
  <2>3. ControlTypes' /\ Dispatched'
    BY <1>3 DEF PersistIdentity, Inv, ControlTypes, Dispatched, runVars, Ended
  <2>4. QED
    BY <2>2, <2>3 DEF Inv
<1>4. CASE VerifyIdentity
  <2>1. ControlTypes' /\ Dispatched'
    BY <1>4 DEF VerifyIdentity, Inv, ControlTypes, Dispatched, runVars, Ended
  <2>2. QED
    BY <1>1, <1>4, <2>1 DEF VerifyIdentity
<1>5. CASE SkipCompleted \/ SkipHeld
  <2>1. ControlTypes' /\ Dispatched'
    BY <1>5 DEF SkipCompleted, SkipHeld, Walking, NextNode, Inv, ControlTypes, Dispatched, Ended
  <2>2. QED
    BY <1>1, <1>5, <2>1 DEF SkipCompleted, SkipHeld
<1>6. CASE RecordBlocked
  <2>1. at \in Node
    BY <1>6 DEF RecordBlocked, Walking, Node, Inv, ControlTypes
  <2>2. projection[at] = NoOutput
    BY <1>6, <2>1, CompletedIsProjected DEF RecordBlocked
  <2>3. Failure \in Output /\ [consumes |-> {}, class |-> "hold"] \in Meta
    BY <2>1, PlanFacts DEF Output
  <2>4. QED
    BY <1>6, <2>1, <2>2, <2>3, PutAndNext DEF RecordBlocked
<1>7. CASE Assemble \/ AssembleFails
  <2>0. at \in Node
    BY <1>7 DEF Assemble, AssembleFails, Dispatching, Walking, Node, Inv, ControlTypes
  <2>1. plan[at] \subseteq Node
    BY <2>0, PlanFacts
  <2>2. projection[at] = NoOutput /\ \A p \in plan[at] : projection[p] # NoOutput
    BY <1>7, <2>0, <2>1, CompletedIsProjected DEF Assemble, AssembleFails, Dispatching, Blocked
  <2>3. ControlTypes'
    BY <1>7 DEF Assemble, AssembleFails, runVars, Inv, ControlTypes, Ended
  <2>4. Dispatched'
    BY <1>7, <2>0, <2>2 DEF Assemble, AssembleFails, Dispatched, storeVars
  <2>5. QED
    BY <1>1, <1>7, <2>3, <2>4 DEF Assemble, AssembleFails
<1>8. CASE IntegrityHolds \/ InvokeRetries \/ \E v \in Value \cup {Unstorable} : InvokeSucceeds(v)
  <2>1. ControlTypes'
    BY <1>8 DEF IntegrityHolds, InvokeRetries, InvokeSucceeds, Inv, ControlTypes, Options, Ended
  <2>2. Dispatched'
    BY <1>8 DEF IntegrityHolds, InvokeRetries, InvokeSucceeds, Inv, Dispatched, storeVars
  <2>3. QED
    BY <1>1, <1>8, <2>1, <2>2 DEF IntegrityHolds, InvokeRetries, InvokeSucceeds
<1>9. CASE IntegrityFails \/ InvokeFails
  BY <1>9, FailsKeepsInv DEF IntegrityFails, InvokeFails
<1>10. CASE Admits
  <2>1. at \in Node /\ projection[at] = NoOutput /\ got \in Value
    BY <1>10 DEF Admits, Inv, Dispatched
  <2>2. got \in Output /\ [consumes |-> plan[at], class |-> "none"] \in Meta
    BY <2>1, PlanFacts DEF Output
  <2>3. QED
    BY <1>10, <2>1, <2>2, PutAndNext DEF Admits
<1>11. CASE AdmitRaises
  <2>1. at \in Node
    BY <1>11 DEF AdmitRaises, Inv, Dispatched
  <2>2. SP!IInv' /\ UNCHANGED <<log, projection>>
    BY <1>11, <2>1, QuietFacts DEF AdmitRaises, Inv
  <2>3. ControlTypes' /\ Dispatched'
    BY <1>11 DEF AdmitRaises, Inv, ControlTypes, Dispatched, runVars, Ended
  <2>4. QED
    BY <2>2, <2>3, QuietStep
<1>12. CASE Return
  <2>1. ControlTypes' /\ Dispatched'
    BY <1>12 DEF Return, Inv, ControlTypes, Dispatched, runVars, Ended
  <2>2. QED
    BY <1>1, <1>12, <2>1 DEF Return
<1>13. CASE Crash
  <2>1. SP!IInv' /\ UNCHANGED <<log, projection>>
    BY <1>13, QuietFacts DEF Crash, Inv
  <2>2. ControlTypes' /\ Dispatched'
    BY <1>13 DEF Crash, Inv, ControlTypes, Dispatched, runVars, Ended
  <2>3. QED
    BY <2>1, <2>2, QuietStep
<1>14. CASE UNCHANGED vars
  <2>1. ControlTypes' /\ Dispatched'
    BY <1>14 DEF vars, storeVars, runVars, Inv, ControlTypes, Dispatched
  <2>2. QED
    BY <1>1, <1>14, <2>1 DEF vars
<1>15. QED
  BY <1>2, <1>3, <1>4, <1>5, <1>6, <1>7, <1>8, <1>9, <1>10, <1>11, <1>12, <1>13, <1>14
     DEF Next, Step

\* The types of the store's and the run's variables hold in every behaviour.
THEOREM TypesHold == Spec => []TypeOK
<1>1. Inv => TypeOK
  BY DEF Inv, SP!IInv, ControlTypes, TypeOK, Store!TypeOK, SP!TypeOK, Store!Record, SP!Record,
         Store!Status, SP!Status, Store!RecordType, SP!RecordType
<1>2. QED
  BY <1>1, InitInv, NextInv, PTL DEF Spec

\* Whatever runs follow one another on the store, with whatever plans, holds,
\* failures and crashes, nothing is ever recorded for a completed node.
THEOREM CompletedIsFinal == Spec => []ValidatedIsNewest
<1>1. Inv => ValidatedIsNewest
  BY DEF Inv
<1>2. QED
  BY <1>1, InitInv, NextInv, PTL DEF Spec

-----------------------------------------------------------------------------
(* The runs implement the dataflow *)

\* The step that admits an output produces it, from its producers' outputs.
LEMMA AdmitsProduces ==
  ASSUME Inv, Admits
  PROVE  Promise!Next
<1>1. /\ at \in Node /\ projection[at] = NoOutput /\ got \in Value
      /\ \A p \in plan[at] : projection[p] # NoOutput
      /\ payload = [p \in plan[at] |-> projection[p]]
  BY DEF Admits, Inv, Dispatched
<1>2. plan[at] \subseteq Node /\ at \in Key \ {Coordination}
      /\ [consumes |-> plan[at], class |-> "none"] \in Meta
  BY <1>1, PlanFacts
<1>3. projection' = [projection EXCEPT ![at] = got]
  BY <1>1, <1>2, PutFacts DEF Admits, Inv, Output
<1>4. projection \in [Key -> Output \cup {NoOutput}]
  BY DEF Inv, SP!IInv, SP!TypeOK
<1>5. Node \subseteq Key
  BY DEF Key
<1>6. Result' = [Result EXCEPT ![at] = got]
  BY <1>1, <1>3, <1>4, <1>5 DEF Result
<1>7. used' = [used EXCEPT ![at] = [p \in plan[at] |-> Result[p]]]
  BY <1>1, <1>2 DEF Admits, Result
<1>8. plan[at] \in SUBSET Promise!Produced
  BY <1>1, <1>2 DEF Promise!Produced, Result
<1>9. Result[at] = NoOutput
  BY <1>1 DEF Result
<1>10. Promise!Produce(at)
  BY <1>1, <1>6, <1>7, <1>8, <1>9 DEF Promise!Produce
<1>11. QED
  BY <1>1, <1>10 DEF Promise!Next

\* Every other step leaves the outputs of nodes alone.
LEMMA OthersKeepOutputs ==
  ASSUME Inv, [Next]_vars, ~Admits
  PROVE  UNCHANGED <<Result, used>>
<1> USE SupervisorAssumption
<1>1. SUFFICES \A n \in Node : projection'[n] = projection[n]
  BY DEF Result, Next, Step, StartRun, PersistIdentity, VerifyIdentity, SkipCompleted, SkipHeld,
         RecordBlocked, Assemble, AssembleFails, IntegrityHolds, IntegrityFails, InvokeSucceeds,
         InvokeRetries, InvokeFails, AdmitRaises, Return, Crash, vars
<1>2. ASSUME NEW n \in Node, NEW m \in Meta, Store!Put(n, Failure, "failed", m)
      PROVE  projection' = projection
  <2>1. n \in Key \ {Coordination} /\ Failure \in Output
    BY PlanFacts DEF Output
  <2>2. QED
    BY <1>2, <2>1, PutFacts DEF Inv
<1>3. CASE PersistIdentity
  <2>1. /\ PlanIdentity \in Key \ {Coordination} /\ PlanIdentity \notin Node
        /\ plan \in Output
        /\ [consumes |-> {}, class |-> "none"] \in Meta
    BY DEF Key, Output, Meta, Inv, ControlTypes
  <2>2. projection' = [projection EXCEPT ![PlanIdentity] = plan]
    BY <1>3, <2>1, PutFacts DEF PersistIdentity, Inv
  <2>3. projection \in [Key -> Output \cup {NoOutput}] /\ Node \subseteq Key
    BY DEF Inv, SP!IInv, SP!TypeOK, Key
  <2>4. QED
    BY <2>1, <2>2, <2>3
<1>4. CASE RecordBlocked
  <2>1. at \in Node
    BY <1>4 DEF RecordBlocked, Walking, Node, Inv, ControlTypes
  <2>2. [consumes |-> {}, class |-> "hold"] \in Meta
    BY <2>1, PlanFacts
  <2>3. QED
    BY <1>2, <1>4, <2>1, <2>2 DEF RecordBlocked
<1>5. CASE IntegrityFails \/ InvokeFails
  <2>1. at \in Node
    BY <1>5 DEF IntegrityFails, InvokeFails, Inv, Dispatched
  <2>2. [consumes |-> plan[at], class |-> "crash"] \in Meta
    BY <2>1, PlanFacts
  <2>3. QED
    BY <1>2, <1>5, <2>1, <2>2 DEF IntegrityFails, InvokeFails, Fails, storeVars
<1>6. CASE AdmitRaises
  <2>1. at \in Node
    BY <1>6 DEF AdmitRaises, Inv, Dispatched
  <2>2. QED
    BY <1>6, <2>1, QuietFacts DEF AdmitRaises, Inv
<1>7. CASE Crash
  BY <1>7, QuietFacts DEF Crash, Inv
<1>8. CASE UNCHANGED storeVars
  BY <1>8 DEF storeVars
<1>9. QED
  BY <1>3, <1>4, <1>5, <1>6, <1>7, <1>8
     DEF Next, Step, StartRun, VerifyIdentity, SkipCompleted, SkipHeld, Assemble, AssembleFails,
         IntegrityHolds, InvokeSucceeds, InvokeRetries, Return, vars

\* Resume = replay: serial runs, resumed and retried at will, implement the
\* dataflow - one output per node, computed from its producers' outputs.
THEOREM RunsImplementDataflow == Spec => ImplementsDataflow
<1>1. Init => Promise!Init
  <2> SUFFICES ASSUME Init PROVE Promise!Init
    OBVIOUS
  <2>1. \A n \in Node : projection[n] = NoOutput
    BY DEF Init, Store!Init, Key
  <2>2. Result = [n \in Node |-> NoOutput]
    BY <2>1 DEF Result
  <2>3. used = [n \in Node |-> Promise!Unused]
    BY DEF Init, Promise!Unused, Nothing
  <2>4. QED
    BY <2>2, <2>3 DEF Promise!Init
<1>2. Inv /\ [Next]_vars => [Promise!Next]_<<Result, used>>
  BY AdmitsProduces, OthersKeepOutputs
<1>3. QED
  BY <1>1, <1>2, InitInv, NextInv, PTL DEF Spec, ImplementsDataflow, Promise!Spec

-----------------------------------------------------------------------------
(***************************************************************************)
(* The identity guard.  OnePlan is kept by a run only because the run's    *)
(* own plan is the recorded one from the moment it starts to walk, and     *)
(* that record never changes: the first pass writes it before anything     *)
(* else, and no later pass writes another.                                 *)
(***************************************************************************)
Guarded ==
  options.verify_plan_identity =>
    /\ \A i, j \in Identities : i = j
    /\ pc \in {"walk", "check", "invoke", "admit"} => \E i \in Identities : log[i].output = plan

PlanInv == Inv /\ Guarded /\ OnePlan

\* A record of a node leaves the identities alone, and keeps OnePlan when it
\* is not validated or carries the wiring of the recorded plan.
LEMMA PutKeepsOnePlan ==
  ASSUME PlanInv,
         NEW n \in Node, NEW o \in Output, NEW s \in {"validated", "failed"}, NEW m \in Meta,
         Store!Put(n, o, s, m),
         s = "validated" =>
           m.consumes = plan[n] /\ pc \in {"walk", "check", "invoke", "admit"},
         UNCHANGED <<options, plan>>, pc' \in {"walk", "raised"},
         pc \in {"walk", "check", "invoke", "admit"}
  PROVE  Guarded' /\ OnePlan'
<1> DEFINE top == Len(log) + 1
<1>0. n \in Key \ {Coordination} /\ n # PlanIdentity
  BY PlanFacts, SupervisorAssumption DEF PlanInv
<1>1. PICK r : SP!Adds(n, o, s, r, top) /\ r.meta = m
  BY <1>0, PutFacts DEF PlanInv, Inv
<1> HIDE DEF top
<1> USE DEF SP!Adds
<1>2. Identities' = Identities
  BY <1>0, <1>1 DEF Identities
<1>3. \A i \in Identities : log'[i] = log[i] /\ i \in DOMAIN log /\ i < top
  BY <1>1 DEF Identities
<1>4. Guarded'
  BY <1>2, <1>3 DEF PlanInv, Guarded
<1>5. ASSUME options.verify_plan_identity,
             NEW i \in DOMAIN log', log'[i].node \in Node, log'[i].status = "validated"
      PROVE  \E j \in Identities : /\ j < i
                                   /\ log'[i].meta.consumes = log'[j].output[log'[i].node]
  <2>1. CASE i \in DOMAIN log
    BY <1>1, <1>3, <1>5, <2>1 DEF PlanInv, OnePlan, NodeRecords
  <2>2. CASE i = top
    <3>1. PICK j \in Identities : log[j].output = plan
      BY <1>5 DEF PlanInv, Guarded
    <3>2. j < i /\ log'[j].output = plan
      BY <1>3, <2>2, <3>1
    <3>3. log'[i].node = n /\ log'[i].meta.consumes = plan[n]
      BY <1>1, <1>5, <2>2
    <3>4. QED
      BY <3>2, <3>3
  <2>3. QED
    BY <1>1, <2>1, <2>2
<1>6. OnePlan'
  BY <1>2, <1>5 DEF OnePlan, NodeRecords
<1>7. QED
  BY <1>4, <1>6

LEMMA PersistKeepsOnePlan ==
  ASSUME PlanInv, PersistIdentity
  PROVE  Guarded' /\ OnePlan'
<1> DEFINE top == Len(log) + 1
<1>1. /\ PlanIdentity \in Key \ {Coordination} /\ PlanIdentity \notin Node
      /\ plan \in Output
      /\ [consumes |-> {}, class |-> "none"] \in Meta
  BY SupervisorAssumption DEF Key, Output, Meta, PlanInv, Inv, ControlTypes
<1>2. PICK r : SP!Adds(PlanIdentity, plan, "validated", r, top)
  BY <1>1, PutFacts DEF PersistIdentity, PlanInv, Inv
<1> HIDE DEF top
<1> USE DEF SP!Adds
<1>3. Identities' = {top} /\ log'[top].output = plan
  BY <1>2 DEF PersistIdentity, Identities
<1>4. plan' = plan /\ options' = options
  BY DEF PersistIdentity, runVars
<1>5. Guarded'
  BY <1>3, <1>4 DEF Guarded
<1>6. options.verify_plan_identity =>
        \A i \in DOMAIN log : log[i].node \in Node => log[i].status # "validated"
  BY DEF PersistIdentity, PlanInv, OnePlan, NodeRecords
<1>7. OnePlan'
  BY <1>1, <1>2, <1>4, <1>6 DEF OnePlan, NodeRecords
<1>8. QED
  BY <1>5, <1>7

LEMMA QuietKeepsOnePlan ==
  ASSUME PlanInv, UNCHANGED <<log, options>>,
         \/ pc' \notin {"walk", "check", "invoke", "admit"}
         \/ pc \in {"walk", "check", "invoke", "admit"} /\ UNCHANGED plan
         \/ ~options.verify_plan_identity
  PROVE  Guarded' /\ OnePlan'
  BY DEF PlanInv, Guarded, OnePlan, Identities, NodeRecords

LEMMA NextPlanInv == PlanInv /\ [Next]_vars => PlanInv'
<1> SUFFICES ASSUME PlanInv, [Next]_vars PROVE Guarded' /\ OnePlan'
  BY NextInv DEF PlanInv
<1> USE SupervisorAssumption
<1>1. CASE \E p \in Plan, h \in SUBSET Node : StartRun(p, h)
  BY <1>1, QuietKeepsOnePlan DEF StartRun, storeVars
<1>2. CASE PersistIdentity
  BY <1>2, PersistKeepsOnePlan
<1>3. CASE VerifyIdentity
  <2>1. CASE pc' = "raised"
    BY <1>3, <2>1, QuietKeepsOnePlan DEF VerifyIdentity, storeVars
  <2>2. CASE pc' # "raised"
    <3> DEFINE first == CHOOSE i \in Identities : \A j \in Identities : i <= j
    <3>1. UNCHANGED <<log, options, plan>> /\ Identities # {} /\ log[first].output = plan
      BY <1>3, <2>2 DEF VerifyIdentity, storeVars, runVars
    <3>2. options.verify_plan_identity => first \in Identities
      <4>1. Identities \subseteq Nat
        BY DEF Identities, PlanInv, Inv, SP!IInv, SP!TypeOK
      <4>2. options.verify_plan_identity => \E i \in Identities : \A j \in Identities : i <= j
        <5>1. PICK i : i \in Identities
          BY <3>1
        <5>2. i <= i
          BY <4>1, <5>1
        <5>3. QED
          BY <5>1, <5>2 DEF PlanInv, Guarded
      <4>3. QED
        BY <4>2
    <3> HIDE DEF first
    <3>3. QED
      BY <3>1, <3>2 DEF PlanInv, Guarded, OnePlan, Identities, NodeRecords
  <2>3. QED
    BY <2>1, <2>2
<1>4. CASE RecordBlocked
  <2>1. at \in Node
    BY <1>4 DEF RecordBlocked, Walking, Node, PlanInv, Inv, ControlTypes
  <2>2. Failure \in Output /\ [consumes |-> {}, class |-> "hold"] \in Meta
    BY <2>1, PlanFacts DEF Output, PlanInv
  <2>3. QED
    BY <1>4, <2>1, <2>2, PutKeepsOnePlan DEF RecordBlocked, Walking, NextNode
<1>5. CASE IntegrityFails \/ InvokeFails
  <2>1. at \in Node
    BY <1>5 DEF IntegrityFails, InvokeFails, PlanInv, Inv, Dispatched
  <2>2. Failure \in Output /\ [consumes |-> plan[at], class |-> "crash"] \in Meta
    BY <2>1, PlanFacts DEF Output, PlanInv
  <2>3. CASE UNCHANGED storeVars /\ pc' = "raised"
    BY <1>5, <2>3, QuietKeepsOnePlan DEF IntegrityFails, InvokeFails, storeVars
  <2>4. CASE Store!Put(at, Failure, "failed", [consumes |-> plan[at], class |-> "crash"]) /\ NextNode
    BY <1>5, <2>1, <2>2, <2>4, PutKeepsOnePlan DEF IntegrityFails, InvokeFails, NextNode
  <2>5. QED
    BY <1>5, <2>3, <2>4 DEF IntegrityFails, InvokeFails, Fails
<1>6. CASE Admits
  <2>1. at \in Node /\ got \in Value
    BY <1>6 DEF Admits, PlanInv, Inv, Dispatched
  <2>2. got \in Output /\ [consumes |-> plan[at], class |-> "none"] \in Meta
    BY <2>1, PlanFacts DEF Output, PlanInv
  <2>3. QED
    BY <1>6, <2>1, <2>2, PutKeepsOnePlan DEF Admits, NextNode
<1>7. CASE AdmitRaises \/ Crash
  <2>1. UNCHANGED <<log, options>> /\ pc' \in {"raised", "idle"}
    BY <1>7 DEF AdmitRaises, Crash, Store!PutRaises, Store!Reload
  <2>2. QED
    BY <2>1, QuietKeepsOnePlan
<1>8. CASE \/ SkipCompleted \/ SkipHeld \/ Assemble \/ AssembleFails
           \/ IntegrityHolds \/ InvokeRetries \/ Return
           \/ \E v \in Value \cup {Unstorable} : InvokeSucceeds(v)
  <2>1. UNCHANGED <<log, options, plan>> /\ pc \in {"walk", "check", "invoke", "admit"}
    BY <1>8 DEF SkipCompleted, SkipHeld, Assemble, AssembleFails, IntegrityHolds, InvokeRetries,
                Return, InvokeSucceeds, Walking, Dispatching, NextNode, storeVars, runVars
  <2>2. QED
    BY <2>1, QuietKeepsOnePlan
<1>9. CASE UNCHANGED vars
  BY <1>9 DEF vars, storeVars, runVars, PlanInv, Guarded, OnePlan, Identities, NodeRecords
<1>10. QED
  BY <1>1, <1>2, <1>3, <1>4, <1>5, <1>6, <1>7, <1>8, <1>9 DEF Next, Step

\* With the identity guard, every output on the store was produced under the
\* one plan recorded before it, whatever plans later runs are given.
THEOREM OnePlanHolds == Spec => []OnePlan
<1>1. Init => PlanInv
  <2> SUFFICES ASSUME Init PROVE PlanInv
    OBVIOUS
  <2>1. log = <<>> /\ pc = "idle"
    BY DEF Init, Store!Init
  <2>2. Guarded /\ OnePlan
    BY <2>1 DEF Guarded, OnePlan, Identities, NodeRecords
  <2>3. QED
    BY <2>2, InitInv DEF PlanInv
<1>2. PlanInv => OnePlan
  BY DEF PlanInv
<1>3. QED
  BY <1>1, <1>2, NextPlanInv, PTL DEF Spec

-----------------------------------------------------------------------------
(***************************************************************************)
(* What a run accounts for.  RunExplained is about runs that have          *)
(* returned; the invariant is about every node the walk has passed: it is  *)
(* explained now, and stays so, because a node's producers precede it in   *)
(* the order and the walk never comes back to them.  No node ahead of the  *)
(* walk has a record of this run.                                          *)
(***************************************************************************)
Finished == {n \in Node : projection[n] # NoOutput}

Untouched(n) == \A i \in DOMAIN log : i > base => log[i].node # n

Cause(n) == IF plan[n] \subseteq Finished THEN "crash" ELSE "hold"

\* The record at i is the only one of this run for n.
OnlyNew(n, i) ==
  /\ i \in DOMAIN log /\ i > base /\ log[i].node = n
  /\ \A j \in DOMAIN log : j > base /\ log[j].node = n => j = i

FailedOnce(n) ==
  \E i \in DOMAIN log :
    OnlyNew(n, i) /\ log[i].status = "failed" /\ log[i].meta.class = Cause(n)

Accounted(n) ==
  \/ n \in Finished
  \/ n \in held /\ Untouched(n)
  \/ n \notin held /\ FailedOnce(n)

InRun == {"identity", "walk", "check", "invoke", "admit", "returned"}

Walked ==
  /\ base <= Len(log)
  /\ pc \in InRun =>
       /\ \A n \in Node : n < at => Accounted(n)
       /\ \A n \in Node : n >= at => Untouched(n)
       /\ pc = "identity" => at = 1
       /\ pc = "returned" => at > N
       /\ pc \in {"check", "invoke", "admit"} => at \notin held

WalkInv == Inv /\ Walked

LEMMA WalkTypes ==
  ASSUME Inv
  PROVE  /\ at \in Nat /\ base \in Nat /\ Len(log) \in Nat /\ N \in Nat
         /\ \A n \in Node : n \in Nat /\ plan[n] \subseteq 1..(n - 1) /\ plan[n] \subseteq Node
         /\ DOMAIN log = 1..Len(log)
<1>1. at \in Nat /\ base \in Nat /\ N \in Nat
  BY SupervisorAssumption DEF Inv, ControlTypes
<1>2. Len(log) \in Nat /\ DOMAIN log = 1..Len(log)
  BY DEF Inv, SP!IInv, SP!TypeOK
<1>3. \A n \in Node : n \in Nat
  BY <1>1 DEF Node
<1>4. \A n \in Node : plan[n] \subseteq 1..(n - 1)
  BY SupervisorAssumption DEF Inv, ControlTypes, Wirings
<1>5. \A n \in Node : plan[n] \subseteq Node
  BY PlanFacts
<1>6. QED
  BY <1>1, <1>2, <1>3, <1>4, <1>5

\* Nothing an account reads changes: it stands.
LEMMA QuietAccounts ==
  ASSUME UNCHANGED <<log, projection, base, plan, held>>, NEW n
  PROVE  (Accounted(n) => Accounted(n)') /\ (Untouched(n) => Untouched(n)')
<1>1. Untouched(n)' <=> Untouched(n)
  BY DEF Untouched
<1>2. Finished' = Finished /\ Cause(n)' = Cause(n)
  BY DEF Finished, Cause
<1>3. FailedOnce(n)' <=> FailedOnce(n)
  BY <1>2 DEF FailedOnce, OnlyNew
<1>4. QED
  BY <1>1, <1>2, <1>3 DEF Accounted

\* A step that stays where the walk is.
LEMMA QuietWalk ==
  ASSUME WalkInv, UNCHANGED <<log, projection, base, plan, held>>,
         \/ pc' \notin InRun
         \/ /\ pc \in InRun /\ at' = at /\ pc' # "identity"
            /\ pc' = "returned" => at > N
            /\ pc' \in {"check", "invoke", "admit"} => at \notin held
  PROVE  Walked'
<1>1. base' <= Len(log')
  BY DEF WalkInv, Walked
<1>2. CASE pc' \notin InRun
  BY <1>1, <1>2 DEF Walked
<1>3. CASE pc' \in InRun
  <2>1. \A n \in Node : (n < at => Accounted(n)') /\ (n >= at => Untouched(n)')
    BY <1>3, QuietAccounts DEF WalkInv, Walked
  <2>2. QED
    BY <1>1, <1>3, <2>1 DEF Walked
<1>4. QED
  BY <1>2, <1>3

\* The walk passes a node that is completed, or held and not completed.
LEMMA SkipWalks ==
  ASSUME WalkInv, at \in Node, pc = "walk",
         at \in Finished \cup held,
         NextNode, UNCHANGED <<log, projection, base>>
  PROVE  Walked'
<1>1. UNCHANGED <<log, projection, base, plan, held>> /\ at' = at + 1 /\ pc' = "walk"
  BY DEF NextNode
<1>2. at \in Nat /\ \A n \in Node : n \in Nat
  BY WalkTypes DEF WalkInv
<1>3. pc \in InRun
  BY DEF InRun
<1>4. Untouched(at)
  BY <1>2, <1>3 DEF WalkInv, Walked
<1>5. Accounted(at)
  BY <1>4 DEF Accounted
<1>6. \A n \in Node : n < at + 1 => n < at \/ n = at
  BY <1>2
<1>7. \A n \in Node : n < at + 1 => Accounted(n)'
  BY <1>1, <1>3, <1>5, <1>6, QuietAccounts DEF WalkInv, Walked
<1>8. \A n \in Node : n >= at + 1 => n >= at
  BY <1>2
<1>9. \A n \in Node : n >= at + 1 => Untouched(n)'
  BY <1>1, <1>3, <1>8, QuietAccounts DEF WalkInv, Walked
<1>10. base' <= Len(log')
  BY <1>1 DEF WalkInv, Walked
<1>11. QED
  BY <1>1, <1>7, <1>9, <1>10 DEF Walked

\* The walk passes a node by recording its output or its failure, with the
\* cause the failure has.  A producer of a node already passed is behind the
\* walk too, so no earlier account is about the node being recorded.
LEMMA PutWalks ==
  ASSUME WalkInv, at \in Node, pc \in {"walk", "check", "invoke", "admit"},
         at \notin held, projection[at] = NoOutput,
         NEW o \in Output, NEW s \in {"validated", "failed"}, NEW m \in Meta,
         s = "failed" => m.class = Cause(at),
         Store!Put(at, o, s, m), NextNode, UNCHANGED base
  PROVE  Walked'
<1>1. at \in Key \ {Coordination} /\ o # NoOutput
  BY PlanFacts, SupervisorAssumption DEF WalkInv, Output
<1>2. PICK r : SP!Adds(at, o, s, r, Len(log) + 1) /\ r.meta = m
  BY <1>1, PutFacts DEF WalkInv, Inv
<1>3. projection' = IF s = "validated" THEN [projection EXCEPT ![at] = o] ELSE projection
  BY <1>1, PutFacts DEF WalkInv, Inv
<1>4. PICK top : top = Len(log) + 1
  OBVIOUS
<1>5. /\ DOMAIN log' = DOMAIN log \cup {top}
      /\ \A i \in DOMAIN log : log'[i] = log[i] /\ i < top
      /\ top \notin DOMAIN log
      /\ log'[top].node = at /\ log'[top].status = s /\ log'[top].meta = m
  BY <1>2, <1>4 DEF SP!Adds
<1>6. pc \in InRun /\ pc' = "walk" /\ at' = at + 1 /\ base' = base /\ plan' = plan /\ held' = held
  BY DEF InRun, NextNode
<1>7. at \in Nat /\ base \in Nat /\ Len(log) \in Nat /\ \A n \in Node : n \in Nat
  BY WalkTypes DEF WalkInv
<1>8. base < top
  BY <1>4, <1>7 DEF WalkInv, Walked
<1>9. ASSUME NEW n \in Node, n # at
      PROVE  /\ Untouched(n) => Untouched(n)'
             /\ \A i \in DOMAIN log : OnlyNew(n, i) => OnlyNew(n, i)'
             /\ n \in Finished' <=> n \in Finished
  <2>1. Untouched(n) => Untouched(n)'
    BY <1>5, <1>6, <1>9 DEF Untouched
  <2>2. \A i \in DOMAIN log : OnlyNew(n, i) => OnlyNew(n, i)'
    BY <1>5, <1>6, <1>9 DEF OnlyNew
  <2>3. projection'[n] = projection[n]
    BY <1>3, <1>9
  <2>4. QED
    BY <2>1, <2>2, <2>3 DEF Finished
<1>10. ASSUME NEW n \in Node, n <= at
       PROVE  Cause(n)' = Cause(n)
  <2>1. \A p \in plan[n] : p \in Node /\ p # at
    <3>1. plan[n] \subseteq 1..(n - 1) /\ plan[n] \subseteq Node
      BY WalkTypes DEF WalkInv
    <3>2. QED
      BY <1>7, <1>10, <3>1
  <2>2. \A p \in plan[n] : p \in Finished' <=> p \in Finished
    BY <1>9, <2>1
  <2>3. plan'[n] \subseteq Finished' <=> plan[n] \subseteq Finished
    BY <1>6, <2>2
  <2>4. QED
    BY <2>3 DEF Cause
<1>11. ASSUME NEW n \in Node, n < at
       PROVE  Accounted(n)'
  <2>1. Accounted(n) /\ n # at /\ n <= at
    BY <1>6, <1>7, <1>11 DEF WalkInv, Walked
  <2>2. Cause(n)' = Cause(n)
    BY <1>10, <2>1
  <2>3. FailedOnce(n) => FailedOnce(n)'
    <3>1. SUFFICES ASSUME NEW i \in DOMAIN log, OnlyNew(n, i), log[i].status = "failed",
                          log[i].meta.class = Cause(n)
                   PROVE  FailedOnce(n)'
      BY DEF FailedOnce
    <3>2. i \in DOMAIN log' /\ log'[i] = log[i] /\ OnlyNew(n, i)'
      BY <1>5, <1>9, <2>1, <3>1
    <3>3. QED
      BY <2>2, <3>1, <3>2 DEF FailedOnce
  <2>4. QED
    BY <1>6, <1>9, <2>1, <2>3 DEF Accounted
<1>12. PICK here \in Node : here = at
  OBVIOUS
<1>13. Accounted(here)'
  <2>1. CASE s = "validated"
    <3>1. here \in DOMAIN projection
      BY <1>1, <1>12 DEF WalkInv, Inv, SP!IInv, SP!TypeOK
    <3>2. projection'[here] # NoOutput
      BY <1>1, <1>3, <1>12, <2>1, <3>1
    <3>3. (here \in Finished)'
      BY <3>2 DEF Finished
    <3>4. QED
      BY <3>3 DEF Accounted
  <2>2. CASE s = "failed"
    <3>1. Untouched(here)
      BY <1>6, <1>7, <1>12 DEF WalkInv, Walked
    <3>2. OnlyNew(here, top)'
      BY <1>5, <1>6, <1>7, <1>8, <1>12, <3>1 DEF Untouched, OnlyNew
    <3>3. Cause(here)' = Cause(here) /\ m.class = Cause(here)
      BY <1>7, <1>10, <1>12, <2>2
    <3>4. FailedOnce(here)'
      BY <1>5, <2>2, <3>2, <3>3 DEF FailedOnce
    <3>5. QED
      BY <1>6, <1>12, <3>4 DEF Accounted
  <2>3. QED
    BY <2>1, <2>2
<1>14. \A n \in Node : n < at + 1 => Accounted(n)'
  <2>1. \A n \in Node : n < at + 1 => n < at \/ n = here
    BY <1>7, <1>12
  <2>2. QED
    BY <1>11, <1>13, <2>1
<1>15. \A n \in Node : n >= at + 1 => Untouched(n)'
  <2>1. \A n \in Node : n >= at + 1 => n >= at /\ n # at
    BY <1>7
  <2>2. QED
    BY <1>6, <1>9, <2>1 DEF WalkInv, Walked
<1>16. base' <= Len(log')
  <2>1. SP!IInv'
    BY <1>1, PutFacts DEF WalkInv, Inv
  <2>2. Len(log') \in Nat /\ DOMAIN log' = 1..Len(log')
    BY <2>1 DEF SP!IInv, SP!TypeOK
  <2>3. top \in 1..Len(log')
    BY <1>5, <2>2
  <2>4. QED
    BY <1>4, <1>6, <1>7, <1>8, <2>2, <2>3
<1>17. QED
  BY <1>6, <1>14, <1>15, <1>16 DEF Walked

\* A crash of the node being dispatched, whose producers all have an output.
LEMMA FailsWalks ==
  ASSUME WalkInv, pc \in {"check", "invoke"}, Fails, UNCHANGED <<options, runs, base>>
  PROVE  Walked'
<1>1. /\ at \in Node /\ projection[at] = NoOutput
      /\ \A p \in plan[at] : projection[p] # NoOutput
  BY DEF WalkInv, Inv, Dispatched
<1>2. at \notin held
  BY DEF WalkInv, Walked, InRun
<1>3. CASE pc' = "raised" /\ UNCHANGED <<storeVars, runVars>>
  <2>1. UNCHANGED <<log, projection, base, plan, held>> /\ pc' \notin InRun
    BY <1>3 DEF storeVars, runVars, InRun
  <2>2. QED
    BY <2>1, QuietWalk
<1>4. CASE /\ Store!Put(at, Failure, "failed", [consumes |-> plan[at], class |-> "crash"])
           /\ NextNode
  <2>1. Failure \in Output /\ [consumes |-> plan[at], class |-> "crash"] \in Meta
    BY <1>1, PlanFacts DEF Output, WalkInv
  <2>2. plan[at] \subseteq Finished
    BY <1>1, PlanFacts DEF Finished, WalkInv
  <2>3. Cause(at) = "crash"
    BY <2>2 DEF Cause
  <2>4. QED
    BY <1>1, <1>2, <1>4, <2>1, <2>3, PutWalks
<1>5. QED
  BY <1>3, <1>4 DEF Fails

LEMMA NextWalked == WalkInv /\ [Next]_vars => Walked'
<1> SUFFICES ASSUME WalkInv, [Next]_vars PROVE Walked'
  OBVIOUS
<1> USE SupervisorAssumption
<1>0. Inv /\ at \in Nat /\ N \in Nat /\ at \in 1..(N + 1)
  BY WalkTypes DEF WalkInv, Inv, ControlTypes
<1>1. ASSUME NEW p \in Plan, NEW h \in SUBSET Node, StartRun(p, h)
      PROVE  Walked'
  <2>1. /\ base' = Len(log) /\ log' = log /\ at' = 1 /\ pc' \in {"identity", "walk"}
    BY <1>1 DEF StartRun, storeVars
  <2>2. Len(log) \in Nat /\ DOMAIN log = 1..Len(log) /\ \A n \in Node : n \in Nat /\ n >= 1
    BY <1>0, WalkTypes DEF Node
  <2>3. \A n \in Node : Untouched(n)'
    BY <2>1, <2>2 DEF Untouched
  <2>4. \A n \in Node : ~(n < 1)
    BY <2>2
  <2>5. base' <= Len(log')
    BY <2>1, <2>2
  <2>6. QED
    BY <2>1, <2>3, <2>4, <2>5 DEF Walked
<1>2. CASE PersistIdentity
  <2>1. /\ PlanIdentity \in Key \ {Coordination} /\ PlanIdentity \notin Node
        /\ plan \in Output
        /\ [consumes |-> {}, class |-> "none"] \in Meta
    BY <1>0 DEF Key, Output, Meta, Inv, ControlTypes
  <2>2. PICK r : SP!Adds(PlanIdentity, plan, "validated", r, Len(log) + 1)
    BY <1>0, <1>2, <2>1, PutFacts DEF PersistIdentity, Inv
  <2>3. PICK top : top = Len(log) + 1
    OBVIOUS
  <2>4. /\ DOMAIN log' = DOMAIN log \cup {top}
        /\ \A i \in DOMAIN log : log'[i] = log[i]
        /\ log'[top].node = PlanIdentity
    BY <2>2, <2>3 DEF SP!Adds
  <2>5. at' = at /\ base' = base /\ pc' = "walk" /\ pc \in InRun /\ at = 1
    BY <1>2 DEF PersistIdentity, runVars, InRun, WalkInv, Walked
  <2>6. \A n \in Node : n >= 1 /\ ~(n < 1)
    BY <1>0 DEF Node
  <2>7. \A n \in Node : Untouched(n)
    BY <2>5, <2>6 DEF WalkInv, Walked
  <2>8. \A n \in Node : Untouched(n)'
    BY <2>1, <2>4, <2>5, <2>7 DEF Untouched
  <2>9. base' <= Len(log')
    <3>1. SP!IInv'
      BY <1>0, <1>2, <2>1, PutFacts DEF PersistIdentity, Inv
    <3>2. Len(log') \in Nat /\ DOMAIN log' = 1..Len(log')
      BY <3>1 DEF SP!IInv, SP!TypeOK
    <3>3. Len(log) \in Nat /\ DOMAIN log = 1..Len(log) /\ base \in Nat
      BY <1>0, WalkTypes
    <3>4. top \in 1..Len(log')
      BY <2>4, <3>2
    <3>5. QED
      BY <2>3, <2>5, <3>2, <3>3, <3>4 DEF WalkInv, Walked
  <2>10. QED
    BY <2>5, <2>6, <2>8, <2>9 DEF Walked
<1>3. CASE VerifyIdentity
  BY <1>3, QuietWalk DEF VerifyIdentity, storeVars, runVars, InRun
<1>4. CASE SkipCompleted \/ SkipHeld
  <2>1. at \in Node
    BY <1>0, <1>4 DEF SkipCompleted, SkipHeld, Walking, Node
  <2>2. at \in Finished \cup held
    BY <1>0, <1>4, <2>1, CompletedIsProjected DEF SkipCompleted, SkipHeld, Finished
  <2>3. QED
    BY <1>4, <2>1, <2>2, SkipWalks DEF SkipCompleted, SkipHeld, Walking, storeVars
<1>5. CASE RecordBlocked
  <2>1. at \in Node
    BY <1>0, <1>5 DEF RecordBlocked, Walking, Node
  <2>2. projection[at] = NoOutput /\ at \notin held
    BY <1>0, <1>5, <2>1, CompletedIsProjected DEF RecordBlocked
  <2>3. Failure \in Output /\ [consumes |-> {}, class |-> "hold"] \in Meta
    BY <1>0, <2>1, PlanFacts DEF Output
  <2>4. PICK p \in plan[at] : p \notin Completed(log)
    BY <1>5 DEF RecordBlocked, Blocked
  <2>5. p \in Node /\ p \notin Finished
    BY <1>0, <2>1, <2>4, PlanFacts, CompletedIsProjected DEF Finished
  <2>6. Cause(at) = "hold"
    BY <2>4, <2>5 DEF Cause
  <2>7. QED
    BY <1>5, <2>1, <2>2, <2>3, <2>6, PutWalks DEF RecordBlocked, Walking
<1>6. CASE Assemble
  <2>1. at \notin held /\ pc = "walk"
    BY <1>6 DEF Assemble, Dispatching, Walking
  <2>2. QED
    BY <1>6, <2>1, QuietWalk DEF Assemble, storeVars, InRun
<1>7. CASE AssembleFails
  BY <1>7, QuietWalk DEF AssembleFails, storeVars, runVars, InRun
<1>8. CASE IntegrityHolds \/ InvokeRetries \/ \E v \in Value \cup {Unstorable} : InvokeSucceeds(v)
  <2>1. pc \in {"check", "invoke"} /\ pc' \in {"invoke", "admit"} /\ at' = at
        /\ UNCHANGED <<log, projection, base, plan, held>>
    BY <1>8 DEF IntegrityHolds, InvokeRetries, InvokeSucceeds, storeVars
  <2>2. at \notin held
    BY <2>1 DEF WalkInv, Walked, InRun
  <2>3. QED
    BY <2>1, <2>2, QuietWalk DEF InRun
<1>9. CASE IntegrityFails \/ InvokeFails
  BY <1>9, FailsWalks DEF IntegrityFails, InvokeFails
<1>10. CASE Admits
  <2>1. at \in Node /\ projection[at] = NoOutput /\ got \in Value
    BY <1>0, <1>10 DEF Admits, Inv, Dispatched
  <2>2. got \in Output /\ [consumes |-> plan[at], class |-> "none"] \in Meta
    BY <1>0, <2>1, PlanFacts DEF Output
  <2>3. at \notin held
    BY <1>10 DEF Admits, WalkInv, Walked, InRun
  <2>4. QED
    BY <1>10, <2>1, <2>2, <2>3, PutWalks DEF Admits
<1>11. CASE AdmitRaises \/ Crash
  <2>1. UNCHANGED <<log, base>> /\ pc' \in {"raised", "idle"}
    BY <1>11 DEF AdmitRaises, Crash, Store!PutRaises, Store!Reload
  <2>2. QED
    BY <2>1 DEF Walked, WalkInv, InRun
<1>12. CASE Return
  BY <1>0, <1>12, QuietWalk DEF Return, storeVars, runVars, InRun
<1>13. CASE UNCHANGED vars
  <2>1. UNCHANGED <<log, projection, base, plan, held, at, pc>>
    BY <1>13 DEF vars, storeVars, runVars
  <2>2. \A n \in Node : (Accounted(n) => Accounted(n)') /\ (Untouched(n) => Untouched(n)')
    BY <2>1, QuietAccounts
  <2>3. QED
    BY <2>1, <2>2 DEF WalkInv, Walked
<1>14. QED
  BY <1>1, <1>2, <1>3, <1>4, <1>5, <1>6, <1>7, <1>8, <1>9, <1>10, <1>11, <1>12, <1>13
     DEF Next, Step

LEMMA WalkInvExplains == WalkInv => RunExplained
<1> SUFFICES ASSUME WalkInv, pc = "returned", NEW n \in Node
             PROVE  \/ n \in Completed(log)
                    \/ n \in held /\ NewRecords(n) = {}
                    \/ /\ n \notin held
                       /\ \E i \in DOMAIN log :
                            /\ NewRecords(n) = {i}
                            /\ log[i].status = "failed"
                            /\ log[i].meta.class = IF plan[n] \subseteq Completed(log)
                                                     THEN "crash" ELSE "hold"
  BY DEF RunExplained
<1>1. n < at
  <2>1. at \in Nat /\ N \in Nat /\ n \in 1..N
    BY WalkTypes DEF WalkInv, Node
  <2>2. at > N
    BY DEF WalkInv, Walked, InRun
  <2>3. QED
    BY <2>1, <2>2
<1>2. Accounted(n)
  BY <1>1 DEF WalkInv, Walked, InRun
<1>3. \A p \in Node : p \in Finished <=> p \in Completed(log)
  BY CompletedIsProjected DEF WalkInv, Finished
<1>4. plan[n] \subseteq Finished <=> plan[n] \subseteq Completed(log)
  BY <1>3, WalkTypes DEF WalkInv
<1>5. Untouched(n) => NewRecords(n) = {}
  BY DEF Untouched, NewRecords
<1>6. \A i \in DOMAIN log : OnlyNew(n, i) => NewRecords(n) = {i}
  BY DEF OnlyNew, NewRecords
<1>7. QED
  BY <1>2, <1>3, <1>4, <1>5, <1>6 DEF Accounted, FailedOnce, Cause

\* A run that returns accounts for every node of its plan, exactly once: it is
\* completed, it was held and this run wrote nothing about it, or this run
\* recorded one failure for it with the cause it really had.
THEOREM RunsAreExplained == Spec => []RunExplained
<1>1. Init => WalkInv
  <2> SUFFICES ASSUME Init PROVE WalkInv
    OBVIOUS
  <2>1. log = <<>> /\ base = 0 /\ pc = "idle"
    BY DEF Init, Store!Init
  <2>2. Len(log) = 0
    BY <2>1
  <2>3. Walked
    BY <2>1, <2>2 DEF Walked, InRun
  <2>4. QED
    BY <2>3, InitInv DEF WalkInv
<1>2. WalkInv /\ [Next]_vars => WalkInv'
  BY NextInv, NextWalked DEF WalkInv
<1>3. QED
  BY <1>1, <1>2, WalkInvExplains, PTL DEF Spec
=============================================================================
