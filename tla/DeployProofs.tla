---------------------------- MODULE DeployProofs ---------------------------
(***************************************************************************)
(* Proofs about Deploy, for every set of nodes and contents, every map of  *)
(* nodes to runtime names (two nodes may share one), every request and     *)
(* every number of deploys and of deaths.                                  *)
(***************************************************************************)
EXTENDS Deploy, FiniteSetTheorems, TLAPS

(***************************************************************************)
(* The inductive invariant.  A runtime has the name of the node it was     *)
(* created for (Named), which is why an intent for whose name nothing      *)
(* stands covers no runtime.  A deploy at a node has the node's content    *)
(* in hand (AtNode): the runtime it waits for is the one it created, and   *)
(* it confirms and records a runtime that is ready; a runtime that is      *)
(* ready stays as it is.  Before a two-phase create the intent is there.   *)
(***************************************************************************)
Rows == \E S : rows \in Seq(S)
Reservations == \E S : reservations \in Seq(S)
Runtimes == runtimes \in [Name -> Runtime \cup {NoRuntime}]
Walks == deploy \in Requests \cup {NoRequest} /\ \E S : results \in Seq(S)

Named == \A a \in Name : runtimes[a] # NoRuntime => RuntimeName[runtimes[a].node] = a

Covered(k) ==
  \E i \in DOMAIN reservations :
    Identity(reservations[i]) = k /\ Newest(i) /\ reservations[i].status # "compensated"

Mine == runtimes[ThisName] \in Runtime /\ Identity(runtimes[ThisName]) = Content

AtNode ==
  /\ pc \in {"create", "wait", "confirm", "record"} =>
       deploy \in Requests /\ This \in Node /\ deploy.fp[This] \in Fingerprint
  /\ pc \in {"wait", "confirm", "record"} => Mine
  /\ pc \in {"confirm", "record"} => runtimes[ThisName].status = "ready"
  /\ pc = "create" /\ deploy.two_phase => Covered(Content)

IInv ==
  /\ Rows /\ Reservations /\ Runtimes /\ Walks
  /\ Named /\ AtNode /\ RowsAreReady /\ IntentCoversCreate

LEMMA Grows ==
  ASSUME NEW S, NEW s \in Seq(S), NEW e
  PROVE  /\ Append(s, e) \in Seq(S \cup {e})
         /\ DOMAIN Append(s, e) = DOMAIN s \cup {Len(s) + 1}
         /\ Append(s, e)[Len(s) + 1] = e
         /\ \A i \in DOMAIN s : Append(s, e)[i] = s[i] /\ i \in Nat /\ i < Len(s) + 1
         /\ Len(s) + 1 \in Nat
<1>2. s \in Seq(S \cup {e}) /\ e \in S \cup {e}
  OBVIOUS
<1>3. Append(s, e) \in Seq(S \cup {e})
  BY <1>2
<1>4. QED
  BY <1>2, <1>3

\* An entry of the ledger is the newest of its key, and leaves the other keys
\* as they were.
LEMMA ReservedFacts ==
  ASSUME Reservations, NEW k, NEW s, Reserved(k, s)
  PROVE  /\ Reservations'
         /\ s # "compensated" => Covered([node |-> k.node, fp |-> k.fp])'
         /\ \A c : Covered(c) /\ c # [node |-> k.node, fp |-> k.fp] => Covered(c)'
<1>1. PICK entry, top :
        /\ entry = [node |-> k.node, fp |-> k.fp, status |-> s]
        /\ top = Len(reservations) + 1
  OBVIOUS
<1>2. /\ Reservations'
      /\ DOMAIN reservations' = DOMAIN reservations \cup {top}
      /\ reservations'[top] = entry
      /\ \A i \in DOMAIN reservations : reservations'[i] = reservations[i] /\ i \in Nat /\ i < top
      /\ top \in Nat
  <2>1. reservations' = Append(reservations, entry)
    BY <1>1 DEF Reserved
  <2>2. PICK S : reservations \in Seq(S)
    BY DEF Reservations
  <2>3. /\ reservations' \in Seq(S \cup {entry})
        /\ DOMAIN reservations' = DOMAIN reservations \cup {Len(reservations) + 1}
        /\ reservations'[Len(reservations) + 1] = entry
        /\ \A i \in DOMAIN reservations :
             reservations'[i] = reservations[i] /\ i \in Nat /\ i < Len(reservations) + 1
        /\ Len(reservations) + 1 \in Nat
    BY <2>1, <2>2, Grows
  <2>4. QED
    BY <1>1, <2>3 DEF Reservations
<1>3. Identity(entry) = [node |-> k.node, fp |-> k.fp] /\ entry.status = s
  BY <1>1 DEF Identity
<1>4. Newest(top)'
  BY <1>2 DEF Newest
<1>5. s # "compensated" => Covered([node |-> k.node, fp |-> k.fp])'
  BY <1>2, <1>3, <1>4 DEF Covered
<1>6. ASSUME NEW c, Covered(c), c # [node |-> k.node, fp |-> k.fp]
      PROVE  Covered(c)'
  <2>1. PICK i \in DOMAIN reservations :
          Identity(reservations[i]) = c /\ Newest(i) /\ reservations[i].status # "compensated"
    BY <1>6 DEF Covered
  <2>2. Newest(i)'
    BY <2>1, <1>2, <1>3, <1>6 DEF Newest
  <2>3. QED
    BY <2>1, <2>2, <1>2 DEF Covered
<1>7. QED
  BY <1>2, <1>5, <1>6

\* IntentCoversCreate, said with Covered.
LEMMA CoversCreate ==
  IntentCoversCreate <=>
    \A a \in Name : runtimes[a] # NoRuntime /\ runtimes[a].two_phase => Covered(Identity(runtimes[a]))
BY DEF IntentCoversCreate, Covered

\* A step of the ledger's second phase that does not compensate.
LEMMA PhaseKeeps ==
  ASSUME IInv, NEW k, NEW s, s # "compensated", Reserved(k, s), UNCHANGED runtimes
  PROVE  IntentCoversCreate' /\ Reservations' /\ Covered([node |-> k.node, fp |-> k.fp])'
<1>1. /\ Reservations'
      /\ Covered([node |-> k.node, fp |-> k.fp])'
      /\ \A c : Covered(c) => Covered(c)'
  BY ReservedFacts DEF IInv
<1>2. \A a \in Name :
        runtimes'[a] # NoRuntime /\ runtimes'[a].two_phase => Covered(Identity(runtimes[a]))'
  BY <1>1, CoversCreate DEF IInv
<1>3. IntentCoversCreate'
  BY <1>2 DEF IntentCoversCreate, Covered, Identity
<1>4. QED
  BY <1>1, <1>3

-----------------------------------------------------------------------------
(* The steps, each of which keeps IInv. *)

Busy == {"create", "wait", "confirm", "record"}

LEMMA InitIInv == Init => IInv
<1> SUFFICES ASSUME Init PROVE IInv
  OBVIOUS
<1>1. rows \in Seq({}) /\ reservations \in Seq({}) /\ results \in Seq({})
  BY DEF Init
<1>2. rows = <<>> /\ reservations = <<>> /\ pc = "idle" /\ deploy = NoRequest
      /\ runtimes = [a \in Name |-> NoRuntime]
  BY DEF Init
<1>3. Rows /\ Reservations /\ Runtimes /\ Walks
  BY <1>1, <1>2 DEF Rows, Reservations, Runtimes, Walks
<1>4. Named /\ AtNode /\ RowsAreReady /\ IntentCoversCreate
  BY <1>2 DEF Named, AtNode, RowsAreReady, IntentCoversCreate
<1>5. QED
  BY <1>3, <1>4 DEF IInv

\* A deploy moves on, away from any create, and leaves ledger and cloud alone.
LEMMA AwayKeeps ==
  ASSUME IInv, UNCHANGED <<ledger, runtimes>>, Walks', pc' \notin Busy
  PROVE  IInv'
<1>1. UNCHANGED <<rows, reservations, runtimes>>
  BY DEF ledger
<1>2. AtNode'
  BY DEF AtNode, Busy
<1>3. QED
  BY <1>1, <1>2 DEF IInv, Rows, Reservations, Runtimes, Named, RowsAreReady, IntentCoversCreate,
                    Newest, Identity

LEMMA DoneWalks ==
  ASSUME IInv, NEW action, Done(action)
  PROVE  (\E S : results' \in Seq(S)) /\ pc' \notin Busy
<1>1. results' = Append(results, [node |-> This, action |-> action])
  BY DEF Done
<1>2. PICK S : results \in Seq(S)
  BY DEF IInv, Walks
<1>3. results' \in Seq(S \cup {[node |-> This, action |-> action]})
  BY <1>1, <1>2, Grows
<1>4. QED
  BY <1>3 DEF Done, Busy

LEMMA IdleWalks ==
  ASSUME Idle
  PROVE  Walks' /\ pc' \notin Busy
<1>1. results' = <<>> /\ results' \in Seq({}) /\ deploy' = NoRequest /\ pc' = "idle"
  BY DEF Idle
<1>2. QED
  BY <1>1 DEF Walks, Busy

LEMMA WalkKeeps ==
  ASSUME IInv,
         \/ \E d \in Requests : Start(d)
         \/ Reconciled \/ WalkEnds \/ End \/ Reuse \/ Hold
         \/ PrepareFails \/ PrepareRaises \/ CreateFails \/ NotReady \/ Crash
  PROVE  IInv'
<1>1. CASE \E d \in Requests : Start(d)
  BY <1>1, AwayKeeps DEF Start, Walks, IInv, Busy
<1>2. CASE Reconciled \/ WalkEnds
  BY <1>2, AwayKeeps DEF Reconciled, WalkEnds, Walks, IInv, Busy
<1>3. CASE End \/ PrepareRaises \/ Crash
  BY <1>3, IdleWalks, AwayKeeps DEF End, PrepareRaises, Crash
<1>4. CASE Reuse
  <2>1. Done("reused") /\ UNCHANGED <<ledger, runtimes, deploy>>
    BY <1>4 DEF Reuse
  <2>2. QED
    BY <2>1, DoneWalks, AwayKeeps DEF IInv, Walks
<1>5. CASE Hold
  <2>1. Done("escalated") /\ UNCHANGED <<ledger, runtimes, deploy>>
    BY <1>5 DEF Hold
  <2>2. QED
    BY <2>1, DoneWalks, AwayKeeps DEF IInv, Walks
<1>6. CASE PrepareFails \/ CreateFails \/ NotReady
  <2>1. Done("failed") /\ UNCHANGED <<ledger, runtimes, deploy>>
    BY <1>6 DEF PrepareFails, CreateFails, NotReady, Failed
  <2>2. QED
    BY <2>1, DoneWalks, AwayKeeps DEF IInv, Walks
<1>7. QED
  BY <1>1, <1>2, <1>3, <1>4, <1>5, <1>6

\* Reconciling: an intent is confirmed, or it is compensated and nothing stands
\* under the name of its node.
LEMMA ReconcileKeeps ==
  ASSUME IInv, Adopt \/ Compensate
  PROVE  IInv'
<1>1. /\ UNCHANGED <<rows, runtimes, deploy, pc, results>>
      /\ pc = "reconcile"
  BY DEF Adopt, Compensate
<1>2. Rows' /\ Runtimes' /\ Walks' /\ Named' /\ RowsAreReady' /\ AtNode'
  BY <1>1 DEF IInv, Rows, Runtimes, Walks, Named, RowsAreReady, AtNode
<1>3. CASE Adopt
  <2>1. Reserved(Head(pending), "confirmed")
    BY <1>3 DEF Adopt
  <2>2. QED
    BY <1>1, <1>2, <2>1, PhaseKeeps DEF IInv
<1>4. CASE Compensate
  <2>1. PICK k : k = Head(pending)
    OBVIOUS
  <2>2. Reserved(k, "compensated") /\ runtimes[RuntimeName[k.node]] = NoRuntime
    BY <1>4, <2>1 DEF Compensate
  <2>3. Reservations' /\ \A c : Covered(c) /\ c # [node |-> k.node, fp |-> k.fp] => Covered(c)'
    BY <2>2, ReservedFacts DEF IInv
  <2>4. ASSUME NEW a \in Name, runtimes[a] # NoRuntime, runtimes[a].two_phase
        PROVE  Covered(Identity(runtimes[a]))'
    <3>1. Covered(Identity(runtimes[a]))
      BY <2>4, CoversCreate DEF IInv
    <3>2. RuntimeName[runtimes[a].node] = a
      BY <2>4 DEF IInv, Named
    <3>3. Identity(runtimes[a]) # [node |-> k.node, fp |-> k.fp]
      BY <3>2, <2>2, <2>4 DEF Identity
    <3>4. \A c : c = Identity(runtimes[a]) => Covered(c)'
      BY <3>1, <3>3, <2>3
    <3>5. QED
      BY <3>4, <1>1 DEF Covered, Identity
  <2>5. IntentCoversCreate'
    BY <2>4, <1>1 DEF IntentCoversCreate, Covered
  <2>6. QED
    BY <1>2, <2>3, <2>5 DEF IInv
<1>5. QED
  BY <1>3, <1>4

-----------------------------------------------------------------------------
(* The steps at a node. *)

LEMMA VisitingFacts ==
  ASSUME IInv, Visiting
  PROVE  deploy \in Requests /\ This \in Node /\ deploy.fp[This] \in Fingerprint
<1>1. PICK S : results \in Seq(S)
  BY DEF IInv, Walks
<1>2. Len(results) \in Nat /\ Len(results) < Len(deploy.plan)
  BY <1>1 DEF Visiting
<1>3. deploy \in Requests
  BY <1>2 DEF IInv, Walks, NoRequest
<1>4. deploy.plan \in Seq(Node) /\ deploy.fp \in [Node -> Fingerprint]
  BY <1>3, DeployAssumption
<1>5. Len(results) + 1 \in 1..Len(deploy.plan)
  BY <1>2, <1>4
<1>6. This \in Node
  BY <1>4, <1>5 DEF This
<1>7. QED
  BY <1>3, <1>4, <1>6

LEMMA ReserveKeeps ==
  ASSUME IInv, Reserve
  PROVE  IInv'
<1>1. /\ Visiting
      /\ UNCHANGED <<rows, runtimes, deploy, results>>
      /\ pc' = "create"
  BY DEF Reserve, Cleared
<1>2. /\ deploy \in Requests /\ This \in Node /\ deploy.fp[This] \in Fingerprint
  BY <1>1, VisitingFacts
<1>3. Rows' /\ Runtimes' /\ Walks' /\ Named' /\ RowsAreReady'
  BY <1>1 DEF IInv, Rows, Runtimes, Walks, Named, RowsAreReady
<1>4. This' = This /\ Content' = Content
  BY <1>1 DEF This, Content
<1>5. CASE deploy.two_phase
  <2>1. PICK c : c = Content
    OBVIOUS
  <2>2. Reserved(c, "reserving") /\ c = [node |-> c.node, fp |-> c.fp]
    BY <1>5, <2>1 DEF Reserve, Content
  <2>3. IntentCoversCreate' /\ Reservations' /\ Covered(c)'
    BY <2>2, <1>1, PhaseKeeps
  <2>4. Covered(Content)'
    BY <2>1, <2>3, <1>4 DEF Covered
  <2>5. AtNode'
    BY <1>1, <1>2, <1>4, <2>4 DEF AtNode
  <2>6. QED
    BY <1>3, <2>3, <2>5 DEF IInv
<1>6. CASE ~deploy.two_phase
  <2>1. UNCHANGED reservations
    BY <1>6 DEF Reserve
  <2>2. Reservations' /\ IntentCoversCreate'
    BY <2>1, <1>1 DEF IInv, Reservations, IntentCoversCreate, Newest, Identity
  <2>3. AtNode'
    BY <1>1, <1>2, <1>4, <1>6 DEF AtNode
  <2>4. QED
    BY <1>3, <2>2, <2>3 DEF IInv
<1>7. QED
  BY <1>5, <1>6

\* A runtime comes to be; everything that stands stays.
LEMMA CreatesFacts ==
  ASSUME IInv, Creates, UNCHANGED <<ledger, deploy>>
  PROVE  /\ Rows' /\ Reservations' /\ Runtimes' /\ Named' /\ RowsAreReady' /\ IntentCoversCreate'
         /\ runtimes'[ThisName] \in Runtime /\ Identity(runtimes'[ThisName]) = Content
         /\ deploy \in Requests /\ This \in Node /\ deploy.fp[This] \in Fingerprint
<1>1. /\ pc = "create"
      /\ runtimes[ThisName] = NoRuntime
      /\ runtimes' = [runtimes EXCEPT ![ThisName] = NewRuntime]
      /\ UNCHANGED <<rows, reservations, deploy>>
  BY DEF Creates, ledger
<1>2. deploy \in Requests /\ This \in Node /\ deploy.fp[This] \in Fingerprint
  BY <1>1 DEF IInv, AtNode
<1>3. ThisName \in Name
  BY <1>2 DEF ThisName, Name
<1>4. deploy.two_phase \in BOOLEAN
  BY <1>2, DeployAssumption
<1>5. /\ NewRuntime \in Runtime
      /\ NewRuntime.node = This /\ NewRuntime.fp = deploy.fp[This]
      /\ NewRuntime.two_phase = deploy.two_phase
      /\ NewRuntime.status = "creating"
  BY <1>2, <1>4 DEF NewRuntime, Runtime
<1>6. /\ Runtimes'
      /\ runtimes'[ThisName] = NewRuntime
      /\ \A a \in Name : a # ThisName => runtimes'[a] = runtimes[a]
  BY <1>1, <1>3, <1>5 DEF IInv, Runtimes
<1>7. NewRuntime # NoRuntime
  BY <1>5 DEF NoRuntime
<1>8. Named'
  BY <1>5, <1>6 DEF IInv, Named, ThisName
<1>9. ASSUME NEW i \in DOMAIN rows
      PROVE  runtimes'[rows[i].arn] = runtimes[rows[i].arn]
  <2>1. runtimes[rows[i].arn].status = "ready"
    BY DEF IInv, RowsAreReady
  <2>2. rows[i].arn # ThisName
    BY <2>1, <1>1 DEF NoRuntime
  <2>3. QED
    BY <2>2, <1>1
<1>10. RowsAreReady'
  BY <1>1, <1>9 DEF IInv, RowsAreReady
<1>11. Identity(NewRuntime) = Content
  BY <1>5 DEF Identity, Content
<1>12. deploy.two_phase => Covered(Content)
  BY <1>1 DEF IInv, AtNode
<1>13. ASSUME NEW a \in Name, runtimes'[a] # NoRuntime, runtimes'[a].two_phase
       PROVE  Covered(Identity(runtimes'[a]))
  <2>1. CASE a = ThisName
    BY <2>1, <1>13, <1>5, <1>6, <1>11, <1>12
  <2>2. CASE a # ThisName
    BY <2>2, <1>13, <1>6, CoversCreate DEF IInv
  <2>3. QED
    BY <2>1, <2>2
<1>14. IntentCoversCreate'
  BY <1>13, <1>1 DEF IntentCoversCreate, Covered, Newest, Identity
<1>15. Rows' /\ Reservations'
  BY <1>1 DEF IInv, Rows, Reservations
<1> HIDE DEF NewRuntime
<1>16. QED
  BY <1>2, <1>5, <1>6, <1>8, <1>10, <1>11, <1>14, <1>15

LEMMA CreateKeeps ==
  ASSUME IInv, Create
  PROVE  IInv'
<1>1. Creates /\ UNCHANGED <<ledger, deploy, results>> /\ pc' = "wait"
  BY DEF Create
<1>2. This' = This /\ ThisName' = ThisName /\ Content' = Content
  BY <1>1 DEF This, ThisName, Content
<1>3. AtNode'
  BY <1>1, <1>2, CreatesFacts DEF AtNode, Mine, Identity
<1>4. Walks'
  BY <1>1 DEF IInv, Walks
<1>5. QED
  BY <1>1, <1>3, <1>4, CreatesFacts DEF IInv

LEMMA CreateResponseLostKeeps ==
  ASSUME IInv, CreateResponseLost
  PROVE  IInv'
<1>1. Creates /\ Done("failed") /\ UNCHANGED <<ledger, deploy>>
  BY DEF CreateResponseLost, Failed
<1>2. Walks' /\ pc' \notin Busy
  BY <1>1, DoneWalks DEF IInv, Walks
<1>3. AtNode'
  BY <1>2 DEF AtNode, Busy
<1>4. QED
  BY <1>1, <1>2, <1>3, CreatesFacts DEF IInv

LEMMA ReadyKeeps ==
  ASSUME IInv, Ready
  PROVE  IInv'
<1>1. /\ pc = "wait" /\ runtimes[ThisName].status = "ready"
      /\ pc' = "confirm"
      /\ UNCHANGED <<rows, reservations, runtimes, deploy, results>>
  BY DEF Ready, ledger
<1>2. This' = This /\ ThisName' = ThisName /\ Content' = Content
  BY <1>1 DEF This, ThisName, Content
<1>3. AtNode'
  BY <1>1, <1>2 DEF IInv, AtNode, Mine, Identity
<1>4. QED
  BY <1>1, <1>3 DEF IInv, Rows, Reservations, Runtimes, Walks, Named, RowsAreReady,
                    IntentCoversCreate, Newest, Identity

LEMMA ConfirmKeeps ==
  ASSUME IInv, Confirm
  PROVE  IInv'
<1>1. /\ pc = "confirm" /\ pc' = "record"
      /\ UNCHANGED <<rows, runtimes, deploy, results>>
  BY DEF Confirm
<1>2. This' = This /\ ThisName' = ThisName /\ Content' = Content
  BY <1>1 DEF This, ThisName, Content
<1>3. AtNode'
  BY <1>1, <1>2 DEF IInv, AtNode, Mine, Identity
<1>4. Rows' /\ Runtimes' /\ Walks' /\ Named' /\ RowsAreReady'
  BY <1>1 DEF IInv, Rows, Runtimes, Walks, Named, RowsAreReady
<1>5. CASE Reserved(Content, "confirmed")
  BY <1>1, <1>3, <1>4, <1>5, PhaseKeeps DEF IInv
<1>6. CASE UNCHANGED reservations
  BY <1>1, <1>3, <1>4, <1>6 DEF IInv, Reservations, IntentCoversCreate, Newest, Identity
<1>7. QED
  BY <1>5, <1>6 DEF Confirm

LEMMA RecordKeeps ==
  ASSUME IInv, Record
  PROVE  IInv'
<1>1. PICK row : row = [node |-> This, fp |-> deploy.fp[This], arn |-> ThisName]
  OBVIOUS
<1>2. /\ pc = "record"
      /\ rows' = Append(rows, row)
      /\ Done("created")
      /\ UNCHANGED <<reservations, runtimes, deploy>>
  BY <1>1 DEF Record
<1>3. PICK S : rows \in Seq(S)
  BY DEF IInv, Rows
<1>4. /\ \E T : rows' \in Seq(T)
      /\ DOMAIN rows' = DOMAIN rows \cup {Len(rows) + 1}
      /\ rows'[Len(rows) + 1] = row
      /\ \A i \in DOMAIN rows : rows'[i] = rows[i]
  <2>1. rows' = Append(rows, row)
    BY <1>2
  <2>2. /\ rows' \in Seq(S \cup {row})
        /\ DOMAIN rows' = DOMAIN rows \cup {Len(rows) + 1}
        /\ rows'[Len(rows) + 1] = row
        /\ \A i \in DOMAIN rows : rows'[i] = rows[i] /\ i \in Nat /\ i < Len(rows) + 1
        /\ Len(rows) + 1 \in Nat
    BY <2>1, <1>3, Grows
  <2>3. QED
    BY <2>2
<1>5. /\ runtimes[ThisName].status = "ready"
      /\ runtimes[ThisName].node = This /\ runtimes[ThisName].fp = deploy.fp[This]
  BY <1>2 DEF IInv, AtNode, Mine, Identity, Content
<1>6. RowsAreReady'
  BY <1>1, <1>2, <1>4, <1>5 DEF IInv, RowsAreReady
<1>7. Walks' /\ pc' \notin Busy
  BY <1>2, DoneWalks DEF IInv, Walks
<1>8. AtNode'
  BY <1>7 DEF AtNode, Busy
<1>9. Rows'
  BY <1>4 DEF Rows
<1>10. Reservations' /\ Runtimes' /\ Named' /\ IntentCoversCreate'
  BY <1>2 DEF IInv, Reservations, Runtimes, Named, IntentCoversCreate, Newest, Identity
<1>11. QED
  BY <1>6, <1>7, <1>8, <1>9, <1>10 DEF IInv

\* The control plane settles what is being created, and nothing that is ready.
LEMMA SettleKeeps ==
  ASSUME IInv, NEW a \in Name, NEW s \in {"ready", "failed"}, Settle(a, s)
  PROVE  IInv'
<1>1. /\ runtimes[a].status = "creating"
      /\ runtimes' = [runtimes EXCEPT ![a].status = s]
      /\ UNCHANGED <<rows, reservations, deploy, pc, results>>
  BY DEF Settle, ledger
<1>2. runtimes[a] \in Runtime
  BY <1>1 DEF IInv, Runtimes, NoRuntime
<1>3. PICK r : r = [runtimes[a] EXCEPT !.status = s]
  OBVIOUS
<1>4. /\ r \in Runtime /\ r.status = s
      /\ r.node = runtimes[a].node /\ r.fp = runtimes[a].fp
      /\ r.two_phase = runtimes[a].two_phase
  BY <1>2, <1>3 DEF Runtime
<1>5. /\ Runtimes'
      /\ runtimes'[a] = r
      /\ \A b : b # a => runtimes'[b] = runtimes[b]
  BY <1>1, <1>3, <1>4 DEF IInv, Runtimes
<1>6. r # NoRuntime /\ runtimes[a] # NoRuntime
  BY <1>1, <1>4 DEF NoRuntime
<1>7. Named'
  BY <1>4, <1>5, <1>6 DEF IInv, Named
<1>8. This' = This /\ ThisName' = ThisName /\ Content' = Content
  BY <1>1 DEF This, ThisName, Content
<1>9. Mine => Mine'
  BY <1>4, <1>5, <1>8 DEF Mine, Identity
<1>10. Covered(Content) => Covered(Content)'
  BY <1>1, <1>8 DEF Covered, Newest, Identity
<1>11. runtimes[ThisName].status = "ready" => runtimes'[ThisName].status = "ready"
  BY <1>1, <1>5
<1>12. AtNode'
  BY <1>1, <1>8, <1>9, <1>10, <1>11 DEF IInv, AtNode
<1>13. RowsAreReady'
  BY <1>1, <1>5 DEF IInv, RowsAreReady
<1>14. ASSUME NEW b \in Name, runtimes'[b] # NoRuntime, runtimes'[b].two_phase
       PROVE  Covered(Identity(runtimes'[b]))
  <2>1. runtimes[b] # NoRuntime /\ runtimes[b].two_phase /\ Identity(runtimes'[b]) = Identity(runtimes[b])
    BY <1>14, <1>4, <1>5, <1>6 DEF Identity
  <2>2. QED
    BY <2>1, CoversCreate DEF IInv
<1>15. IntentCoversCreate'
  BY <1>14, <1>1 DEF IntentCoversCreate, Covered, Newest, Identity
<1>16. Rows' /\ Reservations' /\ Walks'
  BY <1>1 DEF IInv, Rows, Reservations, Walks
<1>17. QED
  BY <1>5, <1>7, <1>12, <1>13, <1>15, <1>16 DEF IInv

LEMMA NextIInv == IInv /\ [Next]_vars => IInv'
<1> SUFFICES ASSUME IInv, [Next]_vars PROVE IInv'
  OBVIOUS
<1>1. CASE Step
  BY <1>1, WalkKeeps, ReconcileKeeps, ReserveKeeps, CreateKeeps, CreateResponseLostKeeps,
     ReadyKeeps, ConfirmKeeps, RecordKeeps DEF Step
<1>2. CASE Crash \/ \E d \in Requests : Start(d)
  BY <1>2, WalkKeeps
<1>3. CASE \E a \in Name, s \in {"ready", "failed"} : Settle(a, s)
  BY <1>3, SettleKeeps
<1>4. CASE UNCHANGED vars
  <2>1. UNCHANGED <<rows, reservations, runtimes, deploy, pc, results>>
    BY <1>4 DEF vars, ledger
  <2>2. This' = This /\ ThisName' = ThisName /\ Content' = Content
    BY <2>1 DEF This, ThisName, Content
  <2>3. AtNode'
    BY <2>1, <2>2 DEF IInv, AtNode, Mine, Covered, Newest, Identity
  <2>4. QED
    BY <2>1, <2>3 DEF IInv, Rows, Reservations, Runtimes, Walks, Named, RowsAreReady,
                      IntentCoversCreate, Newest, Identity
<1>5. QED
  BY <1>1, <1>2, <1>3, <1>4 DEF Next

\* A row of the ledger is a runtime that has become ready and runs that node's
\* content: what a later deploy reuses without looking (provision_agent).
THEOREM RowsStand == Spec => []RowsAreReady
<1>1. IInv => RowsAreReady
  BY DEF IInv
<1>2. QED
  BY <1>1, InitIInv, NextIInv, PTL DEF Spec

\* Wherever a two-phase deploy dies, the ledger knows of every runtime it
\* created: the intent is open or confirmed (reserve, reconcile_reservations).
THEOREM IntentsCover == Spec => []IntentCoversCreate
<1>1. IInv => IntentCoversCreate
  BY DEF IInv
<1>2. QED
  BY <1>1, InitIInv, NextIInv, PTL DEF Spec
-----------------------------------------------------------------------------
(***************************************************************************)
(* The intents.  An open intent is a key whose newest entry is reserving.  *)
(* Along the walk the results are those of the plan's first nodes          *)
(* (Visited), and a plan names a node once, so that a node at hand has no  *)
(* result yet.  What is still to be reconciled is what is open, each key   *)
(* once (Reconciling).  After that, what is open belongs to the node at    *)
(* hand, until its create is confirmed, or to one that has failed (Owned). *)
(***************************************************************************)
Entry == [node : Node, fp : Fingerprint, status : {"reserving", "confirmed", "compensated"}]

Open(k) ==
  \E i \in DOMAIN reservations :
    Identity(reservations[i]) = k /\ Newest(i) /\ reservations[i].status = "reserving"

Creating == {"create", "wait", "confirm"}

Visited ==
  /\ IF pc = "idle" THEN results = <<>> ELSE deploy \in Requests
  /\ \E S : results \in Seq(S)
  /\ \A j \in DOMAIN results : results[j].node = deploy.plan[j]
  /\ pc \in Busy => Len(results) < Len(deploy.plan)

Reconciling ==
  /\ pc # "reconcile" => pending = <<>>
  /\ \A i, j \in DOMAIN pending : pending[i] = pending[j] => i = j
  /\ \A i \in DOMAIN pending : Open(pending[i])
  /\ pc = "reconcile" /\ deploy.two_phase =>
       \A k \in Key : Open(k) => \E i \in DOMAIN pending : pending[i] = k

HasFailed(n) == \E j \in DOMAIN results : results[j] = [node |-> n, action |-> "failed"]

Owned ==
  /\ pc \in Creating /\ deploy.two_phase => Open(Content)
  /\ pc \notin {"idle", "reconcile"} /\ deploy.two_phase =>
       \A k \in Key : Open(k) => (pc \in Creating /\ k = Content) \/ HasFailed(k.node)

SInv == TypeOK /\ IntentsAlternate /\ Visited /\ Reconciling /\ Owned

\* pending_reservations lists what is open, each key once.
LEMMA PendingIsOpen ==
  ASSUME reservations \in Seq(Entry)
  PROVE  /\ Pending \in Seq(Key)
         /\ \A i, j \in DOMAIN Pending : Pending[i] = Pending[j] => i = j
         /\ \A i \in DOMAIN Pending : Open(Pending[i])
         /\ \A k : Open(k) => \E i \in DOMAIN Pending : Pending[i] = k
<1> DEFINE open == {i \in DOMAIN reservations : Newest(i) /\ reservations[i].status = "reserving"}
           upto(i) == {j \in open : j <= i}
           rank == [i \in DOMAIN reservations |-> Cardinality(upto(i))]
           n == Cardinality(open)
           key(k) == Identity(reservations[CHOOSE i \in open : rank[i] = k])
<1>1. DOMAIN reservations = 1..Len(reservations) /\ Len(reservations) \in Nat
  OBVIOUS
<1>2. IsFiniteSet(open) /\ n \in Nat
  <2>1. IsFiniteSet(1..Len(reservations))
    BY <1>1, FS_Interval
  <2>2. open \in SUBSET (1..Len(reservations))
    BY <1>1
  <2> HIDE DEF open
  <2>3. QED
    BY <2>1, <2>2, FS_Subset, FS_CardinalityType
<1>3. \A i \in open : rank[i] \in 1..n
  <2>1. SUFFICES ASSUME NEW i \in open PROVE Cardinality(upto(i)) \in 1..n
    OBVIOUS
  <2>2. upto(i) \in SUBSET open /\ i \in upto(i)
    BY <1>1
  <2> HIDE DEF upto, open
  <2>3. IsFiniteSet(upto(i)) /\ Cardinality(upto(i)) <= n
    BY <1>2, <2>2, FS_Subset
  <2>4. Cardinality(upto(i)) \in Nat /\ Cardinality(upto(i)) # 0
    BY <2>2, <2>3, FS_CardinalityType, FS_EmptySet
  <2>5. QED
    BY <1>2, <2>3, <2>4
<1>4. \A i, j \in open : rank[i] = rank[j] => i = j
  <2>1. SUFFICES ASSUME NEW i \in open, NEW j \in open, i < j, rank[i] = rank[j] PROVE FALSE
    BY <1>1
  <2>2. upto(i) \in SUBSET upto(j) /\ j \in upto(j) /\ j \notin upto(i) /\ upto(j) \in SUBSET open
    BY <1>1, <2>1
  <2>3. Cardinality(upto(i)) = Cardinality(upto(j))
    BY <2>1
  <2> HIDE DEF upto, open
  <2>4. IsFiniteSet(upto(j))
    BY <1>2, <2>2, FS_Subset
  <2>5. QED
    BY <2>2, <2>3, <2>4, FS_Subset
<1>5. \A k \in 1..n : \E i \in open : rank[i] = k
  <2> DEFINE f == [i \in open |-> rank[i]]
  <2>1. f \in Injection(open, 1..n)
    <3> HIDE DEF open, rank
    <3>1. f \in [open -> 1..n]
      BY <1>3
    <3>2. \A i, j \in open : f[i] = f[j] => i = j
      BY <1>4
    <3>3. QED
      BY <3>1, <3>2 DEF Injection, IsInjective
  <2>2. IsFiniteSet(1..n) /\ Cardinality(1..n) = n
    BY <1>2, FS_Interval
  <2>3. f \in Surjection(open, 1..n)
    <3> HIDE DEF f, open
    <3>1. QED
      BY <2>1, <2>2, FS_Injection
  <2>4. QED
    BY <2>3 DEF Surjection
<1>6. Pending = [k \in 1..n |-> key(k)]
  BY DEF Pending
<1>7. ASSUME NEW k \in 1..n
      PROVE  \E i \in open : rank[i] = k /\ key(k) = Identity(reservations[i])
  <2> HIDE DEF open, rank
  <2>1. QED
    BY <1>5
<1>8. \A i \in open : Identity(reservations[i]) \in Key
  <2>1. \A i \in open : reservations[i] \in Entry
    BY <1>1
  <2>2. QED
    BY <2>1 DEF Entry, Identity, Key
<1>9. \A k \in 1..n : key(k) \in Key
  <2> HIDE DEF open, rank, key
  <2>1. QED
    BY <1>7, <1>8
<1>10. \A i \in open : rank[i] \in 1..n /\ key(rank[i]) = Identity(reservations[i])
  <2> HIDE DEF open, rank, key
  <2>1. QED
    BY <1>3, <1>4, <1>7
<1>11. \A i, j \in open : Identity(reservations[i]) = Identity(reservations[j]) => i = j
  <2>1. SUFFICES ASSUME NEW i \in open, NEW j \in open,
                        Identity(reservations[i]) = Identity(reservations[j])
                 PROVE  i = j
    OBVIOUS
  <2>2. i <= j /\ j <= i /\ i \in Nat /\ j \in Nat
    BY <1>1, <2>1 DEF Newest
  <2>3. QED
    BY <2>2
<1>12. \A k : Open(k) <=> \E i \in open : Identity(reservations[i]) = k
  BY DEF Open
<1> HIDE DEF open, rank, n, key
<1>13. Pending \in Seq(Key) /\ DOMAIN Pending = 1..n /\ \A k \in 1..n : Pending[k] = key(k)
  BY <1>2, <1>6, <1>9
<1>14. \A i, j \in 1..n : key(i) = key(j) => i = j
  BY <1>7, <1>11
<1>15. \A i \in 1..n : Open(key(i))
  BY <1>7, <1>12
<1>16. \A k : Open(k) => \E i \in 1..n : key(i) = k
  BY <1>10, <1>12
<1>17. QED
  BY <1>13, <1>14, <1>15, <1>16

\* What a new entry does to the open intents: it decides its key's, and the
\* entries of that key go on alternating.
LEMMA EntryFacts ==
  ASSUME reservations \in Seq(Entry), IntentsAlternate, NEW k \in Key,
         NEW s \in {"reserving", "confirmed", "compensated"}, Reserved(k, s),
         s = "reserving" <=> ~Open(k)
  PROVE  /\ reservations' \in Seq(Entry)
         /\ IntentsAlternate'
         /\ \A c : Open(c)' <=> IF c = k THEN s = "reserving" ELSE Open(c)
<1>0. PICK e, top : e = [node |-> k.node, fp |-> k.fp, status |-> s] /\ top = Len(reservations) + 1
  OBVIOUS
<1>1. e \in Entry /\ Identity(e) = k /\ e.status = s
  BY <1>0 DEF Entry, Key, Identity
<1>2. /\ reservations' \in Seq(Entry)
      /\ DOMAIN reservations' = DOMAIN reservations \cup {top} /\ top \in Nat
      /\ reservations'[top] = e
      /\ \A i \in DOMAIN reservations : reservations'[i] = reservations[i] /\ i \in Nat /\ i < top
      /\ DOMAIN reservations = 1..(top - 1)
  <2>1. reservations' = Append(reservations, e)
    BY <1>0 DEF Reserved
  <2>2. QED
    BY <1>0, <1>1, <2>1
<1>3. /\ Newest(top)'
      /\ \A i \in DOMAIN reservations : Newest(i)' <=> Newest(i) /\ Identity(reservations[i]) # k
  <2>1. Newest(top)'
    BY <1>2 DEF Newest
  <2>2. ASSUME NEW i \in DOMAIN reservations
        PROVE  Newest(i)' <=> Newest(i) /\ Identity(reservations[i]) # k
    <3>1. Identity(reservations'[i]) = Identity(reservations[i])
      BY <1>2
    <3>2. Identity(reservations'[top]) = k
      BY <1>1, <1>2
    <3>3. \A j \in DOMAIN reservations : Identity(reservations'[j]) = Identity(reservations[j])
      BY <1>2
    <3>4. Newest(i)' <=> \A j \in DOMAIN reservations \cup {top} :
                           Identity(reservations'[j]) = Identity(reservations[i]) => j <= i
      BY <1>2, <3>1 DEF Newest
    <3>5. ~(top <= i)
      BY <1>2
    <3>6. QED
      BY <3>2, <3>3, <3>4, <3>5 DEF Newest
  <2>3. QED
    BY <2>1, <2>2
<1>4. ASSUME NEW c PROVE Open(c)' <=> IF c = k THEN s = "reserving" ELSE Open(c)
  <2>1. Open(c)' <=> \E i \in DOMAIN reservations \cup {top} :
                       Identity(reservations'[i]) = c /\ Newest(i)'
                       /\ reservations'[i].status = "reserving"
    BY <1>2 DEF Open
  <2>2. CASE c = k
    BY <1>1, <1>2, <1>3, <2>1, <2>2 DEF Open
  <2>3. CASE c # k
    BY <1>1, <1>2, <1>3, <2>1, <2>3 DEF Open
  <2>4. QED
    BY <2>2, <2>3
<1>5. ASSUME NEW i \in DOMAIN reservations, Identity(reservations[i]) = k,
             \A m \in (i + 1)..(top - 1) : Identity(reservations[m]) # k
      PROVE  Open(k) <=> reservations[i].status = "reserving"
  <2>1. Newest(i)
    BY <1>2, <1>5 DEF Newest
  <2>2. \A j \in DOMAIN reservations : Identity(reservations[j]) = k /\ Newest(j) => j = i
    <3>1. SUFFICES ASSUME NEW j \in DOMAIN reservations, Identity(reservations[j]) = k, Newest(j)
                   PROVE  j = i
      OBVIOUS
    <3>2. i <= j /\ j <= i /\ i \in Nat /\ j \in Nat
      BY <1>2, <1>5, <2>1, <3>1 DEF Newest
    <3>3. QED
      BY <3>2
  <2>3. QED
    BY <1>5, <2>1, <2>2 DEF Open
<1>6. IntentsAlternate'
  <2>1. SUFFICES ASSUME NEW i \in DOMAIN reservations', NEW j \in DOMAIN reservations', i < j,
                        Identity(reservations'[i]) = Identity(reservations'[j]),
                        \A m \in (i + 1)..(j - 1) :
                          Identity(reservations'[m]) # Identity(reservations'[i])
                 PROVE  (reservations'[i].status = "reserving")
                          # (reservations'[j].status = "reserving")
    BY DEF IntentsAlternate
  <2>2. i \in DOMAIN reservations
    BY <1>2, <2>1
  <2>3. CASE j \in DOMAIN reservations
    <3>1. \A m \in (i + 1)..(j - 1) : m \in DOMAIN reservations
      BY <1>2, <2>2, <2>3
    <3>2. \A m \in (i + 1)..(j - 1) : Identity(reservations[m]) # Identity(reservations[i])
      BY <1>2, <2>1, <2>2, <3>1
    <3>3. QED
      BY <1>2, <2>1, <2>2, <2>3, <3>2 DEF IntentsAlternate
  <2>4. CASE j = top
    <3>1. Identity(reservations[i]) = k /\ reservations'[j].status = s
      BY <1>1, <1>2, <2>1, <2>2, <2>4
    <3>2. \A m \in (i + 1)..(top - 1) : m \in DOMAIN reservations
      BY <1>2, <2>2
    <3>3. \A m \in (i + 1)..(top - 1) : Identity(reservations[m]) # k
      BY <1>2, <2>1, <2>2, <2>4, <3>1, <3>2
    <3>4. Open(k) <=> reservations[i].status = "reserving"
      BY <1>5, <2>2, <3>1, <3>3
    <3>5. QED
      BY <1>2, <2>2, <3>1, <3>4
  <2>5. QED
    BY <1>2, <2>1, <2>3, <2>4
<1>7. QED
  BY <1>2, <1>4, <1>6

\* A step that leaves the reservations alone leaves what they say alone.
LEMMA LedgerSame ==
  ASSUME UNCHANGED reservations
  PROVE  /\ IntentsAlternate => IntentsAlternate'
         /\ \A k : Open(k)' <=> Open(k)
BY DEF IntentsAlternate, Open, Newest, Identity

LEMMA InitSInv == Init => SInv
<1> SUFFICES ASSUME Init PROVE SInv
  OBVIOUS
<1>1. /\ rows = <<>> /\ reservations = <<>> /\ runtimes = [a \in Name |-> NoRuntime]
      /\ deploy = NoRequest /\ pc = "idle" /\ pending = <<>> /\ results = <<>>
      /\ deploys = 0 /\ crashes = 0
  BY DEF Init
<1>2. \A S : <<>> \in Seq(S)
  OBVIOUS
<1>3. Len(<<>>) = 0 /\ DOMAIN <<>> = {} /\ deploy.plan = <<>>
  BY <1>1 DEF NoRequest
<1>4. TypeOK
  BY <1>1, <1>2, <1>3, DeployAssumption DEF TypeOK
<1>5. IntentsAlternate /\ Reconciling /\ Owned
  BY <1>1, <1>3 DEF IntentsAlternate, Reconciling, Owned, Creating
<1>6. Visited
  <2>1. results \in Seq({})
    BY <1>1, <1>2
  <2>2. QED
    BY <1>1, <1>3, <2>1 DEF Visited, Busy
<1>7. QED
  BY <1>4, <1>5, <1>6 DEF SInv

\* The results grow along the plan; what has failed stays so.
LEMMA DoneFacts ==
  ASSUME SInv, NEW action, Done(action), UNCHANGED deploy,
         deploy \in Requests, Len(results) < Len(deploy.plan)
  PROVE  /\ Visited' /\ pc' \in {"node", "end"} /\ Len(results') <= Len(deploy'.plan)
         /\ \A n : HasFailed(n) => HasFailed(n)'
         /\ action = "failed" => \A n : n = This => HasFailed(n)'
<1>1. PICK r, n, top : r = [node |-> n, action |-> action] /\ n = This /\ top = Len(results) + 1
  OBVIOUS
<1>2. results' = Append(results, r) /\ pc' \in {"node", "end"}
  BY <1>1 DEF Done
<1>3. PICK S : results \in Seq(S)
  BY DEF SInv, Visited
<1>4. /\ results' \in Seq(S \cup {r}) /\ Len(results') = top
      /\ DOMAIN results' = DOMAIN results \cup {top}
      /\ results'[top] = r
      /\ \A i \in DOMAIN results : results'[i] = results[i]
  BY <1>1, <1>2, <1>3, Grows
<1>5. n = deploy.plan[top]
  BY <1>1 DEF This
<1>6. Visited'
  BY <1>1, <1>2, <1>4, <1>5 DEF SInv, Visited, Busy
<1>7. Len(results') <= Len(deploy'.plan)
  <2>1. deploy.plan \in Seq(Node)
    BY DeployAssumption
  <2>2. QED
    BY <1>1, <1>3, <1>4, <2>1
<1>8. \A m : HasFailed(m) => HasFailed(m)'
  BY <1>4 DEF HasFailed
<1>9. action = "failed" => \A m : m = n => HasFailed(m)'
  BY <1>1, <1>4 DEF HasFailed
<1>10. QED
  BY <1>1, <1>2, <1>6, <1>7, <1>8, <1>9

-----------------------------------------------------------------------------
(* The steps, each of which keeps SInv. *)

\* The walk is begun, ended or given up.
LEMMA StartSettles ==
  ASSUME IInv, SInv, NEW d \in Requests, Start(d)
  PROVE  SInv'
<1>1. /\ UNCHANGED <<rows, reservations, runtimes, results, crashes>>
      /\ pc = "idle" /\ pc' = "reconcile" /\ deploy' = d
      /\ deploys < MaxDeploys /\ deploys' = deploys + 1
      /\ pending' = IF d.two_phase THEN Pending ELSE <<>>
  BY DEF Start, ledger
<1>2. reservations \in Seq(Entry)
  BY DEF SInv, TypeOK, Entry
<1>3. /\ Pending \in Seq(Key)
      /\ \A i, j \in DOMAIN Pending : Pending[i] = Pending[j] => i = j
      /\ \A i \in DOMAIN Pending : Open(Pending[i])
      /\ \A k : Open(k) => \E i \in DOMAIN Pending : Pending[i] = k
  BY <1>2, PendingIsOpen
<1>4. IntentsAlternate' /\ \A k : Open(k)' <=> Open(k)
  BY <1>1, LedgerSame DEF SInv
<1>5. PICK S : results \in Seq(S)
  BY DEF SInv, Visited
<1>6. Reconciling' /\ pending' \in Seq(Key)
  <2>1. CASE d.two_phase
    <3> HIDE DEF Pending
    <3>1. pending' = Pending
      BY <1>1, <2>1
    <3>2. \A i \in DOMAIN pending' : \A k : k = pending'[i] => Open(k)'
      BY <1>3, <1>4, <3>1
    <3>3. \A k : Open(k)' => \E i \in DOMAIN pending' : pending'[i] = k
      BY <1>3, <1>4, <3>1
    <3>4. pending' \in Seq(Key) /\ \A i, j \in DOMAIN pending' : pending'[i] = pending'[j] => i = j
      BY <1>3, <3>1
    <3>5. QED
      BY <1>1, <3>2, <3>3, <3>4 DEF Reconciling, Open
  <2>2. CASE ~d.two_phase
    <3>1. pending' = <<>> /\ <<>> \in Seq(Key) /\ DOMAIN <<>> = {}
      BY <1>1, <2>2
    <3>2. QED
      BY <1>1, <2>2, <3>1 DEF Reconciling
  <2>3. QED
    BY <2>1, <2>2
<1>7. results = <<>> /\ Len(results) = 0 /\ Len(d.plan) \in Nat
  <2>1. results = <<>> /\ d.plan \in Seq(Node)
    BY <1>1, DeployAssumption DEF SInv, Visited
  <2>2. QED
    BY <2>1
<1>8. Visited'
  BY <1>1, <1>5, <1>7 DEF SInv, Visited, Busy
<1>9. TypeOK'
  BY <1>1, <1>6, <1>7, DeployAssumption DEF SInv, TypeOK
<1>10. Owned'
  BY <1>1 DEF Owned, Creating
<1>11. QED
  BY <1>4, <1>6, <1>8, <1>9, <1>10 DEF SInv

LEMMA LeaveSettles ==
  ASSUME IInv, SInv, Idle, UNCHANGED <<ledger, runtimes, deploys>>, crashes' \in 0..MaxCrashes
  PROVE  SInv'
<1>1. /\ UNCHANGED <<rows, reservations, runtimes, deploys>>
      /\ pc' = "idle" /\ deploy' = NoRequest /\ pending' = <<>> /\ results' = <<>>
  BY DEF Idle, ledger
<1>2. IntentsAlternate'
  BY <1>1, LedgerSame DEF SInv
<1>3. /\ <<>> \in Seq({}) /\ <<>> \in Seq(Key) /\ DOMAIN <<>> = {} /\ Len(<<>>) = 0
      /\ deploy'.plan = <<>>
  BY <1>1 DEF NoRequest
<1>4. TypeOK'
  BY <1>1, <1>3 DEF SInv, TypeOK
<1>5. Visited'
  BY <1>1, <1>3 DEF Visited, Busy
<1>6. Reconciling' /\ Owned'
  BY <1>1, <1>3 DEF Reconciling, Owned, Creating
<1>7. QED
  BY <1>2, <1>4, <1>5, <1>6 DEF SInv

LEMMA ReconciledSettles ==
  ASSUME IInv, SInv, Reconciled
  PROVE  SInv'
<1>1. /\ UNCHANGED <<rows, reservations, runtimes, deploy, pending, results, deploys, crashes>>
      /\ pc = "reconcile" /\ pc' = "node" /\ pending = <<>> /\ DOMAIN <<>> = {}
  BY DEF Reconciled, ledger
<1>2. IntentsAlternate' /\ \A k : Open(k)' <=> Open(k)
  BY <1>1, LedgerSame DEF SInv
<1>3. TypeOK' /\ Visited' /\ Reconciling'
  BY <1>1 DEF SInv, TypeOK, Visited, Reconciling, Busy
<1>4. deploy.two_phase => \A k \in Key : ~Open(k)
  BY <1>1 DEF SInv, Reconciling
<1>5. Owned'
  BY <1>1, <1>2, <1>4 DEF Owned, Creating
<1>6. QED
  BY <1>2, <1>3, <1>5 DEF SInv

\* A step of the walk that leaves the intents alone, and what it owes: a create
\* in hand stays in hand, or its node has failed or has nothing open.
LEMMA WalkSettles ==
  ASSUME SInv, UNCHANGED <<reservations, deploy, pending, deploys, crashes>>,
         pc \in {"node", "end"} \cup Busy, pc' \in {"node", "end"} \cup Busy,
         Visited', Len(results') <= Len(deploy'.plan),
         rows' \in Seq([node : Node, fp : Fingerprint, arn : Name]),
         runtimes' \in [Name -> Runtime \cup {NoRuntime}],
         \A n : HasFailed(n) => HasFailed(n)',
         deploy.two_phase /\ pc' \in Creating => pc \in Creating /\ UNCHANGED results,
         deploy.two_phase /\ pc \in Creating /\ pc' \notin Creating => \A n : n = This => HasFailed(n)'
  PROVE  SInv'
<1>1. IntentsAlternate' /\ \A k : Open(k)' <=> Open(k)
  BY LedgerSame DEF SInv
<1>2. TypeOK'
  BY DEF SInv, TypeOK, Busy
<1>3. pending = <<>> /\ pending' = <<>> /\ DOMAIN <<>> = {}
  BY DEF SInv, Reconciling, Busy
<1>4. Reconciling'
  BY <1>3 DEF Reconciling, Busy
<1>5. ASSUME pc' \in Creating, deploy.two_phase
      PROVE  \A c : c = Content => c = Content'
  BY <1>5 DEF Content, This
<1>6. ASSUME pc' \in Creating, deploy.two_phase
      PROVE  Open(Content)'
  <2>1. PICK c : c = Content
    OBVIOUS
  <2>2. Open(c) /\ c = Content'
    BY <1>5, <1>6, <2>1 DEF SInv, Owned
  <2>3. Open(c)'
    BY <1>1, <2>2
  <2>4. QED
    BY <2>2, <2>3 DEF Open
<1>7. ASSUME deploy.two_phase, NEW k \in Key, Open(k)'
      PROVE  (pc \in Creating /\ k = Content)' \/ HasFailed(k.node)'
  <2>1. Open(k)
    BY <1>1, <1>7
  <2>2. (pc \in Creating /\ k = Content) \/ HasFailed(k.node)
    BY <1>7, <2>1 DEF SInv, Owned, Busy
  <2>3. CASE pc \in Creating /\ k = Content
    <3>1. CASE pc' \in Creating
      BY <1>5, <1>7, <2>3, <3>1
    <3>2. CASE pc' \notin Creating
      BY <1>7, <2>3, <3>2 DEF Content
    <3>3. QED
      BY <3>1, <3>2
  <2>4. CASE HasFailed(k.node)
    BY <2>4
  <2>5. QED
    BY <2>2, <2>3, <2>4
<1>8. Owned'
  BY <1>6, <1>7 DEF Owned
<1>9. QED
  BY <1>1, <1>2, <1>4, <1>8 DEF SInv

LEMMA BusyFacts ==
  ASSUME IInv, SInv, pc \in Busy \/ Visiting
  PROVE  /\ deploy \in Requests /\ Len(results) < Len(deploy.plan)
         /\ This \in Node /\ Content \in Key /\ ThisName \in Name
         /\ deploy.plan \in Seq(Node) /\ (\E S : results \in Seq(S))
         /\ pc \in {"node"} \cup Busy /\ deploy.two_phase \in BOOLEAN
         /\ rows \in Seq([node : Node, fp : Fingerprint, arn : Name])
         /\ runtimes \in [Name -> Runtime \cup {NoRuntime}]
<1>1. deploy \in Requests /\ Len(results) < Len(deploy.plan)
  BY DEF SInv, Visited, Visiting, Busy
<1>2. This \in Node /\ deploy.fp[This] \in Fingerprint
  <2>1. CASE Visiting
    BY <2>1, VisitingFacts
  <2>2. CASE pc \in Busy
    BY <2>2 DEF IInv, AtNode, Busy
  <2>3. QED
    BY <2>1, <2>2
<1>3. Content \in Key /\ ThisName \in Name
  BY <1>2 DEF Content, Key, ThisName, Name
<1>4. deploy.plan \in Seq(Node) /\ deploy.two_phase \in BOOLEAN
  BY <1>1, DeployAssumption
<1>5. QED
  BY <1>1, <1>2, <1>3, <1>4 DEF SInv, TypeOK, Visited, Visiting

\* The node is done with, and nothing is written of its intent.
LEMMA DoneSettles ==
  ASSUME IInv, SInv, NEW action, Done(action), pc \in Busy \/ Visiting,
         UNCHANGED <<reservations, deploy, pending, deploys, crashes>>,
         rows' \in Seq([node : Node, fp : Fingerprint, arn : Name]),
         runtimes' \in [Name -> Runtime \cup {NoRuntime}],
         action = "failed" \/ pc \notin Creating
  PROVE  SInv'
<1>1. /\ deploy \in Requests /\ Len(results) < Len(deploy.plan)
      /\ pc \in {"node", "end"} \cup Busy
  BY BusyFacts
<1>2. /\ Visited' /\ pc' \in {"node", "end"} /\ Len(results') <= Len(deploy'.plan)
      /\ \A n : HasFailed(n) => HasFailed(n)'
      /\ action = "failed" => \A n : n = This => HasFailed(n)'
  BY <1>1, DoneFacts
<1>3. QED
  BY <1>1, <1>2, WalkSettles DEF Creating

\* The deploy stays at its node, or the walk ends.
LEMMA StaySettles ==
  ASSUME IInv, SInv, UNCHANGED <<rows, reservations, deploy, pending, results, deploys, crashes>>,
         runtimes' \in [Name -> Runtime \cup {NoRuntime}],
         pc \in {"node"} \cup Busy, pc' \in {"end"} \cup Busy,
         pc' \in Busy => Len(results) < Len(deploy.plan),
         deploy.two_phase => (pc \in Creating <=> pc' \in Creating)
  PROVE  SInv'
<1>1. Visited' /\ Len(results') <= Len(deploy'.plan)
      /\ rows' \in Seq([node : Node, fp : Fingerprint, arn : Name])
  BY DEF SInv, TypeOK, Visited, Busy
<1>2. \A n : HasFailed(n) => HasFailed(n)'
  BY DEF HasFailed
<1>3. QED
  BY <1>1, <1>2, WalkSettles

LEMMA WalkStepsSettle ==
  ASSUME IInv, SInv,
         \/ WalkEnds \/ Reuse \/ Hold \/ PrepareFails \/ CreateFails \/ Create
         \/ CreateResponseLost \/ Ready \/ NotReady \/ Record
  PROVE  SInv'
<1>1. CASE WalkEnds
  BY <1>1, StaySettles DEF WalkEnds, ledger, Creating, Busy, SInv, TypeOK
<1>2. CASE Reuse \/ Hold
  <2>1. PICK action \in {"reused", "escalated"} : Done(action)
    BY <1>2 DEF Reuse, Hold
  <2>2. /\ Visiting /\ pc = "node"
        /\ UNCHANGED <<rows, reservations, runtimes, deploy, pending, deploys, crashes>>
    BY <1>2 DEF Reuse, Hold, Visiting, ledger
  <2>3. QED
    BY <2>1, <2>2, BusyFacts, DoneSettles DEF Creating
<1>3. CASE PrepareFails \/ CreateFails \/ NotReady
  <2>1. /\ pc \in Busy \/ Visiting
        /\ Done("failed")
        /\ UNCHANGED <<rows, reservations, runtimes, deploy, pending, deploys, crashes>>
    BY <1>3 DEF PrepareFails, Cleared, CreateFails, NotReady, Failed, ledger, Busy
  <2>2. QED
    BY <2>1, BusyFacts, DoneSettles
<1>4. CASE Create \/ CreateResponseLost
  <2>1. /\ pc = "create" /\ Creates
        /\ UNCHANGED <<rows, reservations, deploy, pending, deploys, crashes>>
    BY <1>4 DEF Create, CreateResponseLost, Creates, Failed, ledger
  <2>2. Runtimes'
    BY <2>1, CreatesFacts DEF ledger
  <2>3. pc \in Busy /\ pc \in Creating /\ "wait" \in Creating /\ "wait" \in Busy
    BY <2>1 DEF Busy, Creating
  <2>4. Len(results) < Len(deploy.plan) /\ rows \in Seq([node : Node, fp : Fingerprint, arn : Name])
    BY <2>3, BusyFacts
  <2>5. CASE Create
    <3>1. pc' = "wait" /\ results' = results
      BY <2>5 DEF Create
    <3>2. QED
      BY <2>1, <2>2, <2>3, <2>4, <3>1, StaySettles DEF Runtimes
  <2>6. CASE CreateResponseLost
    <3>1. Done("failed")
      BY <2>6 DEF CreateResponseLost, Failed
    <3>2. QED
      BY <2>1, <2>2, <2>3, <2>4, <3>1, DoneSettles DEF Runtimes
  <2>7. QED
    BY <1>4, <2>5, <2>6
<1>5. CASE Ready
  <2>1. /\ pc = "wait" /\ pc' = "confirm"
        /\ UNCHANGED <<rows, reservations, runtimes, deploy, pending, results, deploys, crashes>>
    BY <1>5 DEF Ready, ledger
  <2>2. {pc, pc'} \subseteq Busy \cap Creating
    BY <2>1 DEF Busy, Creating
  <2>3. QED
    BY <2>1, <2>2, BusyFacts, StaySettles
<1>6. CASE Record
  <2>1. PICK row : row = [node |-> This, fp |-> deploy.fp[This], arn |-> ThisName]
    OBVIOUS
  <2>2. /\ pc = "record" /\ rows' = Append(rows, row) /\ Done("created")
        /\ UNCHANGED <<reservations, runtimes, deploy, pending, deploys, crashes>>
    BY <1>6, <2>1 DEF Record
  <2>3. pc \in Busy /\ pc \notin Creating
    BY <2>2 DEF Busy, Creating
  <2>4. row \in [node : Node, fp : Fingerprint, arn : Name]
    BY <2>1, <2>2, <2>3, BusyFacts DEF IInv, AtNode
  <2>5. rows' \in Seq([node : Node, fp : Fingerprint, arn : Name])
    BY <2>2, <2>3, <2>4, BusyFacts
  <2>6. QED
    BY <2>2, <2>3, <2>5, BusyFacts, DoneSettles
<1>7. QED
  BY <1>1, <1>2, <1>3, <1>4, <1>5, <1>6

\* The intent of the node at hand is written: its key was not open, since the
\* node has no result yet.
LEMMA ReserveSettles ==
  ASSUME IInv, SInv, Reserve
  PROVE  SInv'
<1>1. /\ Visiting /\ pc = "node" /\ pc' = "create"
      /\ UNCHANGED <<rows, runtimes, deploy, pending, results, deploys, crashes>>
  BY DEF Reserve, Cleared, Visiting
<1>2. /\ deploy \in Requests /\ Len(results) < Len(deploy.plan)
      /\ This \in Node /\ Content \in Key /\ deploy.plan \in Seq(Node)
      /\ deploy.two_phase \in BOOLEAN
      /\ rows \in Seq([node : Node, fp : Fingerprint, arn : Name])
      /\ runtimes \in [Name -> Runtime \cup {NoRuntime}]
  BY <1>1, BusyFacts
<1>3. CASE ~deploy.two_phase
  <2>1. UNCHANGED reservations
    BY <1>3 DEF Reserve
  <2>2. QED
    BY <1>1, <1>2, <1>3, <2>1, StaySettles DEF Busy
<1>4. CASE deploy.two_phase
  <2>1. PICK c : c = Content
    OBVIOUS
  <2>2. Reserved(c, "reserving") /\ c \in Key
    BY <1>2, <1>4, <2>1 DEF Reserve
  <2>3. ~Open(c)
    <3>1. SUFFICES ASSUME Open(c) PROVE FALSE
      OBVIOUS
    <3>2. HasFailed(c.node)
      BY <1>1, <1>4, <2>2, <3>1 DEF SInv, Owned, Creating
    <3>3. PICK j \in DOMAIN results : results[j] = [node |-> c.node, action |-> "failed"]
      BY <3>2 DEF HasFailed
    <3>4. PICK S : results \in Seq(S)
      BY DEF SInv, Visited
    <3>5. deploy.plan[j] = deploy.plan[Len(results) + 1]
      <4>1. results[j].node = deploy.plan[j]
        BY DEF SInv, Visited
      <4>2. c.node = This
        BY <2>1 DEF Content
      <4>3. QED
        BY <3>3, <4>1, <4>2 DEF This
    <3>6. j \in DOMAIN deploy.plan /\ Len(results) + 1 \in DOMAIN deploy.plan /\ j # Len(results) + 1
      BY <1>2, <3>4
    <3>7. QED
      BY <1>2, <3>5, <3>6, DeployAssumption
  <2>4. /\ reservations' \in Seq(Entry) /\ IntentsAlternate'
        /\ \A d : Open(d)' <=> IF d = c THEN TRUE ELSE Open(d)
    <3>1. reservations \in Seq(Entry) /\ IntentsAlternate
      BY DEF SInv, TypeOK, Entry
    <3>2. "reserving" = "reserving" <=> ~Open(c)
      BY <2>3
    <3>3. QED
      BY <2>2, <3>1, <3>2, EntryFacts
  <2>5. TypeOK' /\ Visited'
    BY <1>1, <1>2, <2>4 DEF SInv, TypeOK, Visited, Busy, Entry
  <2>6. Reconciling'
    <3>1. pending' = <<>> /\ DOMAIN <<>> = {}
      BY <1>1 DEF SInv, Reconciling
    <3>2. QED
      BY <1>1, <3>1 DEF Reconciling
  <2>7. c = Content'
    BY <1>1, <2>1 DEF Content, This
  <2>8. Open(Content)'
    <3>1. Open(c)'
      BY <2>4
    <3>2. QED
      BY <2>7, <3>1 DEF Open
  <2>9. ASSUME NEW k \in Key, Open(k)'
        PROVE  (pc \in Creating /\ k = Content)' \/ HasFailed(k.node)'
    <3>1. CASE k = c
      BY <1>1, <2>7, <3>1 DEF Creating
    <3>2. CASE k # c
      <4>1. HasFailed(k.node)
        BY <1>1, <1>4, <2>4, <2>9, <3>2 DEF SInv, Owned, Creating
      <4>2. QED
        BY <1>1, <4>1 DEF HasFailed
    <3>3. QED
      BY <3>1, <3>2
  <2>10. Owned'
    BY <1>1, <2>8, <2>9 DEF Owned
  <2>11. QED
    BY <2>4, <2>5, <2>6, <2>10 DEF SInv
<1>5. QED
  BY <1>2, <1>3, <1>4

\* The intent of the node at hand is confirmed: it was open.
LEMMA ConfirmSettles ==
  ASSUME IInv, SInv, Confirm
  PROVE  SInv'
<1>1. /\ pc = "confirm" /\ pc' = "record" /\ pc \in Busy
      /\ UNCHANGED <<rows, runtimes, deploy, pending, results, deploys, crashes>>
  BY DEF Confirm, Busy
<1>2. /\ deploy \in Requests /\ Len(results) < Len(deploy.plan)
      /\ Content \in Key /\ deploy.two_phase \in BOOLEAN
      /\ runtimes \in [Name -> Runtime \cup {NoRuntime}]
  BY <1>1, BusyFacts
<1>3. CASE ~deploy.two_phase
  <2>1. UNCHANGED reservations
    BY <1>3 DEF Confirm
  <2>2. QED
    BY <1>1, <1>2, <1>3, <2>1, StaySettles DEF Busy
<1>4. CASE deploy.two_phase
  <2>1. PICK c : c = Content
    OBVIOUS
  <2>2. Reserved(c, "confirmed") /\ c \in Key
    BY <1>2, <1>4, <2>1 DEF Confirm
  <2>3. Open(c)
    BY <1>1, <1>4, <2>1 DEF SInv, Owned, Creating
  <2>4. /\ reservations' \in Seq(Entry) /\ IntentsAlternate'
        /\ \A d : Open(d)' <=> IF d = c THEN FALSE ELSE Open(d)
    <3>1. reservations \in Seq(Entry) /\ IntentsAlternate
      BY DEF SInv, TypeOK, Entry
    <3>2. "confirmed" = "reserving" <=> ~Open(c)
      BY <2>3
    <3>3. QED
      BY <2>2, <3>1, <3>2, EntryFacts
  <2>5. TypeOK' /\ Visited'
    BY <1>1, <1>2, <2>4 DEF SInv, TypeOK, Visited, Busy, Entry
  <2>6. Reconciling'
    <3>1. pending' = <<>> /\ DOMAIN <<>> = {}
      BY <1>1 DEF SInv, Reconciling
    <3>2. QED
      BY <1>1, <3>1 DEF Reconciling
  <2>7. ASSUME NEW k \in Key, Open(k)'
        PROVE  HasFailed(k.node)'
    <3>1. k # Content /\ Open(k)
      BY <2>1, <2>4, <2>7
    <3>2. HasFailed(k.node)
      BY <1>1, <1>4, <3>1 DEF SInv, Owned
    <3>3. QED
      BY <1>1, <3>2 DEF HasFailed
  <2>8. Owned'
    BY <1>1, <2>7 DEF Owned, Creating
  <2>9. QED
    BY <2>4, <2>5, <2>6, <2>8 DEF SInv
<1>5. QED
  BY <1>2, <1>3, <1>4

\* The first intent still to be reconciled is settled, and only that one.
LEMMA ReconcileSettles ==
  ASSUME IInv, SInv, Adopt \/ Compensate
  PROVE  SInv'
<1>0. PICK c : c = Head(pending)
  OBVIOUS
<1>1. PICK s \in {"confirmed", "compensated"} : Reserved(c, s)
  BY <1>0 DEF Adopt, Compensate
<1>2. /\ pc = "reconcile" /\ pending # <<>> /\ pending' = Tail(pending)
      /\ UNCHANGED <<rows, runtimes, deploy, pc, results, deploys, crashes>>
  BY DEF Adopt, Compensate
<1>3. pending \in Seq(Key)
  BY DEF SInv, TypeOK
<1>4. /\ c \in Key /\ c = pending[1] /\ 1 \in DOMAIN pending
      /\ pending' \in Seq(Key)
      /\ \A i \in DOMAIN pending' : i + 1 \in DOMAIN pending /\ pending'[i] = pending[i + 1]
      /\ \A i \in DOMAIN pending : i = 1 \/ (i - 1 \in DOMAIN pending' /\ pending'[i - 1] = pending[i])
      /\ \A i \in DOMAIN pending' : i \in Nat /\ i + 1 # 1
      /\ DOMAIN pending \subseteq Nat
  BY <1>0, <1>2, <1>3
<1>5. Open(c)
  BY <1>4 DEF SInv, Reconciling
<1>6. /\ reservations' \in Seq(Entry) /\ IntentsAlternate'
      /\ \A d : Open(d)' <=> IF d = c THEN FALSE ELSE Open(d)
  <2>1. reservations \in Seq(Entry) /\ IntentsAlternate
    BY DEF SInv, TypeOK, Entry
  <2>2. s = "reserving" <=> ~Open(c)
    BY <1>5
  <2>3. s = "reserving" <=> FALSE
    OBVIOUS
  <2>4. QED
    BY <1>1, <1>4, <2>1, <2>2, <2>3, EntryFacts
<1>7. TypeOK' /\ Visited' /\ Owned'
  BY <1>2, <1>4, <1>6 DEF SInv, TypeOK, Visited, Owned, Busy, Creating, Entry
<1>8. Reconciling'
  <2>1. \A i, j \in DOMAIN pending' : pending'[i] = pending'[j] => i = j
    <3>1. SUFFICES ASSUME NEW i \in DOMAIN pending', NEW j \in DOMAIN pending',
                          pending'[i] = pending'[j]
                   PROVE  i = j
      OBVIOUS
    <3>2. i + 1 = j + 1
      BY <1>4, <3>1 DEF SInv, Reconciling
    <3>3. QED
      BY <1>4, <3>2
  <2>2. \A i \in DOMAIN pending' : \A d : d = pending'[i] => Open(d)'
    <3>1. SUFFICES ASSUME NEW i \in DOMAIN pending' PROVE Open(pending[i + 1]) /\ pending[i + 1] # c
      BY <1>4, <1>6
    <3>2. QED
      BY <1>4 DEF SInv, Reconciling
  <2>3. ASSUME deploy.two_phase, NEW k \in Key, Open(k)'
        PROVE  \E i \in DOMAIN pending' : pending'[i] = k
    <3>1. k # c /\ Open(k)
      BY <1>6, <2>3
    <3>2. PICK i \in DOMAIN pending : pending[i] = k
      BY <1>2, <2>3, <3>1 DEF SInv, Reconciling
    <3>3. QED
      BY <1>4, <3>1, <3>2
  <2>4. \A i \in DOMAIN pending' : Open(pending[i])'
    BY <2>2 DEF Open
  <2>5. QED
    BY <1>2, <2>1, <2>3, <2>4 DEF Reconciling
<1>9. QED
  BY <1>6, <1>7, <1>8 DEF SInv

LEMMA SettleSettles ==
  ASSUME IInv, SInv, NEW a \in Name, NEW s \in {"ready", "failed"}, Settle(a, s)
  PROVE  SInv'
<1>1. UNCHANGED <<rows, reservations, deploy, pc, pending, results, deploys, crashes>>
  BY DEF Settle, ledger
<1>2. runtimes' \in [Name -> Runtime \cup {NoRuntime}]
  BY SettleKeeps DEF IInv, Runtimes
<1>3. IntentsAlternate' /\ \A k : Open(k)' <=> Open(k)
  BY <1>1, LedgerSame DEF SInv
<1>4. Content' = Content
  BY <1>1 DEF Content, This
<1>5. TypeOK' /\ Visited' /\ Reconciling' /\ Owned'
  <2>1. TypeOK' /\ Visited'
    BY <1>1, <1>2 DEF SInv, TypeOK, Visited
  <2>2. Reconciling' /\ Owned'
    BY <1>1, <1>4 DEF SInv, Reconciling, Owned, Open, Newest, Identity, HasFailed
  <2>3. QED
    BY <2>1, <2>2
<1>6. QED
  BY <1>3, <1>5 DEF SInv

LEMMA NextSInv == IInv /\ SInv /\ [Next]_vars => SInv'
<1> SUFFICES ASSUME IInv, SInv, [Next]_vars PROVE SInv'
  OBVIOUS
<1>1. CASE Step
  <2>1. CASE End \/ PrepareRaises
    BY <2>1, LeaveSettles DEF End, PrepareRaises, SInv, TypeOK
  <2>2. QED
    BY <1>1, <2>1, ReconcileSettles, ReconciledSettles, WalkStepsSettle, ReserveSettles,
       ConfirmSettles DEF Step
<1>2. CASE Crash
  <2>1. crashes' \in 0..MaxCrashes
    BY <1>2, DeployAssumption DEF Crash, SInv, TypeOK
  <2>2. QED
    BY <1>2, <2>1, LeaveSettles DEF Crash
<1>3. CASE \E d \in Requests : Start(d)
  BY <1>3, StartSettles
<1>4. CASE \E a \in Name, s \in {"ready", "failed"} : Settle(a, s)
  BY <1>4, SettleSettles
<1>5. CASE UNCHANGED vars
  <2>1. UNCHANGED <<rows, reservations, runtimes, deploy, pc, pending, results, deploys, crashes>>
    BY <1>5 DEF vars, ledger
  <2>2. Content' = Content
    BY <2>1 DEF Content, This
  <2>3. TypeOK' /\ Visited' /\ IntentsAlternate'
    BY <2>1, LedgerSame DEF SInv, TypeOK, Visited
  <2>4. Reconciling' /\ Owned'
    BY <2>1, <2>2 DEF SInv, Reconciling, Owned, Open, Newest, Identity, HasFailed
  <2>5. QED
    BY <2>3, <2>4 DEF SInv
<1>6. QED
  BY <1>1, <1>2, <1>3, <1>4, <1>5 DEF Next

\* An intent is settled exactly once, and before the next walk needs its key:
\* the ledger's entries of a key alternate, and after the reconciliation only
\* the node at hand and those that failed have an open one (reserve,
\* confirm_reservation, reconcile_reservations).
THEOREM IntentsSettle == Spec => []IntentsAreSettled
<1>1. IInv /\ SInv => IntentsAreSettled
  <2>1. SUFFICES ASSUME IInv, SInv PROVE OnlyOwnIntentsOpen
    BY DEF SInv, IntentsAreSettled
  <2>2. SUFFICES ASSUME pc \notin {"idle", "reconcile"}, deploy.two_phase,
                        NEW i \in DOMAIN Pending
                 PROVE  \/ pc \notin {"node", "end"} /\ Pending[i] = Content
                        \/ HasFailed(Pending[i].node)
    BY DEF OnlyOwnIntentsOpen, HasFailed
  <2>3. PICK k : k = Pending[i]
    OBVIOUS
  <2>4. k \in Key /\ Open(k)
    <3>1. reservations \in Seq(Entry)
      BY <2>1 DEF SInv, TypeOK, Entry
    <3>2. Pending \in Seq(Key) /\ Open(Pending[i])
      BY <3>1, <2>2, PendingIsOpen
    <3>3. Pending[i] \in Key
      <4> HIDE DEF Pending
      <4>1. QED
        BY <3>2, <2>2
    <3>4. QED
      BY <2>3, <3>2, <3>3
  <2>5. (pc \in Creating /\ k = Content) \/ HasFailed(k.node)
    BY <2>1, <2>2, <2>4 DEF SInv, Owned
  <2>6. QED
    BY <2>3, <2>5 DEF Creating
<1>2. IInv /\ SInv /\ [Next]_vars => IInv' /\ SInv'
  BY NextIInv, NextSInv
<1>3. Init => IInv /\ SInv
  BY InitIInv, InitSInv
<1>4. QED
  BY <1>1, <1>2, <1>3, PTL DEF Spec
=============================================================================
