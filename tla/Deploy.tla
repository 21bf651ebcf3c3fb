------------------------------- MODULE Deploy -------------------------------
(***************************************************************************)
(* Deployment (build/provision.py, build/ledger.py, build/trust.py): a     *)
(* deploy walks a plan and creates one agent runtime per node on AWS,      *)
(* reusing what the ledger says is already there.  In two-phase mode it    *)
(* writes its intent to the ledger before each create and confirms it      *)
(* afterwards, and reconciles, before it starts, the intents an earlier    *)
(* deploy left behind.  It can die between any two calls.                  *)
(*                                                                         *)
(* Abstractions: one deploy at a time uses the ledger, so that a ledger    *)
(* method, which reads the file and replaces it, is one step; the role and *)
(* the image of a node are one preparation that can fail; the timestamps   *)
(* and the audit-only rejections of the ledger are left out.               *)
(***************************************************************************)
EXTENDS Naturals, Sequences, FiniteSets

CONSTANTS
  Node,
  Fingerprint,   \* hosting contents
  RuntimeName,   \* node -> the name of its runtime (_runtime_name can fold two into one)
  Hosted,        \* the nodes whose manifest names a runtime of its own
  SideEffecting, \* the nodes whose manifest says so
  Seed,          \* node -> trust_seed
  Requests,      \* what a deploy can be asked for
  MaxDeploys,    \* bound: deploys
  MaxCrashes     \* bound: deaths of a deploy

ASSUME DeployAssumption ==
  /\ Seed \in [Node -> 0..3] /\ SideEffecting \subseteq Node /\ Hosted \subseteq Node
  /\ \A d \in Requests :
       /\ d.plan \in Seq(Node) /\ \A i, j \in DOMAIN d.plan : d.plan[i] = d.plan[j] => i = j
       /\ d.fp \in [Node -> Fingerprint]
       /\ d.two_phase \in BOOLEAN /\ d.halt \in BOOLEAN
       /\ d.min_autonomy \in 0..4 /\ d.require_approval \in BOOLEAN
  /\ MaxDeploys \in Nat /\ MaxCrashes \in Nat

Name == {RuntimeName[n] : n \in Node}

VARIABLES
  rows,         \* ledger: contents stood up
  reservations, \* ledger: the phases of two-phase creates
  runtimes,     \* the control plane: name -> the runtime of that name
  deploy,       \* what the current deploy was asked for
  pc,           \* where it is
  pending,      \* reservations it has still to reconcile
  results,      \* its results, one per node it is done with
  deploys, crashes

ledger == <<rows, reservations>>
vars == <<ledger, runtimes, deploy, pc, pending, results, deploys, crashes>>

NoRuntime == [status |-> "none"]
Runtime == [status : {"creating", "ready", "failed"}, node : Node, fp : Fingerprint,
            two_phase : BOOLEAN]

Key == [node : Node, fp : Fingerprint]

NoMinimum == 4   \* min_autonomy is None

NoRequest == [plan |-> <<>>]

Init ==
  /\ rows = <<>> /\ reservations = <<>>
  /\ runtimes = [a \in Name |-> NoRuntime]
  /\ deploy = NoRequest /\ pc = "idle" /\ pending = <<>> /\ results = <<>>
  /\ deploys = 0 /\ crashes = 0

-----------------------------------------------------------------------------
(* The ledger *)

\* deploy_identity
Identity(e) == [node |-> e.node, fp |-> e.fp]

\* lookup
Known(k) == \E i \in DOMAIN rows : Identity(rows[i]) = k

\* The entry at i is the newest of its key.
Newest(i) == \A j \in DOMAIN reservations : Identity(reservations[j]) = Identity(reservations[i]) => j <= i

\* pending_reservations
Pending ==
  LET open == {i \in DOMAIN reservations : Newest(i) /\ reservations[i].status = "reserving"}
      rank[i \in DOMAIN reservations] == Cardinality({j \in open : j <= i})
  IN  [k \in 1..Cardinality(open) |->
         Identity(reservations[CHOOSE i \in open : rank[i] = k])]

\* reserve, confirm_reservation, compensate_reservation
Reserved(k, s) == reservations' = Append(reservations, [node |-> k.node, fp |-> k.fp, status |-> s])

-----------------------------------------------------------------------------
(* The create-time gate: evaluate_deploy_gate *)

Gate(n) ==
  IF n \notin SideEffecting \/ (deploy.min_autonomy = NoMinimum /\ ~deploy.require_approval)
    THEN "live"
  ELSE IF deploy.require_approval \/ Seed[n] < deploy.min_autonomy THEN "hold"
  ELSE IF Seed[n] = 0 THEN "shadow" ELSE "live"

-----------------------------------------------------------------------------
(* provision_plan *)

\* Mutant of Start: nothing is reconciled.
StartUnreconciled(d) ==
  /\ pc = "idle"
  /\ deploys < MaxDeploys
  /\ deploys' = deploys + 1
  /\ deploy' = d
  /\ pc' = "reconcile"
  /\ UNCHANGED <<ledger, runtimes, pending, results, crashes>>

Start(d) ==
  /\ pc = "idle"
  /\ deploys < MaxDeploys
  /\ deploys' = deploys + 1
  /\ deploy' = d
  /\ pending' = IF d.two_phase THEN Pending ELSE <<>>
  /\ pc' = "reconcile"
  /\ UNCHANGED <<ledger, runtimes, results, crashes>>

\* reconcile_reservations: a runtime of that name is there, whatever its state.
Adopt ==
  /\ pc = "reconcile" /\ pending # <<>>
  /\ runtimes[RuntimeName[Head(pending).node]] # NoRuntime
  /\ Reserved(Head(pending), "confirmed")
  /\ pending' = Tail(pending)
  /\ UNCHANGED <<rows, runtimes, deploy, pc, results, deploys, crashes>>

\* Mutant of Compensate: the control plane is not asked.
CompensateUnasked ==
  /\ pc = "reconcile" /\ pending # <<>>
  /\ Reserved(Head(pending), "compensated")
  /\ pending' = Tail(pending)
  /\ UNCHANGED <<rows, runtimes, deploy, pc, results, deploys, crashes>>

Compensate ==
  /\ pc = "reconcile" /\ pending # <<>>
  /\ runtimes[RuntimeName[Head(pending).node]] = NoRuntime
  /\ Reserved(Head(pending), "compensated")
  /\ pending' = Tail(pending)
  /\ UNCHANGED <<rows, runtimes, deploy, pc, results, deploys, crashes>>

Reconciled ==
  /\ pc = "reconcile" /\ pending = <<>>
  /\ pc' = "node"
  /\ UNCHANGED <<ledger, runtimes, deploy, pending, results, deploys, crashes>>

\* The node at hand, its content and its runtime.
This == deploy.plan[Len(results) + 1]
Content == [node |-> This, fp |-> deploy.fp[This]]
ThisName == RuntimeName[This]

\* The node is done with: the walk goes on, or a failure halts it.
Done(action) ==
  /\ results' = Append(results, [node |-> This, action |-> action])
  /\ pc' = IF action = "failed" /\ deploy.halt THEN "end" ELSE "node"

Failed == Done("failed") /\ UNCHANGED <<ledger, deploy, pending, deploys, crashes>>

Idle == pc' = "idle" /\ deploy' = NoRequest /\ pending' = <<>> /\ results' = <<>>

WalkEnds ==
  /\ pc = "node" /\ Len(results) = Len(deploy.plan)
  /\ pc' = "end"
  /\ UNCHANGED <<ledger, runtimes, deploy, pending, results, deploys, crashes>>

End ==
  /\ pc = "end"
  /\ Idle
  /\ UNCHANGED <<ledger, runtimes, deploys, crashes>>

Visiting == pc = "node" /\ Len(results) < Len(deploy.plan)

-----------------------------------------------------------------------------
(* provision_agent *)

\* The manifest names a runtime, or the ledger has a row for this content.
Reusable == This \in Hosted \/ Known(Content)

Reuse ==
  /\ Visiting /\ Reusable
  /\ Done("reused")
  /\ UNCHANGED <<ledger, runtimes, deploy, pending, deploys, crashes>>

Hold ==
  /\ Visiting /\ ~Reusable /\ Gate(This) = "hold"
  /\ Done("escalated")
  /\ UNCHANGED <<ledger, runtimes, deploy, pending, deploys, crashes>>

Cleared == Visiting /\ ~Reusable /\ Gate(This) # "hold"

\* The role or the image cannot be had.
PrepareFails == Cleared /\ Failed /\ UNCHANGED runtimes

\* docker or the build context fails: that is neither a ProvisionError nor an
\* AWS error, so it leaves the walk, and the results with it.
PrepareRaises ==
  /\ Cleared
  /\ Idle
  /\ UNCHANGED <<ledger, runtimes, deploys, crashes>>

\* The intent is recorded, in two-phase mode only.
Reserve ==
  /\ Cleared
  /\ IF deploy.two_phase THEN Reserved(Content, "reserving") ELSE UNCHANGED reservations
  /\ pc' = "create"
  /\ UNCHANGED <<rows, runtimes, deploy, pending, results, deploys, crashes>>

\* The control plane refuses a second runtime of the same name, or another error
\* is returned: nothing is created.
CreateFails ==
  /\ pc = "create"
  /\ Failed
  /\ UNCHANGED runtimes

NewRuntime == [status |-> "creating", node |-> This, fp |-> deploy.fp[This],
               two_phase |-> deploy.two_phase]

Creates ==
  /\ pc = "create"
  /\ runtimes[ThisName] = NoRuntime
  /\ runtimes' = [runtimes EXCEPT ![ThisName] = NewRuntime]

Create ==
  /\ Creates
  /\ pc' = "wait"
  /\ UNCHANGED <<ledger, deploy, pending, results, deploys, crashes>>

\* The runtime is created, and the response is lost.
CreateResponseLost == Creates /\ Failed

\* Mutant of Ready: the create response is taken for a deployed runtime.
ReadyAtOnce ==
  /\ pc = "wait"
  /\ pc' = "confirm"
  /\ UNCHANGED <<ledger, runtimes, deploy, pending, results, deploys, crashes>>

\* _await_runtime_ready
Ready ==
  /\ pc = "wait" /\ runtimes[ThisName].status = "ready"
  /\ pc' = "confirm"
  /\ UNCHANGED <<ledger, runtimes, deploy, pending, results, deploys, crashes>>

\* Mutant of NotReady: the wait has no timeout.
NotReadyUntilFailed ==
  /\ pc = "wait" /\ runtimes[ThisName].status = "failed"
  /\ Failed
  /\ UNCHANGED runtimes

\* The runtime has failed, or is not ready in time.
NotReady ==
  /\ pc = "wait" /\ runtimes[ThisName].status # "ready"
  /\ Failed
  /\ UNCHANGED runtimes

Confirm ==
  /\ pc = "confirm"
  /\ IF deploy.two_phase THEN Reserved(Content, "confirmed") ELSE UNCHANGED reservations
  /\ pc' = "record"
  /\ UNCHANGED <<rows, runtimes, deploy, pending, results, deploys, crashes>>

Record ==
  /\ pc = "record"
  /\ rows' = Append(rows, [node |-> This, fp |-> deploy.fp[This], arn |-> ThisName])
  /\ Done("created")
  /\ UNCHANGED <<reservations, runtimes, deploy, pending, deploys, crashes>>

Crash ==
  /\ pc # "idle"
  /\ crashes < MaxCrashes
  /\ crashes' = crashes + 1
  /\ Idle
  /\ UNCHANGED <<ledger, runtimes, deploys>>

\* The control plane settles a runtime that is being created.
Settle(a, s) ==
  /\ runtimes[a].status = "creating"
  /\ runtimes' = [runtimes EXCEPT ![a].status = s]
  /\ UNCHANGED <<ledger, deploy, pc, pending, results, deploys, crashes>>

Step ==
  \/ Adopt \/ Compensate \/ Reconciled \/ WalkEnds \/ End
  \/ Reuse \/ Hold \/ PrepareFails \/ PrepareRaises \/ Reserve \/ CreateFails \/ Create
  \/ CreateResponseLost \/ Ready \/ NotReady \/ Confirm \/ Record

Next ==
  \/ Step \/ Crash
  \/ \E d \in Requests : Start(d)
  \/ \E a \in Name, s \in {"ready", "failed"} : Settle(a, s)

Spec == Init /\ [][Next]_vars

\* A deploy that is alive takes its next step.
FairSpec == Spec /\ WF_vars(Step)

-----------------------------------------------------------------------------
(* Properties *)

TypeOK ==
  /\ rows \in Seq([node : Node, fp : Fingerprint, arn : Name])
  /\ reservations \in Seq([node : Node, fp : Fingerprint,
                           status : {"reserving", "confirmed", "compensated"}])
  /\ runtimes \in [Name -> Runtime \cup {NoRuntime}]
  /\ deploy \in Requests \cup {NoRequest}
  /\ pc \in {"idle", "reconcile", "node", "create", "wait", "confirm", "record", "end"}
  /\ pending \in Seq(Key)
  /\ Len(results) <= Len(deploy.plan)
  /\ deploys \in 0..MaxDeploys /\ crashes \in 0..MaxCrashes

\* A row is a promise a later deploy relies on without looking: its runtime
\* has become ready and runs that node's content (step 3a of provision_agent).
RowsAreReady ==
  \A i \in DOMAIN rows :
    LET r == runtimes[rows[i].arn]
    IN  r.status = "ready" /\ r.node = rows[i].node /\ r.fp = rows[i].fp

\* Whatever dies where, a runtime that a two-phase deploy created is known to
\* the ledger: its intent is open or confirmed, never compensated or missing.
IntentCoversCreate ==
  \A a \in Name :
    runtimes[a] # NoRuntime /\ runtimes[a].two_phase =>
      \E i \in DOMAIN reservations :
        /\ Identity(reservations[i]) = Identity(runtimes[a])
        /\ Newest(i)
        /\ reservations[i].status # "compensated"

\* Per key, the ledger's entries alternate between an intent and its outcome:
\* no intent is written over an open one, and none is settled twice.
IntentsAlternate ==
  \A i, j \in DOMAIN reservations :
    /\ i < j
    /\ Identity(reservations[i]) = Identity(reservations[j])
    /\ \A k \in (i + 1)..(j - 1) : Identity(reservations[k]) # Identity(reservations[i])
    => (reservations[i].status = "reserving") # (reservations[j].status = "reserving")

\* A two-phase deploy begins its walk with every earlier intent settled, and
\* during the walk at most the nodes it has failed or is at are open.
OnlyOwnIntentsOpen ==
  pc \notin {"idle", "reconcile"} /\ deploy.two_phase =>
    \A i \in DOMAIN Pending :
      \/ pc \notin {"node", "end"} /\ Pending[i] = Content
      \/ \E j \in DOMAIN results : results[j] = [node |-> Pending[i].node, action |-> "failed"]

\* An intent is settled exactly once, and before the next walk needs its key.
IntentsAreSettled == TypeOK /\ IntentsAlternate /\ OnlyOwnIntentsOpen

\* Every deploy that is not killed ends.
DeployEnds == pc # "idle" ~> pc = "idle"

\* An intent that is settled as confirmed has its runtime reused, not created
\* again (reconcile_reservations' docstring).
AdoptedIsReused ==
  pc = "create" =>
    ~\E i \in DOMAIN reservations :
       Identity(reservations[i]) = Content /\ reservations[i].status = "confirmed"
=============================================================================
