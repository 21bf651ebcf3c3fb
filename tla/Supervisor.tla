----------------------------- MODULE Supervisor -----------------------------
(***************************************************************************)
(* Serial runs of the Supervisor over one durable store                    *)
(* (execute/supervisor.py, run at parallel = 1, and _dispatch).  Each run  *)
(* walks its plan's order once: it skips what is already completed,        *)
(* withholds what governance holds, records what is blocked, and           *)
(* dispatches the rest - assemble the payload from the producers' outputs, *)
(* check the ARN, invoke with retries, admit the output.  Runs follow one  *)
(* another on the same store, after a return, an exception, or the death   *)
(* of the process, possibly with another plan.                             *)
(*                                                                         *)
(* Abstractions: nodes are the positions of the plan's order; a plan is    *)
(* its wiring, node -> producers, and its fingerprint is the plan itself;  *)
(* Partial values satisfy a node's output schema and yet lack a field that *)
(* a consumer's AgentRef path names (a wiring of an optional field).       *)
(***************************************************************************)
EXTENDS RecordLog

CONSTANTS
  N,              \* nodes per plan
  Plan,           \* the plans runs may be given
  Value,          \* outputs an agent can return
  Partial,        \* those whose wired field is missing
  Unstorable,     \* an output that passes its schema and has no canonical JSON
  Failure,        \* the output of a failed record
  NoOutput,
  PlanIdentity,   \* _PLAN_IDENTITY_NODE
  Coordination,
  MaxAttempts,    \* bound: the largest max_attempts a Supervisor is built with
  MaxRuns,        \* bound: runs started on the store
  MaxRecords      \* bound: records in the log

Node == 1..N

Wirings == {w \in [Node -> SUBSET Node] : \A n \in Node : w[n] \subseteq 1..(n - 1)}

ASSUME SupervisorAssumption ==
  /\ N \in Nat
  /\ Plan \subseteq Wirings
  /\ Partial \subseteq Value
  /\ NoOutput \notin Value \cup Plan \cup {Failure, Unstorable}
  /\ Unstorable \notin Value
  /\ PlanIdentity \notin Node /\ Coordination \notin Node
  /\ PlanIdentity # Coordination
  /\ MaxAttempts \in Nat \ {0} /\ MaxRuns \in Nat /\ MaxRecords \in Nat

Key == Node \cup {PlanIdentity, Coordination}
Output == Value \cup Plan \cup {Failure}
Meta == [consumes : SUBSET Node, class : {"none", "crash", "hold"}]

VARIABLES
  log, projection, attempts, clock,  \* the store
  options,    \* how every Supervisor on this store is constructed
  plan, held, \* the current run's arguments
  pc,         \* where the run is
  at,         \* the node the walk has reached; N + 1 at the end
  payload,    \* producer -> output, what the invoke is given
  tries,      \* the attempt counter of _dispatch
  got,        \* the output of the invoke
  runs,       \* runs started
  base,       \* history: Len(log) when the run started
  used        \* history: the payload each admitted output was computed from

Store == INSTANCE StateStore

storeVars == <<log, projection, attempts, clock>>
runVars == <<plan, held, at, payload, tries, got>>
vars == <<storeVars, options, runVars, pc, runs, base, used>>

Options == [on_error : {"raise", "record"}, max_attempts : 1..MaxAttempts,
            verify_plan_identity : BOOLEAN]

Ended == {"idle", "returned", "raised"}
Nothing == [p \in {} |-> NoOutput]

Init ==
  /\ Store!Init
  /\ options \in Options
  /\ plan \in Plan /\ held = {}
  /\ pc = "idle" /\ at = 1
  /\ payload = Nothing /\ tries = 0 /\ got = NoOutput
  /\ runs = 0 /\ base = 0
  /\ used = [n \in Node |-> Nothing]

-----------------------------------------------------------------------------
(* A run *)

\* A Supervisor is built over the store with a plan and a hold set, and
\* run() is called.
StartRun(p, h) ==
  /\ pc \in Ended
  /\ runs < MaxRuns
  /\ runs' = runs + 1
  /\ base' = Len(log)
  /\ plan' = p /\ held' = h
  /\ pc' = IF options.verify_plan_identity THEN "identity" ELSE "walk"
  /\ at' = 1
  /\ payload' = Nothing /\ tries' = 0 /\ got' = NoOutput
  /\ UNCHANGED <<storeVars, options, used>>

\* _persisted_plan_fingerprint: the identity records found by the scan.
Identities == {i \in DOMAIN log : log[i].node = PlanIdentity}

\* _verify_or_persist_plan_identity
PersistIdentity ==
  /\ pc = "identity"
  /\ Identities = {}
  /\ Store!Put(PlanIdentity, plan, "validated", [consumes |-> {}, class |-> "none"])
  /\ pc' = "walk"
  /\ UNCHANGED <<options, runVars, runs, base, used>>

\* Mutant of VerifyIdentity: any recorded identity is accepted.
VerifyIdentityExists ==
  /\ pc = "identity"
  /\ Identities # {}
  /\ pc' = "walk"
  /\ UNCHANGED <<storeVars, options, runVars, runs, base, used>>


VerifyIdentity ==
  /\ pc = "identity"
  /\ Identities # {}
  /\ LET first == CHOOSE i \in Identities : \A j \in Identities : i <= j
     IN  pc' = IF log[first].output = plan THEN "walk" ELSE "raised"
  /\ UNCHANGED <<storeVars, options, runVars, runs, base, used>>

\* Mutant of NextNode: the loop does not advance.
NextNodeStays ==
  /\ at' = at /\ pc' = "walk"
  /\ payload' = Nothing /\ tries' = 0 /\ got' = NoOutput
  /\ UNCHANGED <<plan, held>>

\* The loop of run() moves on to the next node of the order.
NextNode ==
  /\ at' = at + 1 /\ pc' = "walk"
  /\ payload' = Nothing /\ tries' = 0 /\ got' = NoOutput
  /\ UNCHANGED <<plan, held>>

Blocked == plan[at] \ Completed(log)

Walking == pc = "walk" /\ at <= N

\* resume: the node already has a recorded validated output.
SkipCompleted ==
  /\ Walking
  /\ at \in Completed(log)
  /\ NextNode
  /\ UNCHANGED <<storeVars, options, runs, base, used>>

\* governance hold: withheld, and nothing is written.
SkipHeld ==
  /\ Walking
  /\ at \in held \ Completed(log)
  /\ NextNode
  /\ UNCHANGED <<storeVars, options, runs, base, used>>

\* Mutant of RecordBlocked: the hold is not looked at before the producers.
RecordBlockedHeld ==
  /\ Walking
  /\ at \notin Completed(log)
  /\ Blocked # {}
  /\ Store!Put(at, Failure, "failed", [consumes |-> {}, class |-> "hold"])
  /\ NextNode
  /\ UNCHANGED <<options, runs, base, used>>

\* Mutant of RecordBlocked: the producers are looked at before the resume.
RecordBlockedCompleted ==
  /\ Walking
  /\ at \notin held
  /\ Blocked # {}
  /\ Store!Put(at, Failure, "failed", [consumes |-> {}, class |-> "hold"])
  /\ NextNode
  /\ UNCHANGED <<options, runs, base, used>>

\* blocked-skip: some producer has not completed.
RecordBlocked ==
  /\ Walking
  /\ at \notin held \cup Completed(log)
  /\ Blocked # {}
  /\ Store!Put(at, Failure, "failed", [consumes |-> {}, class |-> "hold"])
  /\ NextNode
  /\ UNCHANGED <<options, runs, base, used>>

\* Mutant of Dispatching: no resume.
DispatchingAgain ==
  /\ Walking
  /\ at \notin held
  /\ Blocked = {}


Dispatching ==
  /\ Walking
  /\ at \notin held \cup Completed(log)
  /\ Blocked = {}

\* The payload of _dispatch: every wired field, read from the projection.
Assemble ==
  /\ Dispatching
  /\ \A p \in plan[at] : projection[p] \notin Partial
  /\ payload' = [p \in plan[at] |-> projection[p]]
  /\ pc' = "check"
  /\ UNCHANGED <<storeVars, options, plan, held, at, tries, got, runs, base, used>>

\* extract() raises on a missing field, outside the try of _dispatch: it
\* escapes run() whatever on_error is.
AssembleFails ==
  /\ Dispatching
  /\ \E p \in plan[at] : projection[p] \in Partial
  /\ pc' = "raised"
  /\ UNCHANGED <<storeVars, options, runVars, runs, base, used>>

\* record_failure for a crash of the node itself, or the exception goes on.
Fails ==
  \/ /\ options.on_error = "raise"
     /\ pc' = "raised"
     /\ UNCHANGED <<storeVars, runVars>>
  \/ /\ options.on_error = "record"
     /\ Store!Put(at, Failure, "failed", [consumes |-> plan[at], class |-> "crash"])
     /\ NextNode

\* _check_arn_integrity: a placeholder or stale ARN is never retried.
IntegrityHolds ==
  /\ pc = "check"
  /\ pc' = "invoke"
  /\ tries' = 1
  /\ UNCHANGED <<storeVars, options, plan, held, at, payload, got, runs, base, used>>

IntegrityFails ==
  /\ pc = "check"
  /\ Fails
  /\ UNCHANGED <<options, runs, base, used>>

\* The agent answers and the answer passes its schema and acceptance gates.
InvokeSucceeds(v) ==
  /\ pc = "invoke"
  /\ got' = v
  /\ pc' = "admit"
  /\ UNCHANGED <<storeVars, options, plan, held, at, payload, tries, runs, base, used>>

\* The transport or a gate raised and an attempt is left.
InvokeRetries ==
  /\ pc = "invoke"
  /\ options.on_error = "record"
  /\ tries < options.max_attempts
  /\ tries' = tries + 1
  /\ UNCHANGED <<storeVars, options, plan, held, at, payload, got, pc, runs, base, used>>

\* The transport or a gate raised and it is terminal.
InvokeFails ==
  /\ pc = "invoke"
  /\ options.on_error = "record" => tries >= options.max_attempts
  /\ Fails
  /\ UNCHANGED <<options, runs, base, used>>

\* The put that ends _dispatch.
Admits ==
  /\ pc = "admit"
  /\ got # Unstorable
  /\ Store!Put(at, got, "validated", [consumes |-> plan[at], class |-> "none"])
  /\ used' = [used EXCEPT ![at] = payload]
  /\ NextNode
  /\ UNCHANGED <<options, runs, base>>

\* ... raises on an output content_hash cannot serialise.
AdmitRaises ==
  /\ pc = "admit"
  /\ got = Unstorable
  /\ Store!PutRaises(at)
  /\ pc' = "raised"
  /\ UNCHANGED <<options, runVars, runs, base, used>>

\* The walk is over: run() returns the outputs of the completed nodes.
Return ==
  /\ pc = "walk" /\ at > N
  /\ pc' = "returned"
  /\ UNCHANGED <<storeVars, options, runVars, runs, base, used>>

\* The process dies, or ends; a later run loads a fresh store from the log.
Crash ==
  /\ pc # "idle"
  /\ Store!Reload
  /\ pc' = "idle"
  /\ UNCHANGED <<options, runVars, runs, base, used>>

Step ==
  \/ PersistIdentity \/ VerifyIdentity
  \/ SkipCompleted \/ SkipHeld \/ RecordBlocked
  \/ Assemble \/ AssembleFails
  \/ IntegrityHolds \/ IntegrityFails
  \/ \E v \in Value \cup {Unstorable} : InvokeSucceeds(v)
  \/ InvokeRetries \/ InvokeFails
  \/ Admits \/ AdmitRaises
  \/ Return

Next ==
  \/ \E p \in Plan, h \in SUBSET Node : StartRun(p, h)
  \/ Step
  \/ Crash

Spec == Init /\ [][Next]_vars

\* The thread that runs run() is scheduled, and an invoke returns or raises
\* (the transport has timeouts).
FairSpec == Spec /\ WF_vars(Step)

-----------------------------------------------------------------------------
(* Properties *)

TypeOK ==
  /\ Store!TypeOK
  /\ options \in Options
  /\ plan \in Plan /\ held \subseteq Node
  /\ pc \in Ended \cup {"identity", "walk", "check", "invoke", "admit"}
  /\ at \in 1..(N + 1)
  /\ tries \in 0..MaxAttempts
  /\ got \in Value \cup {Unstorable, NoOutput}
  /\ runs \in Nat /\ base \in Nat

\* The store's records of nodes, and those written by the current run.
NodeRecords == {i \in DOMAIN log : log[i].node \in Node}
NewRecords(n) == {i \in DOMAIN log : i > base /\ log[i].node = n}

\* Every run over the store, however it ends and whatever plan it follows,
\* produces each output once, from its producers' outputs (resume = replay).
Result == [n \in Node |-> projection[n]]
Promise == INSTANCE Dataflow WITH result <- Result, NoValue <- NoOutput
ImplementsDataflow == Promise!Spec

\* A completed node is never executed again: its one validated record is the
\* newest it has, whatever runs and plans follow.
ValidatedIsNewest ==
  \A i \in NodeRecords : log[i].status = "validated" => IsLatest(log, i)

\* With the identity guard, all outputs of the store come from one plan, the
\* one its first run recorded (PlanIdentityError's docstring).
OnePlan ==
  options.verify_plan_identity =>
    \A i \in NodeRecords : log[i].status = "validated" =>
      \E j \in Identities : /\ j < i
                            /\ log[i].meta.consumes = log[j].output[log[i].node]

\* A run that returns accounts for every node, exactly once: it is completed,
\* or it was held and left no trace, or this run recorded one failure for it -
\* a hold that names a missing producer, or a crash of the node itself with
\* all its producers completed.
RunExplained ==
  pc = "returned" =>
    \A n \in Node :
      \/ n \in Completed(log)
      \/ n \in held /\ NewRecords(n) = {}
      \/ /\ n \notin held
         /\ \E i \in DOMAIN log :
              /\ NewRecords(n) = {i}
              /\ log[i].status = "failed"
              /\ log[i].meta.class = IF plan[n] \subseteq Completed(log) THEN "crash" ELSE "hold"

\* Every run ends: it returns, raises, or its process dies.
RunEnds == pc \notin Ended ~> pc \in Ended
=============================================================================
