----------------------------- MODULE StateStore -----------------------------
(***************************************************************************)
(* A state store with one writer (state/statestore.py): the append-only    *)
(* log of records and the caches kept beside it - the projection get()     *)
(* reads, the attempt counters, the clock.  put() is the one of            *)
(* InProcessStateStore; Reload is what a fresh durable store does with the *)
(* log it finds (the cold path of MemoryStateStore.replay).  Every method  *)
(* runs under one reentrant lock, so each is one action.                   *)
(*                                                                         *)
(* Abstractions: an output is a member of Output and content_hash is       *)
(* equality of outputs; of a record's metadata, `status` and `type` are    *)
(* kept and the rest (wiring, failure class, the node a notice is about)   *)
(* is one value `meta` of the set Meta.                                    *)
(***************************************************************************)
EXTENDS RecordLog

CONSTANTS
  Key,            \* the ids records are written under
  Coordination,   \* the reserved id of coordination notices
  Output,         \* values a node can produce
  NoOutput,       \* "not in the projection"
  Meta,           \* the metadata a record can carry
  MaxRecords      \* bound: the log holds at most this many records

ASSUME StoreAssumption ==
  /\ Coordination \in Key
  /\ NoOutput \notin Output
  /\ MaxRecords \in Nat

VARIABLES log, projection, attempts, clock

vars == <<log, projection, attempts, clock>>

Status == {"validated", "failed", "superseded"}
RecordType == {"agent_output", "dedup", "coordination"}

Record == [node : Key, output : Output \cup {NoOutput}, status : Status,
           attempt : Nat, type : RecordType, meta : Meta]

Init ==
  /\ log = <<>>
  /\ projection = [k \in Key |-> NoOutput]
  /\ attempts = [k \in Key |-> 0]
  /\ clock = 0

\* The body of put(): an agent output equal to the node's newest validated
\* output is still recorded, as a "dedup" record.
Admit(k, output, status, type, meta) ==
  LET dedup == projection[k] # NoOutput /\ projection[k] = output
  IN
  /\ Len(log) < MaxRecords
  /\ clock' = clock + 1
  /\ attempts' = [attempts EXCEPT ![k] = @ + 1]
  /\ log' = Append(log, [node |-> k, output |-> output, status |-> status,
                         attempt |-> attempts[k] + 1,
                         type |-> IF dedup /\ type = "agent_output" THEN "dedup" ELSE type,
                         meta |-> meta])
  /\ projection' = IF status = "validated"
                     THEN [projection EXCEPT ![k] = output]
                     ELSE projection

\* A node's output is admitted, or its failure is recorded.
Put(k, output, status, meta) == Admit(k, output, status, "agent_output", meta)

\* put() of an output that has no canonical JSON: content_hash raises after
\* the clock and the attempt counter have moved; nothing is recorded.
PutRaises(k) ==
  /\ attempts[k] < MaxRecords
  /\ clock' = clock + 1
  /\ attempts' = [attempts EXCEPT ![k] = @ + 1]
  /\ UNCHANGED <<log, projection>>

\* append_coordination_notice: under the reserved id, with a status that
\* keeps it out of the read model.
Notice(meta) == Admit(Coordination, NoOutput, "superseded", "coordination", meta)

\* Mutant of Reload: the attempt counters start again.
ReloadFresh ==
  /\ projection' = [k \in Key |-> Rebuilt(log, k, NoOutput)]
  /\ attempts' = [k \in Key |-> 0]
  /\ clock' = Len(log)
  /\ UNCHANGED log

\* A fresh store over the same log rebuilds every cache from it.
Reload ==
  /\ projection' = [k \in Key |-> Rebuilt(log, k, NoOutput)]
  /\ attempts' = [k \in Key |-> TopAttempt(log, k)]
  /\ clock' = Len(log)
  /\ UNCHANGED log

Next ==
  \/ \E k \in Key \ {Coordination}, o \in Output, s \in {"validated", "failed"}, m \in Meta :
       Put(k, o, s, m)
  \/ \E k \in Key \ {Coordination} : PutRaises(k)
  \/ \E m \in Meta : Notice(m)
  \/ Reload

Spec == Init /\ [][Next]_vars

-----------------------------------------------------------------------------
(* Properties *)

\* Types of the four variables.
TypeOK ==
  /\ log \in Seq(Record)
  /\ projection \in [Key -> Output \cup {NoOutput}]
  /\ attempts \in [Key -> Nat]
  /\ clock \in Nat

\* The projection get() answers from agrees with the log: a node is in it
\* exactly when it has a validated record, and then with the output of the
\* newest one (put() against _index_records: what a fresh store reads from the
\* log is what the live one answered).
ProjectionIsLog ==
  \A k \in Key :
    \/ /\ projection[k] = NoOutput
       /\ \A i \in DOMAIN log : log[i].node = k => log[i].status # "validated"
    \/ \E i \in DOMAIN log : /\ log[i].node = k
                             /\ IsLatestValidated(log, i)
                             /\ projection[k] = log[i].output
                             /\ projection[k] # NoOutput

\* Attempts are unique per node and a counter never lags behind the log, so
\* "latest" is never decided by a tie (put() against _is_newer).
AttemptsAgree ==
  /\ DistinctAttempts(log)
  /\ \A i \in DOMAIN log : log[i].attempt <= attempts[log[i].node]

\* The supervisor calls get() on every completed node: it never raises
\* KeyError there (the last line of Supervisor.run).
CompletedIsReadable == \A k \in Completed(log) : projection[k] # NoOutput

\* A record marked dedup repeats the output its node already had validated
\* when it was written.
DedupRepeats ==
  \A i \in DOMAIN log : log[i].type = "dedup" =>
    \E j \in 1..(i - 1) :
      /\ log[j].node = log[i].node
      /\ log[j].status = "validated"
      /\ log[j].output = log[i].output
      /\ \A m \in (j + 1)..(i - 1) :
           log[m].node = log[i].node => log[m].status # "validated"

\* The log is honest about itself, whatever order of puts, failed puts, notices
\* and reloads wrote it: attempt numbers order a node's records, and a record
\* marked dedup is the repetition it says it is.
LogIsHonest == AttemptsAgree /\ DedupRepeats

\* The store implements the append-only run log.
Promise == INSTANCE RunLog
ImplementsRunLog == Promise!Spec
=============================================================================
