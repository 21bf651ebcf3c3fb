---------------------------- MODULE MemoryStore ----------------------------
(***************************************************************************)
(* The AgentCore Memory store (state/statestore.py, MemoryStateStore): one *)
(* writer in front of a remote append-only event log.  A record is tagged  *)
(* with the writer's epoch; checkpoint() appends a snapshot of the newest  *)
(* record of every node and rotates the epoch; a resume reads the latest   *)
(* snapshot and the events of the epoch after it (the warm path), or the   *)
(* whole log (the cold path).  A request or a response can be lost, and    *)
(* the process can die between any two calls.                              *)
(*                                                                         *)
(* Abstractions: as in StateStore; the paginated reads of one replay are   *)
(* one step, since this process is the log's only writer.  `departed`      *)
(* remembers which uses and faults there were beyond the supervisor's own  *)
(* discipline (read before writing, never rewrite a completed node), so    *)
(* that each guarantee names the departures it survives.                   *)
(***************************************************************************)
EXTENDS RecordLog, FiniteSets, SequencesExt

CONSTANTS
  Key, Output, NoOutput,
  MaxEvents,    \* bound: events in the remote log
  MaxSpent,     \* bound: the attempts a put that raises leaves behind
  MaxKinds,     \* bound: kinds of departure in one behaviour
  MaxCrashes    \* bound: deaths of the process

Departures ==
  {"rewrite",           \* put() for a node that is completed
   "early_put",         \* put() before anything was read
   "force_full",        \* replay(force_full=True)
   "lost_put",          \* a put whose response is lost
   "lost_checkpoint"}   \* a checkpoint whose response is lost

ASSUME MemoryAssumption ==
  /\ NoOutput \notin Output
  /\ MaxEvents \in Nat /\ MaxSpent \in Nat /\ MaxKinds \in Nat /\ MaxCrashes \in Nat

VARIABLES
  events,      \* the remote log
  records,     \* the local cache of the log (_records)
  projection,  \* _projection
  attempts,    \* _attempts
  epoch,       \* _epoch
  loaded,      \* _loaded
  acked,       \* history: per key, the attempt of the last validated put that returned
  departed,    \* history: the departures taken
  crashes

cache == <<records, projection, attempts, epoch, loaded>>
vars == <<events, cache, acked, departed, crashes>>

Record == [node : Key, attempt : Nat \ {0}, status : {"validated", "failed"},
           output : Output, epoch : Nat]

Event == [kind : {"record"}, record : Record] \cup
         [kind : {"checkpoint"}, epoch : Nat, snapshot : SUBSET Record]

IsRecord(e) == e.kind = "record"
IsCheckpoint(e) == e.kind = "checkpoint"

Init ==
  /\ events = <<>>
  /\ records = <<>>
  /\ projection = [k \in Key |-> NoOutput]
  /\ attempts = [k \in Key |-> 0]
  /\ epoch = 0
  /\ loaded = FALSE
  /\ acked = [k \in Key |-> 0]
  /\ departed = {}
  /\ crashes = 0

-----------------------------------------------------------------------------
(* The two replay paths, as functions of the remote log *)

\* The records of these epochs, in the order of the log.
RecordsOf(evs, epochs) ==
  LET upto[n \in 0..Len(evs)] ==
        IF n = 0 THEN <<>>
        ELSE IF IsRecord(evs[n]) /\ evs[n].record.epoch \in epochs
        THEN Append(upto[n - 1], evs[n].record)
        ELSE upto[n - 1]
  IN  upto[Len(evs)]

\* Mutant of Cold: the rebuild skips what a checkpoint has compacted.
ColdAfterCheckpoint(evs) ==
  LET Compacted(r) == \E e \in Range(evs) : IsCheckpoint(e) /\ e.epoch >= r.epoch
  IN  SelectSeq(RecordsOf(evs, Nat), LAMBDA r : ~Compacted(r))

\* _full_rebuild: checkpoints are skipped.
Cold(evs) == RecordsOf(evs, Nat)

\* Mutant of Snapshot: the newest validated record of every node.
SnapshotValidated(recs) == {recs[i] : i \in {j \in DOMAIN recs : IsLatestValidated(recs, j)}}

\* checkpoint's snapshot: the newest record of every node.
Snapshot(recs) == {recs[i] : i \in {j \in DOMAIN recs : IsLatest(recs, j)}}

\* _latest_checkpoint: the highest epoch, the last one among equals.
Checkpoints(evs) == {i \in DOMAIN evs : IsCheckpoint(evs[i])}
LatestCheckpoint(evs) ==
  CHOOSE i \in Checkpoints(evs) : \A j \in Checkpoints(evs) :
    \/ j = i
    \/ evs[i].epoch > evs[j].epoch
    \/ evs[i].epoch = evs[j].epoch /\ i > j

\* _replay_from_checkpoint: the snapshot, then every record of the next epoch.
Warm(evs) ==
  LET cp == evs[LatestCheckpoint(evs)]
  IN  SetToSeq(cp.snapshot) \o RecordsOf(evs, {cp.epoch + 1})

Replayed(evs) == IF Checkpoints(evs) = {} THEN Cold(evs) ELSE Warm(evs)

\* _install
Install(recs) ==
  /\ records' = recs
  /\ projection' = [k \in Key |-> Rebuilt(recs, k, NoOutput)]
  /\ attempts' = [k \in Key |-> TopAttempt(recs, k)]
  /\ loaded' = TRUE

-----------------------------------------------------------------------------
(* The writer *)

\* The step takes these departures, if the bound allows it.
Departs(kinds) ==
  /\ departed' = departed \cup kinds
  /\ Cardinality(departed') <= MaxKinds

\* _ensure_loaded, before the first read; a full rebuild keeps the epoch.
Load ==
  /\ ~loaded
  /\ Install(Replayed(events))
  /\ epoch' = IF Checkpoints(events) = {} THEN epoch
              ELSE events[LatestCheckpoint(events)].epoch + 1
  /\ UNCHANGED <<events, acked, departed, crashes>>

ReplayForceFull ==
  /\ Install(Cold(events))
  /\ Departs({"force_full"})
  /\ UNCHANGED <<events, epoch, acked, crashes>>

\* The departures a put for k is, by itself.
Undisciplined(k) ==
  {d \in {"early_put"} : ~loaded} \cup {d \in {"rewrite"} : k \in Completed(records)}

NewRecord(k, o, s) ==
  [node |-> k, attempt |-> attempts[k] + 1, status |-> s, output |-> o, epoch |-> epoch]

RecordEvent(r) == [kind |-> "record", record |-> r]

Put(k, o, s) ==
  /\ Len(events) < MaxEvents
  /\ LET r == NewRecord(k, o, s)
     IN  /\ events' = Append(events, RecordEvent(r))
         /\ records' = Append(records, r)
         /\ acked' = IF s = "validated" THEN [acked EXCEPT ![k] = r.attempt] ELSE acked
  /\ attempts' = [attempts EXCEPT ![k] = @ + 1]
  /\ projection' = IF s = "validated" THEN [projection EXCEPT ![k] = o] ELSE projection
  /\ Departs(Undisciplined(k))
  /\ UNCHANGED <<epoch, loaded, crashes>>

\* create_event raises and nothing is logged, or content_hash has raised: the
\* attempt is spent.
PutRaises(k) ==
  /\ attempts[k] < MaxSpent
  /\ attempts' = [attempts EXCEPT ![k] = @ + 1]
  /\ Departs(Undisciplined(k))
  /\ UNCHANGED <<events, records, projection, epoch, loaded, acked, crashes>>

\* create_event raises for want of a response: the event is in the log, and
\* the local cache does not have it.
PutResponseLost(k, o, s) ==
  /\ Len(events) < MaxEvents
  /\ events' = Append(events, RecordEvent(NewRecord(k, o, s)))
  /\ attempts' = [attempts EXCEPT ![k] = @ + 1]
  /\ Departs(Undisciplined(k) \cup {"lost_put"})
  /\ UNCHANGED <<records, projection, epoch, loaded, acked, crashes>>

CheckpointEvent == [kind |-> "checkpoint", epoch |-> epoch, snapshot |-> Snapshot(records)]

Checkpointing ==
  /\ loaded
  /\ records # <<>>
  /\ Len(events) < MaxEvents
  /\ events' = Append(events, CheckpointEvent)

\* Mutant of Checkpoint: the epoch is not rotated.
CheckpointUnrotated ==
  /\ Checkpointing
  /\ UNCHANGED <<cache, acked, departed, crashes>>

Checkpoint ==
  /\ Checkpointing
  /\ epoch' = epoch + 1
  /\ UNCHANGED <<records, projection, attempts, loaded, acked, departed, crashes>>

\* The response is lost: create_event raises before the epoch is rotated, and
\* the caller (_maybe_auto_checkpoint) swallows the exception and goes on.
CheckpointResponseLost ==
  /\ Checkpointing
  /\ Departs({"lost_checkpoint"})
  /\ UNCHANGED <<cache, acked, crashes>>

\* The process dies; a new one has an empty, unloaded store.
Crash ==
  /\ crashes < MaxCrashes
  /\ crashes' = crashes + 1
  /\ records' = <<>>
  /\ projection' = [k \in Key |-> NoOutput]
  /\ attempts' = [k \in Key |-> 0]
  /\ epoch' = 0
  /\ loaded' = FALSE
  /\ UNCHANGED <<events, acked, departed>>

Next ==
  \/ Load \/ ReplayForceFull \/ Crash
  \/ Checkpoint \/ CheckpointResponseLost
  \/ \E k \in Key : PutRaises(k)
  \/ \E k \in Key, o \in Output, s \in {"validated", "failed"} :
       Put(k, o, s) \/ PutResponseLost(k, o, s)

Spec == Init /\ [][Next]_vars

-----------------------------------------------------------------------------
(* Properties *)

TypeOK ==
  /\ events \in Seq(Event)
  /\ records \in Seq(Record)
  /\ projection \in [Key -> Output \cup {NoOutput}]
  /\ attempts \in [Key -> Nat]
  /\ epoch \in Nat /\ loaded \in BOOLEAN
  /\ acked \in [Key -> Nat] /\ departed \subseteq Departures /\ crashes \in 0..MaxCrashes

\* A key whose last put returned is found validated in recs, with that output
\* or a later one.
Keeps(recs) ==
  \A k \in Key : acked[k] > 0 =>
    \E i \in DOMAIN recs :
      recs[i].node = k /\ IsLatestValidated(recs, i) /\ recs[i].attempt >= acked[k]

\* Under the discipline both replay paths answer every read alike (replay's
\* docstring): the same completed nodes, outputs and attempt counters.
ReplayPathsAgree ==
  departed = {} /\ Checkpoints(events) # {} =>
    LET warm == Warm(events)
        cold == Cold(events)
    IN  /\ Completed(warm) = Completed(cold)
        /\ \A k \in Key :
             /\ Rebuilt(warm, k, NoOutput) = Rebuilt(cold, k, NoOutput)
             /\ TopAttempt(warm, k) = TopAttempt(cold, k)

\* A validated output whose put returned is there after a resume, even when
\* the responses of other puts were lost.
AckedIsDurable == departed \subseteq {"lost_put"} => Keeps(Replayed(events))

\* Whatever happened, a full rebuild finds it: the raw events are the truth
\* and no checkpoint replaces them (checkpoint's docstring).
ColdIsDurable == Keeps(Cold(events))

\* Nothing a put acknowledged is lost: a resume finds it unless the writer left
\* its discipline, and the raw events keep it even then.
NothingAckedIsLost == TypeOK /\ AckedIsDurable /\ ColdIsDurable

\* In the remote log the attempts of a key grow, across checkpoints, failed
\* calls, crashes and resumes, also when completed nodes are written again.
AttemptsGrow ==
  departed \subseteq {"rewrite"} =>
    LET recs == Cold(events)
    IN  \A i, j \in DOMAIN recs :
          i < j /\ recs[i].node = recs[j].node => recs[i].attempt < recs[j].attempt

\* A checkpoint that raised costs nothing but time: the loop degrades to a
\* full-log resume, which is always correct (_maybe_auto_checkpoint).
FailedCheckpointIsHarmless ==
  departed \subseteq {"lost_checkpoint"} => Keeps(Replayed(events))
=============================================================================
