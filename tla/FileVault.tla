----------------------------- MODULE FileVault -----------------------------
(***************************************************************************)
(* The file-vault store (state/filevault.py, FileVaultStateStore and       *)
(* _Critical): processes that share one run directory.  Every put writes   *)
(* one note file; the exclusive lock on `.lock` serialises the critical    *)
(* sections, and the generation token in `.gen`, advanced after a put,     *)
(* tells a peer that its in-memory copy of the notes is out of date.  A    *)
(* process can die, and a write can fail, between the note and the token.  *)
(*                                                                         *)
(* Abstractions: a put's navigation notes (_run.md, the version timeline)  *)
(* are only the occasion of a failure; dedup marks are left to StateStore. *)
(* A record's address is the node's own or, for a crash, one of the        *)
(* invocation attempt under it ("node/1"); _slug keeps addresses apart.    *)
(* The threads of a process are one thread: its reentrant lock is held     *)
(* whenever `.lock` is.                                                    *)
(***************************************************************************)
EXTENDS RecordLog, FiniteSets, FiniteSetsExt, SequencesExt

CONSTANTS
  Proc, Nobody,
  Key, Output, NoOutput,
  FailureAddress, \* what a failed record is addressed as: "node", "attempt"
  MaxClock,    \* bound: puts begun over one copy of the notes
  MaxSpent,    \* bound: the attempts a put that leaves no note leaves behind
  MaxCrashes   \* bound: deaths of processes

ASSUME VaultAssumption ==
  /\ Nobody \notin Proc /\ NoOutput \notin Output
  /\ FailureAddress \subseteq {"node", "attempt"}
  /\ MaxClock \in Nat /\ MaxSpent \in Nat /\ MaxCrashes \in Nat

VARIABLES
  notes,      \* the note files, as a set of records
  gen,        \* .gen
  lock,       \* the holder of the lock on .lock
  records,    \* per process, _records
  projection, \* ... _projection
  attempts,   \* ... _attempts
  clock,      \* ... _clock
  loaded,     \* ... _loaded
  own_gen,    \* ... _own_gen
  pc,         \* where the process is in its critical section
  writing,    \* the record its put is about
  acked,      \* history: the records whose put returned, in that order
  torn,       \* history: was a put cut short after it had written its note?
  crashes

cache == <<records, projection, attempts, clock, loaded, own_gen>>
disk == <<notes, gen>>
history == <<acked, torn, crashes>>
vars == <<disk, lock, cache, pc, writing, history>>

Record == [node : Key, attempt : Nat \ {0}, clock : Nat \ {0},
           status : {"validated", "failed"}, address : {"node", "attempt"},
           output : Output]

NoRecord == <<>>

Init ==
  /\ notes = {} /\ gen = 0
  /\ lock = Nobody
  /\ records = [p \in Proc |-> <<>>]
  /\ projection = [p \in Proc |-> [k \in Key |-> NoOutput]]
  /\ attempts = [p \in Proc |-> [k \in Key |-> 0]]
  /\ clock = [p \in Proc |-> 0]
  /\ loaded = [p \in Proc |-> FALSE]
  /\ own_gen = [p \in Proc |-> -1]
  /\ pc = [p \in Proc |-> "out"]
  /\ writing = [p \in Proc |-> NoRecord]
  /\ acked = <<>> /\ torn = FALSE /\ crashes = 0

-----------------------------------------------------------------------------
(* The critical section *)

\* Mutant of NoteName: without the attempt.
NoteNameOfNode(r) == r.node

\* _note_filename
NoteName(r) == <<r.node, r.address, r.attempt>>

LastClock == Max({0} \cup {r.clock : r \in notes})

\* _load: the notes in the order of their timestamps, then of their names, as
\* far as two notes of one node go ("node-1__..." sorts before "node__...").
Loaded ==
  LET Of(c, a) == SetToSeq({r \in notes : r.clock = c /\ r.address = a})
      upto[c \in 0..LastClock] ==
        IF c = 0 THEN <<>> ELSE upto[c - 1] \o Of(c, "attempt") \o Of(c, "node")
  IN  upto[LastClock]

Load(p) ==
  /\ \E recs \in {Loaded} :
       /\ records' = [records EXCEPT ![p] = recs]
       /\ projection' = [projection EXCEPT ![p] = [k \in Key |-> Rebuilt(recs, k, NoOutput)]]
       /\ attempts' = [attempts EXCEPT ![p] = [k \in Key |-> TopAttempt(recs, k)]]
       /\ clock' = [clock EXCEPT ![p] = LastClock]
  /\ own_gen' = [own_gen EXCEPT ![p] = gen]
  /\ loaded' = [loaded EXCEPT ![p] = TRUE]

\* Mutant of Stale: a copy once loaded is never reloaded.
StaleOnlyAtFirst(p) == ~loaded[p]

\* The copy is reloaded on entry when a peer has advanced .gen.
Stale(p) == ~loaded[p] \/ own_gen[p] # gen

Enter(p) ==
  /\ pc[p] = "out"
  /\ lock = Nobody
  /\ lock' = p
  /\ pc' = [pc EXCEPT ![p] = "in"]
  /\ IF Stale(p) THEN Load(p) ELSE UNCHANGED cache
  /\ UNCHANGED <<disk, writing, history>>

Out(p) ==
  /\ lock' = Nobody
  /\ pc' = [pc EXCEPT ![p] = "out"]
  /\ writing' = [writing EXCEPT ![p] = NoRecord]

\* get, completed and records only read the copy.
Leave(p) ==
  /\ pc[p] = "in"
  /\ Out(p)
  /\ UNCHANGED <<disk, cache, history>>

\* The first lines of put.
CountAttempt(p, k) ==
  /\ pc[p] = "in"
  /\ clock[p] < MaxClock
  /\ clock' = [clock EXCEPT ![p] = @ + 1]
  /\ attempts' = [attempts EXCEPT ![p][k] = @ + 1]

\* content_hash or the write of the note raises: nothing is on disk.
PutRaises(p, k) ==
  /\ attempts[p][k] < MaxSpent
  /\ CountAttempt(p, k)
  /\ Out(p)
  /\ UNCHANGED <<disk, records, projection, loaded, own_gen, history>>

\* _atomic_write: a note of that name is replaced.
Replace(r) == notes' = {s \in notes : NoteName(s) # NoteName(r)} \cup {r}

NewRecord(p, k, o, s, a) ==
  [node |-> k, attempt |-> attempts[p][k] + 1, clock |-> clock[p] + 1, status |-> s,
   address |-> a, output |-> o]

WriteNote(p, k, o, s, a) ==
  /\ CountAttempt(p, k)
  /\ Replace(NewRecord(p, k, o, s, a))
  /\ writing' = [writing EXCEPT ![p] = NewRecord(p, k, o, s, a)]
  /\ pc' = [pc EXCEPT ![p] = "written"]
  /\ UNCHANGED <<gen, lock, records, projection, loaded, own_gen, history>>

\* _write_run_entry or _maybe_version raises: put does, and .gen is not advanced.
WriteFails(p) ==
  /\ pc[p] = "written"
  /\ Out(p)
  /\ torn' = TRUE
  /\ UNCHANGED <<disk, cache, acked, crashes>>

Remember(p) ==
  /\ records' = [records EXCEPT ![p] = Append(@, writing[p])]
  /\ projection' = IF writing[p].status = "validated"
                     THEN [projection EXCEPT ![p][writing[p].node] = writing[p].output]
                     ELSE projection

\* Mutant of Bump: a failed record does not advance .gen.
BumpValidated(p) ==
  /\ pc[p] = "written"
  /\ Remember(p)
  /\ gen' = IF writing[p].status = "validated" THEN gen + 1 ELSE gen
  /\ own_gen' = [own_gen EXCEPT ![p] = gen']
  /\ pc' = [pc EXCEPT ![p] = "bumped"]
  /\ UNCHANGED <<notes, lock, attempts, clock, loaded, writing, history>>

\* The rest of put, and _bump_gen on exit.
Bump(p) ==
  /\ pc[p] = "written"
  /\ Remember(p)
  /\ gen' = gen + 1
  /\ own_gen' = [own_gen EXCEPT ![p] = gen + 1]
  /\ pc' = [pc EXCEPT ![p] = "bumped"]
  /\ UNCHANGED <<notes, lock, attempts, clock, loaded, writing, history>>

\* The lock is released and put returns.
Return(p) ==
  /\ pc[p] = "bumped"
  /\ acked' = Append(acked, writing[p])
  /\ Out(p)
  /\ UNCHANGED <<disk, cache, torn, crashes>>

\* The process dies: the system drops its lock; a new one starts in its place.
Crash(p) ==
  /\ crashes < MaxCrashes
  /\ crashes' = crashes + 1
  /\ torn' = (torn \/ pc[p] = "written")
  /\ lock' = IF lock = p THEN Nobody ELSE lock
  /\ pc' = [pc EXCEPT ![p] = "out"]
  /\ writing' = [writing EXCEPT ![p] = NoRecord]
  /\ records' = [records EXCEPT ![p] = <<>>]
  /\ projection' = [projection EXCEPT ![p] = [k \in Key |-> NoOutput]]
  /\ attempts' = [attempts EXCEPT ![p] = [k \in Key |-> 0]]
  /\ clock' = [clock EXCEPT ![p] = 0]
  /\ loaded' = [loaded EXCEPT ![p] = FALSE]
  /\ own_gen' = [own_gen EXCEPT ![p] = -1]
  /\ UNCHANGED <<disk, acked>>

Step(p) ==
  \/ Enter(p) \/ Leave(p) \/ WriteFails(p) \/ Bump(p) \/ Return(p) \/ Crash(p)
  \/ \E k \in Key : PutRaises(p, k)
  \/ \E k \in Key, o \in Output :
       \/ WriteNote(p, k, o, "validated", "node")
       \/ \E a \in FailureAddress : WriteNote(p, k, o, "failed", a)

Next == \E p \in Proc : Step(p)

Spec == Init /\ [][Next]_vars

-----------------------------------------------------------------------------
(* Properties *)

TypeOK ==
  /\ notes \subseteq Record /\ gen \in Nat
  /\ lock \in Proc \cup {Nobody}
  /\ records \in [Proc -> Seq(Record)]
  /\ projection \in [Proc -> [Key -> Output \cup {NoOutput}]]
  /\ attempts \in [Proc -> [Key -> Nat]]
  /\ clock \in [Proc -> Nat]
  /\ loaded \in [Proc -> BOOLEAN]
  /\ own_gen \in [Proc -> Nat \cup {-1}]
  /\ pc \in [Proc -> {"out", "in", "written", "bumped"}]
  /\ writing \in [Proc -> Record \cup {NoRecord}]
  /\ acked \in Seq(Record) /\ torn \in BOOLEAN /\ crashes \in 0..MaxCrashes

\* A record whose put returned stays on disk, as it was written, through every
\* crash and failed write of any process.
AckedIsDurable == \A i \in DOMAIN acked : acked[i] \in notes

\* Inside the critical section a process reads every record whose put had
\* returned, whichever process wrote it.
ReadsAreFresh ==
  \A p \in Proc : pc[p] = "in" =>
    \A i \in DOMAIN acked : acked[i] \in Range(records[p])

\* The puts that returned form an append-only run log: the processes never
\* number two attempts of a node alike, or backwards.
Promise == INSTANCE RunLog WITH log <- acked
ImplementsRunLog == Promise!Spec

\* As long as no put was cut short, equal generations mean equal contents: a
\* copy that need not be reloaded is the directory, and answers like it.
GenerationIsContent ==
  ~torn /\ lock = Nobody =>
    \A p \in Proc : ~Stale(p) =>
      /\ Range(records[p]) = notes
      /\ \A k \in Key : projection[p][k] = Rebuilt(records[p], k, NoOutput)

\* What a process reads is what the directory holds: inside the critical section
\* whatever was acknowledged, and outside of it, while the generations agree and
\* no put was cut short, all there is.
CopiesAreCurrent == TypeOK /\ ReadsAreFresh /\ GenerationIsContent

\* Every put writes one immutable note file (the docstring of
\* FileVaultStateStore): a note never changes once it is written.
NotesAreImmutable == [][notes \subseteq notes']_vars
=============================================================================
