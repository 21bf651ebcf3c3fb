----------------------------- MODULE Admission -----------------------------
(* The admission gates of governor/ktlo.py as functions of what they read: the
   fire budget of an entity, the seen map of an episode gate in its three
   detection modes, the provenance guard and the idle-runtime culler.  Reading
   and writing the cells are steps of the module that uses these operators. *)
EXTENDS Integers, FiniteSets, Functions

CONSTANTS Entity,       \* the (source, entity) pairs, which are the signal keys too
          States,       \* the states and the items a signal can carry
          MaxFires,     \* the cap of a fire budget
          Cooldown,     \* least time between two fires of one entity, 0 for none
          LongFloor,    \* idle floor of a standing or of the freshest runtime
          ShortFloor    \* idle floor of every other runtime

Never == -1             \* a time stamp that was never written

ASSUME AdmissionAssumption ==
    /\ MaxFires \in Nat /\ Cooldown \in Nat
    /\ LongFloor \in Nat /\ ShortFloor \in Nat
    /\ Entity \cap States = {}

DetectionMode == {"new_items", "state_change", "diff"}

Signal == [entity : Entity, state : States, own : BOOLEAN]

NoCell == [count |-> 0, last |-> Never]

\* can_fire: a pure read of the cell.
CanFire(cell, now) ==
    /\ cell.count < MaxFires
    /\ Cooldown > 0 /\ cell.last # Never => now - cell.last >= Cooldown

\* What commit_fire appends: the cell it read, one fire later.
Fired(cell, now) == [count |-> cell.count + 1, last |-> now]

SelfTriggered(signal) == signal.own

\* A seen map is a partial function from keys (or items) to state hashes.
NotSeen == [k \in {} |-> 0]

Has(seen, key, value) == key \in DOMAIN seen /\ seen[key] = value

\* admit: an item is the state the signal carries (its one item).
Admits(mode, seen, signal) ==
    \/ mode = "new_items" /\ signal.entity \notin DOMAIN seen
    \/ mode = "state_change" /\ ~Has(seen, signal.entity, signal.state)
    \/ mode = "diff" /\ signal.state \notin DOMAIN seen

Put(seen, key, value) ==
    [k \in DOMAIN seen \cup {key} |-> IF k = key THEN value ELSE seen[k]]

\* commit: the map it read with the signal folded in.
Folded(mode, seen, signal) ==
    IF mode = "diff" THEN Put(seen, signal.state, 1)
    ELSE Put(seen, signal.entity, IF mode = "new_items" THEN 1 ELSE signal.state)

\* cull: every runtime has its own floor, an active one none at all.
Freshest(lastActive) ==
    {r \in DOMAIN lastActive : \A q \in DOMAIN lastActive : lastActive[q] <= lastActive[r]}

FloorOf(r, freshest, standing) ==
    IF r \in standing \/ r = freshest THEN LongFloor ELSE ShortFloor

\* The mutant: the freshest runtime has no protection.
CullAll(lastActive, now, active, standing) ==
    {{r \in DOMAIN lastActive \ active :
        now - lastActive[r] >= FloorOf(r, Never, standing)}}

\* The outcomes of one sweep (ties between freshest runtimes are broken by the
\* order of the mapping).
Cull(lastActive, now, active, standing) ==
    {{r \in DOMAIN lastActive \ active :
        now - lastActive[r] >= FloorOf(r, freshest, standing)} :
     freshest \in IF DOMAIN lastActive = {} THEN {Never} ELSE Freshest(lastActive)}
=============================================================================
