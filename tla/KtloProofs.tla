----------------------------- MODULE KtloProofs ----------------------------
(***************************************************************************)
(* Proofs about Ktlo, for every number of daemons, entities, floors,       *)
(* standing runtimes and bounds, and for every detection mode and order of *)
(* steps: the idle-runtime culler beside the daemons, the tally a run      *)
(* returns, and the accounts the admission gates keep in the store.        *)
(***************************************************************************)
EXTENDS Ktlo, SequenceTheorems, FiniteSetTheorems, TLAPS

(***************************************************************************)
(* The inductive invariant.  The runtime of an episode in flight is up     *)
(* (Worked).  The fleet has a runtime that was active since the last       *)
(* episode ended, or that episode is as old as the long floor (Warm): the  *)
(* freshest of the runtimes that are up is at least as fresh as that one,  *)
(* and the sweep holds it to the long floor.                               *)
(***************************************************************************)
Episode == [entity : Entity, state : States, own : BOOLEAN, by : Daemon, at : Nat,
            fired : Int, keyed : BOOLEAN]

Framed(r) ==
  /\ {"pc", "copy", "batch"} \subseteq DOMAIN r
  /\ r.batch \in Seq(Signal)
  /\ r.pc = "polled" => r.copy \in Seq(Signal)
  /\ r.pc \in {"episode", "fire", "put_fire", "key", "put_key"} => r.batch # <<>>

Types ==
  /\ run = [d \in Daemon |-> run[d]]
  /\ \A d \in Daemon : Framed(run[d])
  /\ queue \in [Daemon -> Seq(Signal)]
  /\ crew \in [Entity -> Nat \cup {Never}]
  /\ episodes \in Seq(Episode)
  /\ now \in Nat

Worked == \A d \in Daemon : At(d, "episode") => crew[Head1(d).entity] # Never

Warm ==
  episodes # <<>> =>
    \/ now - Last(episodes).at >= LongFloor
    \/ \E e \in Entity : crew[e] # Never /\ crew[e] >= Last(episodes).at

IInv == Types /\ Worked /\ Warm

Turns(d, r) == run' = [run EXCEPT ![d] = r]

LEMMA TurnFacts ==
  ASSUME Types, NEW d \in Daemon, NEW r, Turns(d, r)
  PROVE  /\ run' = [c \in Daemon |-> run'[c]]
         /\ run'[d] = r
         /\ \A c \in Daemon : c # d => run'[c] = run[c]
BY DEF Types, Turns

LEMMA HeadIsSignal ==
  ASSUME Types, NEW d \in Daemon, run[d].batch # <<>>
  PROVE  /\ Head1(d) \in Signal /\ Head1(d).entity \in Entity
         /\ Tail(run[d].batch) \in Seq(Signal)
<1>1. run[d].batch \in Seq(Signal)
  BY DEF Types, Framed
<1>2. Head(run[d].batch) \in Signal /\ Tail(run[d].batch) \in Seq(Signal)
  BY <1>1
<1>3. QED
  BY <1>2 DEF Head1, Signal

(***************************************************************************)
(* What a step of one daemon preserves when it leaves the runtimes that    *)
(* are up alone: Moves for its types and its runtime at work, Rests when   *)
(* it leaves the fleet and the episodes as they are.                       *)
(***************************************************************************)
LEMMA Moves ==
  ASSUME IInv, NEW d \in Daemon, NEW r, Turns(d, r), Framed(r),
         r.pc = "episode" => crew'[Head(r.batch).entity] # Never,
         \A e \in Entity : crew[e] # Never => crew'[e] # Never,
         queue' \in [Daemon -> Seq(Signal)],
         crew' \in [Entity -> Nat \cup {Never}],
         episodes' \in Seq(Episode), now' \in Nat
  PROVE  Types' /\ Worked'
<1>1. /\ run' = [c \in Daemon |-> run'[c]]
      /\ run'[d] = r
      /\ \A c \in Daemon : c # d => run'[c] = run[c]
  BY TurnFacts DEF IInv
<1>2. \A c \in Daemon : Framed(run'[c])
  BY <1>1 DEF IInv, Types
<1>3. Types'
  BY <1>1, <1>2 DEF Types
<1>4. ASSUME NEW c \in Daemon, run'[c].pc = "episode"
      PROVE  crew'[Head(run'[c].batch).entity] # Never
  <2>1. CASE c = d
    BY <1>1, <1>4, <2>1
  <2>2. CASE c # d
    <3>1. run'[c] = run[c] /\ At(c, "episode")
      BY <1>1, <1>4, <2>2 DEF At
    <3>2. run[c].batch # <<>>
      BY <3>1 DEF IInv, Types, Framed, At
    <3>3. Head1(c).entity \in Entity /\ crew[Head1(c).entity] # Never
      BY <3>1, <3>2, HeadIsSignal DEF IInv, Worked
    <3>4. QED
      BY <3>1, <3>3 DEF Head1
  <2>3. QED
    BY <2>1, <2>2
<1>5. Worked'
  BY <1>4 DEF Worked, At, Head1
<1>6. QED
  BY <1>3, <1>5

LEMMA Rests ==
  ASSUME IInv, NEW d \in Daemon, NEW r, Turns(d, r), Framed(r),
         r.pc # "episode", UNCHANGED <<crew, episodes, now>>,
         queue' \in [Daemon -> Seq(Signal)]
  PROVE  IInv'
<1>1. Types' /\ Worked'
  <2>1. /\ crew' \in [Entity -> Nat \cup {Never}]
        /\ episodes' \in Seq(Episode) /\ now' \in Nat
        /\ \A e \in Entity : crew[e] # Never => crew'[e] # Never
    BY DEF IInv, Types
  <2>2. QED
    BY <2>1, Moves
<1>2. Warm'
  BY DEF IInv, Warm
<1>3. QED
  BY <1>1, <1>2 DEF IInv

LEMMA InitIInv == Init => IInv
<1>1. SUFFICES ASSUME Init PROVE IInv
  OBVIOUS
<1>2. /\ Framed(Started) /\ Started.pc = "monitor"
      /\ Framed(Absent) /\ Absent.pc = "ended"
  <2>1. <<>> \in Seq(Signal)
    OBVIOUS
  <2>2. Framed(Started) /\ Started.pc = "monitor"
    BY <2>1 DEF Framed, Started
  <2>3. DOMAIN Absent = DOMAIN Started /\ Absent.pc = "ended" /\ Absent.batch = <<>>
    BY DEF Started, Absent
  <2>4. Framed(Absent)
    BY <2>1, <2>2, <2>3 DEF Framed
  <2>5. QED
    BY <2>2, <2>3, <2>4
<1>3. /\ run = [d \in Daemon |-> run[d]]
      /\ \A d \in Daemon : run[d] = Started \/ run[d] = Absent
  <2>1. run = [d \in Daemon |-> IF d \in scenario.daemons THEN Started ELSE Absent]
    BY <1>1 DEF Init
  <2>2. run = [d \in Daemon |-> run[d]]
    BY <2>1
  <2>3. ASSUME NEW d \in Daemon PROVE run[d] = Started \/ run[d] = Absent
    BY <2>1, Zenon
  <2>4. QED
    BY <2>2, <2>3
<1>4. Types
  <2>1. /\ queue \in [Daemon -> Seq(Signal)]
        /\ crew \in [Entity -> Nat \cup {Never}]
        /\ episodes \in Seq(Episode) /\ now \in Nat
    <3>1. queue = [d \in Daemon |-> <<>>] /\ crew = [e \in Entity |-> Never]
      BY <1>1 DEF Init
    <3>2. episodes = <<>> /\ now = 0
      BY <1>1 DEF Init
    <3>3. <<>> \in Seq(Signal) /\ <<>> \in Seq(Episode)
      OBVIOUS
    <3>4. queue \in [Daemon -> Seq(Signal)]
      BY <3>1, <3>3
    <3>5. crew \in [Entity -> Nat \cup {Never}]
      BY <3>1
    <3>6. QED
      BY <3>2, <3>3, <3>4, <3>5
  <2>2. \A d \in Daemon : Framed(run[d])
    BY <1>2, <1>3
  <2>3. QED
    BY <1>3, <2>1, <2>2 DEF Types
<1>5. Worked
  BY <1>2, <1>3 DEF Worked, At
<1>6. Warm
  BY <1>1 DEF Init, Warm
<1>7. QED
  BY <1>4, <1>5, <1>6 DEF IInv

(***************************************************************************)
(* The steps that leave the fleet and the episodes as they are.            *)
(***************************************************************************)
LEMMA QuietSteps ==
  ASSUME IInv, NEW d \in Daemon,
         \/ Poll(d) \/ \E drift \in {<<>>} \cup {<<s>> : s \in Drifts} : Monitor(d, drift)
         \/ Drop(d) \/ Raises(d) \/ ReadFire(d) \/ ReadKey(d)
         \/ EndTick(d) \/ Restart(d) \/ Crash(d)
  PROVE  IInv'
<1>1. /\ {"pc", "copy", "batch"} \subseteq DOMAIN run[d] /\ run[d].batch \in Seq(Signal)
      /\ queue \in [Daemon -> Seq(Signal)]
  BY DEF IInv, Types, Framed
<1>2. Framed(Started) /\ Started.pc = "monitor"
  <2>1. <<>> \in Seq(Signal)
    OBVIOUS
  <2>2. QED
    BY <2>1 DEF Framed, Started
<1>3. ASSUME NEW drift \in {<<>>} \cup {<<s>> : s \in Drifts}, Monitor(d, drift) PROVE IInv'
  <2>0. PICK b, n : b = run[d].copy \o drift /\ n = Len(run[d].copy \o drift)
    OBVIOUS
  <2> DEFINE r == [run[d] EXCEPT !.pc = "triage", !.copy = <<>>, !.batch = b,
                                 !.drift = drift, !.tally.seen = @ + n]
  <2>1. Turns(d, r)
    <3>1. run' = [run EXCEPT ![d].pc = "triage", ![d].copy = <<>>, ![d].batch = b,
                             ![d].drift = drift, ![d].tally.seen = @ + n]
      BY <1>3, <2>0 DEF Monitor
    <3>2. QED
      BY <3>1, ZenonT(60) DEF Turns
  <2>2. drift \in Seq(Signal)
    <3>1. CASE drift = <<>>
      BY <3>1
    <3>2. ASSUME NEW s \in Drifts, drift = <<s>> PROVE drift \in Seq(Signal)
      <4>1. s \in Signal
        BY KtloAssumption
      <4>2. QED
        BY <3>2, <4>1
    <3>3. QED
      BY <3>1, <3>2
  <2>3. run[d].copy \o drift \in Seq(Signal)
    <3>1. run[d].copy \in Seq(Signal)
      BY <1>3 DEF Monitor, At, IInv, Types, Framed
    <3>2. QED
      BY <2>2, <3>1
  <2>4. r.pc = "triage" /\ r.batch = b /\ {"pc", "copy", "batch"} \subseteq DOMAIN r
    BY <1>1
  <2>5. Framed(r)
    BY <2>0, <2>3, <2>4 DEF Framed
  <2>6. queue' \in [Daemon -> Seq(Signal)] /\ UNCHANGED <<crew, episodes, now>>
    <3>1. queue' = [queue EXCEPT ![d] = <<>>] /\ UNCHANGED <<crew, episodes, now>>
      BY <1>3 DEF Monitor
    <3>2. QED
      BY <1>1, <3>1
  <2>7. QED
    BY <2>1, <2>4, <2>5, <2>6, Rests
<1>4. ASSUME Drop(d) PROVE IInv'
  <2> DEFINE r == [run[d] EXCEPT !.batch = Tail(@), !.tally.closed = @ + 1]
  <2>1. Turns(d, r) /\ UNCHANGED <<queue, crew, episodes, now>>
    BY <1>4 DEF Drop, Turns
  <2>2. run[d].pc = "triage" /\ run[d].batch # <<>>
    BY <1>4 DEF Drop, At
  <2>3. r.pc = "triage" /\ r.batch = Tail(run[d].batch) /\ {"pc", "copy", "batch"} \subseteq DOMAIN r
    BY <1>1, <2>2
  <2>4. Tail(run[d].batch) \in Seq(Signal)
    BY <1>1, <2>2
  <2>5. Framed(r)
    BY <2>3, <2>4 DEF Framed
  <2>6. QED
    BY <1>1, <2>1, <2>3, <2>5, Rests
<1>5. ASSUME Raises(d) PROVE IInv'
  <2> DEFINE r == [run[d] EXCEPT !.pc = "triage", !.batch = Tail(@),
                          !.tally.errors = @ + 1, !.tally.investigated = @ + 1]
  <2>1. Turns(d, r) /\ UNCHANGED <<queue, crew, episodes, now>>
    BY <1>5 DEF Raises, Turns
  <2>2. run[d].batch # <<>>
    BY <1>5 DEF Raises, At, IInv, Types, Framed
  <2>3. r.pc = "triage" /\ r.batch = Tail(run[d].batch) /\ {"pc", "copy", "batch"} \subseteq DOMAIN r
    BY <1>1
  <2>4. Tail(run[d].batch) \in Seq(Signal)
    BY <1>1, <2>2
  <2>5. Framed(r)
    BY <2>3, <2>4 DEF Framed
  <2>6. QED
    BY <1>1, <2>1, <2>3, <2>5, Rests
<1>6. ASSUME ReadFire(d) PROVE IInv'
  <2> DEFINE r == [run[d] EXCEPT !.pc = "put_fire", !.read = budget[Head1(d).entity]]
  <2>1. Turns(d, r) /\ UNCHANGED <<queue, crew, episodes, now>>
    BY <1>6 DEF ReadFire, Turns
  <2>2. run[d].batch # <<>>
    BY <1>6 DEF ReadFire, At, IInv, Types, Framed
  <2>3. r.pc = "put_fire" /\ r.batch = run[d].batch /\ {"pc", "copy", "batch"} \subseteq DOMAIN r
    BY <1>1
  <2>4. Framed(r)
    BY <1>1, <2>2, <2>3 DEF Framed
  <2>5. QED
    BY <1>1, <2>1, <2>3, <2>4, Rests
<1>7. ASSUME ReadKey(d) PROVE IInv'
  <2> DEFINE r == [run[d] EXCEPT !.pc = "put_key", !.read = seen]
  <2>1. Turns(d, r) /\ UNCHANGED <<queue, crew, episodes, now>>
    BY <1>7 DEF ReadKey, Turns
  <2>2. run[d].batch # <<>>
    BY <1>7 DEF ReadKey, At, IInv, Types, Framed
  <2>3. r.pc = "put_key" /\ r.batch = run[d].batch /\ {"pc", "copy", "batch"} \subseteq DOMAIN r
    BY <1>1
  <2>4. Framed(r)
    BY <1>1, <2>2, <2>3 DEF Framed
  <2>5. QED
    BY <1>1, <2>1, <2>3, <2>4, Rests
<1>8. ASSUME EndTick(d) PROVE IInv'
  <2> DEFINE r == [run[d] EXCEPT !.pc = IF Why(d) = "" THEN "monitor" ELSE "ended",
                                 !.why = Why(d)]
  <2>1. Turns(d, r) /\ UNCHANGED <<queue, crew, episodes, now>>
    BY <1>8 DEF EndTick, Turns
  <2>2. r.pc \in {"monitor", "ended"} /\ r.batch = run[d].batch
        /\ {"pc", "copy", "batch"} \subseteq DOMAIN r
    BY <1>1
  <2>3. Framed(r)
    BY <1>1, <2>2 DEF Framed
  <2>4. QED
    BY <1>1, <2>1, <2>2, <2>3, Rests
<1>9. ASSUME Restart(d) PROVE IInv'
  <2>1. Turns(d, Started) /\ UNCHANGED <<queue, crew, episodes, now>>
    BY <1>9 DEF Restart, Turns
  <2>2. QED
    BY <1>1, <1>2, <2>1, Rests
<1>10. ASSUME Crash(d) PROVE IInv'
  <2> DEFINE r == [Started EXCEPT !.pc = "off"]
  <2>1. Turns(d, r) /\ UNCHANGED <<crew, episodes, now>>
        /\ queue' = [queue EXCEPT ![d] = <<>>]
    BY <1>10 DEF Crash, Turns
  <2>2. r.pc = "off" /\ r.batch = Started.batch /\ {"pc", "copy", "batch"} \subseteq DOMAIN r
    BY <1>2 DEF Framed
  <2>3. Framed(r)
    BY <1>2, <2>2 DEF Framed
  <2>4. queue' \in [Daemon -> Seq(Signal)]
    BY <1>1, <2>1
  <2>5. QED
    BY <2>1, <2>2, <2>3, <2>4, Rests
<1>11. ASSUME Poll(d) PROVE IInv'
  <2> DEFINE r == [run[d] EXCEPT !.pc = "polled", !.ticks = @ + 1, !.copy = queue[d]]
  <2>1. Turns(d, r) /\ UNCHANGED <<queue, crew, episodes, now>>
    BY <1>11 DEF Poll, Turns
  <2>2. r.pc = "polled" /\ r.batch = run[d].batch /\ {"pc", "copy", "batch"} \subseteq DOMAIN r
    BY <1>1
  <2>3. r.copy \in Seq(Signal)
    BY <1>1
  <2>4. Framed(r)
    BY <1>1, <2>2, <2>3 DEF Framed
  <2>5. QED
    BY <1>1, <2>1, <2>2, <2>4, Rests
<1>12. QED
  BY <1>3, <1>4, <1>5, <1>6, <1>7, <1>8, <1>9, <1>10, <1>11

LEMMA Stamped ==
  ASSUME NEW x \in Episode, NEW n \in Nat
  PROVE  /\ [x EXCEPT !.fired = n] \in Episode /\ [x EXCEPT !.fired = n].at = x.at
         /\ [x EXCEPT !.keyed = TRUE] \in Episode /\ [x EXCEPT !.keyed = TRUE].at = x.at
<1>1. "at" \in DOMAIN x
  BY DEF Episode
<1>2. [x EXCEPT !.fired = n].at = x.at /\ [x EXCEPT !.keyed = TRUE].at = x.at
  BY <1>1
<1>3. n \in Int
  OBVIOUS
<1>4. [x EXCEPT !.fired = n] \in Episode
  BY <1>3 DEF Episode
<1>5. TRUE \in BOOLEAN
  OBVIOUS
<1>6. [x EXCEPT !.keyed = TRUE] \in Episode
  BY <1>5 DEF Episode
<1>7. QED
  BY <1>2, <1>4, <1>6

(***************************************************************************)
(* The two commits write the history beside the store: which episode ended *)
(* last, and when, is as before.                                           *)
(***************************************************************************)
LEMMA Commits ==
  ASSUME IInv, NEW d \in Daemon, PutFire(d) \/ PutKey(d)
  PROVE  IInv'
<1>1. /\ {"pc", "copy", "batch"} \subseteq DOMAIN run[d] /\ run[d].batch \in Seq(Signal)
      /\ run[d].batch # <<>>
      /\ queue \in [Daemon -> Seq(Signal)] /\ crew \in [Entity -> Nat \cup {Never}]
      /\ episodes \in Seq(Episode) /\ now \in Nat
  BY DEF IInv, Types, Framed, PutFire, PutKey, At
<1>2. /\ UNCHANGED <<queue, crew, now>>
      /\ Len(episodes') = Len(episodes) /\ episodes' \in Seq(Episode)
      /\ \A i \in 1 .. Len(episodes) : episodes'[i].at = episodes[i].at
  <2>1. CASE PutFire(d)
    <3>1. episodes' = [episodes EXCEPT ![LastOf(d)].fired = now]
          /\ UNCHANGED <<queue, crew, now>>
      BY <2>1 DEF PutFire
    <3>2. PICK k : k = LastOf(d)
      OBVIOUS
    <3>3. PICK x : x = [episodes[k] EXCEPT !.fired = now]
                   /\ episodes' = [episodes EXCEPT ![k] = x]
      BY <3>1, <3>2
    <3>4. ASSUME NEW i \in 1 .. Len(episodes)
          PROVE  /\ [episodes[i] EXCEPT !.fired = now] \in Episode
                 /\ [episodes[i] EXCEPT !.fired = now].at = episodes[i].at
      <4>1. episodes[i] \in Episode
        BY <1>1
      <4>2. QED
        BY <1>1, <4>1, Stamped
    <3>5. episodes' \in Seq(Episode) /\ Len(episodes') = Len(episodes)
      <4>1. k \in 1 .. Len(episodes) => x \in Episode
        BY <3>3, <3>4
      <4>2. episodes' = [episodes EXCEPT ![k] = x]
        BY <3>3
      <4>3. episodes \in Seq(Episode)
        BY <1>1
      <4>4. PICK s, t, S : s = episodes /\ t = episodes' /\ S = Episode
        OBVIOUS
      <4>5. s \in Seq(S) /\ (k \in 1 .. Len(s) => x \in S) /\ t = [s EXCEPT ![k] = x]
        BY <4>1, <4>2, <4>3, <4>4
      <4>6. t \in Seq(S) /\ Len(t) = Len(s)
        <5>1. CASE k \in 1 .. Len(s)
          BY <4>5, <5>1, ExceptSeq
        <5>2. CASE k \notin 1 .. Len(s)
          <6>1. DOMAIN s = 1 .. Len(s)
            BY <4>5
          <6>2. t = s
            BY <4>5, <5>2, <6>1
          <6>3. QED
            BY <4>5, <6>2
        <5>3. QED
          BY <5>1, <5>2
      <4>7. QED
        BY <4>4, <4>6
    <3>6. ASSUME NEW i \in 1 .. Len(episodes) PROVE episodes'[i].at = episodes[i].at
      BY <1>1, <3>3, <3>4
    <3>7. QED
      BY <3>1, <3>5, <3>6
  <2>2. CASE PutKey(d)
    <3>1. episodes' = [episodes EXCEPT ![LastOf(d)].keyed = TRUE]
          /\ UNCHANGED <<queue, crew, now>>
      BY <2>2 DEF PutKey
    <3>2. PICK k : k = LastOf(d)
      OBVIOUS
    <3>3. PICK x : x = [episodes[k] EXCEPT !.keyed = TRUE]
                   /\ episodes' = [episodes EXCEPT ![k] = x]
      BY <3>1, <3>2
    <3>4. ASSUME NEW i \in 1 .. Len(episodes)
          PROVE  /\ [episodes[i] EXCEPT !.keyed = TRUE] \in Episode
                 /\ [episodes[i] EXCEPT !.keyed = TRUE].at = episodes[i].at
      <4>1. episodes[i] \in Episode
        BY <1>1
      <4>2. QED
        BY <1>1, <4>1, Stamped
    <3>5. episodes' \in Seq(Episode) /\ Len(episodes') = Len(episodes)
      <4>1. k \in 1 .. Len(episodes) => x \in Episode
        BY <3>3, <3>4
      <4>2. episodes' = [episodes EXCEPT ![k] = x]
        BY <3>3
      <4>3. episodes \in Seq(Episode)
        BY <1>1
      <4>4. PICK s, t, S : s = episodes /\ t = episodes' /\ S = Episode
        OBVIOUS
      <4>5. s \in Seq(S) /\ (k \in 1 .. Len(s) => x \in S) /\ t = [s EXCEPT ![k] = x]
        BY <4>1, <4>2, <4>3, <4>4
      <4>6. t \in Seq(S) /\ Len(t) = Len(s)
        <5>1. CASE k \in 1 .. Len(s)
          BY <4>5, <5>1, ExceptSeq
        <5>2. CASE k \notin 1 .. Len(s)
          <6>1. DOMAIN s = 1 .. Len(s)
            BY <4>5
          <6>2. t = s
            BY <4>5, <5>2, <6>1
          <6>3. QED
            BY <4>5, <6>2
        <5>3. QED
          BY <5>1, <5>2
      <4>7. QED
        BY <4>4, <4>6
    <3>6. ASSUME NEW i \in 1 .. Len(episodes) PROVE episodes'[i].at = episodes[i].at
      BY <1>1, <3>3, <3>4
    <3>7. QED
      BY <3>1, <3>5, <3>6
  <2>3. QED
    BY <2>1, <2>2
<1>3. Types' /\ Worked'
  <2>1. PICK r : Turns(d, r) /\ Framed(r) /\ r.pc # "episode"
    <3>1. CASE PutFire(d)
      <4> DEFINE r == [run[d] EXCEPT !.pc = "key", !.read = NoCell]
      <4>1. Turns(d, r)
        BY <3>1 DEF PutFire, Turns
      <4>2. r.pc = "key" /\ r.batch = run[d].batch /\ {"pc", "copy", "batch"} \subseteq DOMAIN r
        BY <1>1
      <4>3. Framed(r)
        BY <1>1, <4>2 DEF Framed
      <4>4. QED
        BY <4>1, <4>2, <4>3
    <3>2. CASE PutKey(d)
      <4> DEFINE r == [run[d] EXCEPT !.pc = "triage", !.batch = Tail(@), !.read = NoCell]
      <4>1. Turns(d, r)
        BY <3>2 DEF PutKey, Turns
      <4>2. r.pc = "triage" /\ r.batch = Tail(run[d].batch)
            /\ {"pc", "copy", "batch"} \subseteq DOMAIN r
        BY <1>1
      <4>3. Tail(run[d].batch) \in Seq(Signal)
        BY <1>1
      <4>4. Framed(r)
        BY <4>2, <4>3 DEF Framed
      <4>5. QED
        BY <4>1, <4>2, <4>4
    <3>3. QED
      BY <3>1, <3>2
  <2>2. QED
    BY <1>1, <1>2, <2>1, Moves
<1>4. Warm'
  <2>1. ASSUME episodes' # <<>> PROVE episodes # <<>> /\ Last(episodes').at = Last(episodes).at
    BY <1>1, <1>2, <2>1 DEF Last
  <2>2. QED
    BY <1>2, <2>1 DEF IInv, Warm
<1>5. QED
  BY <1>3, <1>4 DEF IInv

(***************************************************************************)
(* The fleet.  An episode stands its runtime up, or marks it active now.   *)
(***************************************************************************)
LEMMA Works ==
  ASSUME IInv, NEW d \in Daemon,
         Dispatch(d) \/ \E echoes \in BOOLEAN : Completes(d, echoes)
  PROVE  IInv'
<1>1. /\ {"pc", "copy", "batch"} \subseteq DOMAIN run[d] /\ run[d].batch \in Seq(Signal)
      /\ queue \in [Daemon -> Seq(Signal)] /\ crew \in [Entity -> Nat \cup {Never}]
      /\ episodes \in Seq(Episode) /\ now \in Nat /\ now # Never
  BY DEF IInv, Types, Framed, Never
<1>2. CASE Dispatch(d)
  <2> DEFINE r == [run[d] EXCEPT !.pc = "episode"]
  <2>1. /\ Turns(d, r) /\ UNCHANGED <<queue, episodes, now>>
        /\ crew' = [crew EXCEPT ![Head1(d).entity] = IF @ = Never THEN now ELSE @]
        /\ run[d].batch # <<>>
    BY <1>2 DEF Dispatch, Turns
  <2>2. Head1(d).entity \in Entity
    BY <2>1, HeadIsSignal DEF IInv
  <2>3. r.pc = "episode" /\ r.batch = run[d].batch /\ {"pc", "copy", "batch"} \subseteq DOMAIN r
    BY <1>1
  <2>4. Framed(r)
    BY <1>1, <2>1, <2>3 DEF Framed
  <2>5. /\ crew' \in [Entity -> Nat \cup {Never}] /\ crew'[Head1(d).entity] # Never
        /\ \A e \in Entity : crew[e] # Never => crew'[e] = crew[e]
    BY <1>1, <2>1, <2>2
  <2>6. Types' /\ Worked'
    BY <1>1, <2>1, <2>3, <2>4, <2>5, Moves DEF Head1
  <2>7. Warm'
    BY <2>1, <2>5 DEF IInv, Warm
  <2>8. QED
    BY <2>6, <2>7 DEF IInv
<1>3. ASSUME NEW echoes \in BOOLEAN, Completes(d, echoes) PROVE IInv'
  <2> DEFINE r == [run[d] EXCEPT !.pc = "fire", !.tally.episodes = @ + 1,
                                 !.tally.investigated = @ + 1]
             x == [entity |-> Head1(d).entity, state |-> Head1(d).state,
                   own |-> Head1(d).own, by |-> d, at |-> now,
                   fired |-> Never, keyed |-> FALSE]
  <2>1. /\ Turns(d, r) /\ now' = now /\ episodes' = Append(episodes, x)
        /\ crew' = [crew EXCEPT ![Head1(d).entity] = now]
        /\ queue' = IF echoes THEN [queue EXCEPT ![d] = Append(@, [Head1(d) EXCEPT !.own = TRUE])]
                    ELSE queue
    BY <1>3 DEF Completes, Turns
  <2>2. run[d].batch # <<>>
    BY <1>3 DEF Completes, At, IInv, Types, Framed
  <2>3. Head1(d) \in Signal /\ Head1(d).entity \in Entity
    BY <2>2, HeadIsSignal DEF IInv
  <2>4. r.pc = "fire" /\ r.batch = run[d].batch /\ {"pc", "copy", "batch"} \subseteq DOMAIN r
    BY <1>1
  <2>5. Framed(r)
    BY <1>1, <2>2, <2>4 DEF Framed
  <2>6. x \in Episode
    BY <1>1, <2>3 DEF Episode, Signal, Never
  <2>7. episodes' \in Seq(Episode) /\ episodes' # <<>> /\ Last(episodes') = x
    <3>1. PICK y : y = x
      OBVIOUS
    <3>2. episodes \in Seq(Episode) /\ y \in Episode /\ episodes' = Append(episodes, y)
      BY <1>1, <2>1, <2>6, <3>1
    <3>3. episodes' \in Seq(Episode) /\ episodes' # <<>> /\ Last(episodes') = y
      BY <3>2 DEF Last
    <3>4. QED
      BY <3>1, <3>3
  <2>8. /\ crew' \in [Entity -> Nat \cup {Never}] /\ crew'[Head1(d).entity] = now
        /\ \A e \in Entity : crew[e] # Never => crew'[e] # Never
    BY <1>1, <2>1, <2>3
  <2>9. queue' \in [Daemon -> Seq(Signal)]
    <3>1. PICK s : s = [Head1(d) EXCEPT !.own = TRUE]
      OBVIOUS
    <3>2. s \in Signal
      BY <2>3, <3>1 DEF Signal
    <3>3. queue' = queue \/ queue' = [queue EXCEPT ![d] = Append(queue[d], s)]
      BY <2>1, <3>1
    <3>4. Append(queue[d], s) \in Seq(Signal)
      BY <1>1, <3>2
    <3>5. QED
      BY <1>1, <3>3, <3>4
  <2>10. Types' /\ Worked'
    BY <1>1, <2>1, <2>4, <2>5, <2>7, <2>8, <2>9, Moves
  <2>11. Warm'
    <3>1. Last(episodes').at = now
      BY <2>7
    <3>2. crew'[Head1(d).entity] # Never /\ crew'[Head1(d).entity] >= Last(episodes').at
      BY <1>1, <2>8, <3>1
    <3>3. QED
      BY <2>3, <3>2 DEF Warm
  <2>12. QED
    BY <2>10, <2>11 DEF IInv
<1>4. QED
  BY <1>2, <1>3

(***************************************************************************)
(* The sweep.  It takes no runtime at work, and when it takes the freshest *)
(* one, that one is idle for the long floor: so is the last episode.       *)
(***************************************************************************)
LEMMA Sweeps ==
  ASSUME IInv, Sweep
  PROVE  IInv'
<1> DEFINE kept == Restrict(crew, Up)
<1>1. /\ crew \in [Entity -> Nat \cup {Never}] /\ now \in Nat
      /\ episodes \in Seq(Episode)
  BY DEF IInv, Types
<1>2. PICK gone \in Cull(kept, now, InFlight, Standing) :
        /\ gone # {}
        /\ crew' = [e \in Entity |-> IF e \in gone THEN Never ELSE crew[e]]
        /\ UNCHANGED <<run, queue, episodes, now>>
  BY DEF Sweep
<1>3. DOMAIN kept = Up /\ \A e \in Up : kept[e] = crew[e]
  BY DEF Restrict
<1>4. PICK freshest \in IF Up = {} THEN {Never} ELSE Freshest(kept) :
        gone = {r \in Up \ InFlight : now - kept[r] >= FloorOf(r, freshest, Standing)}
  BY <1>2, <1>3 DEF Cull
<1>5. /\ gone \subseteq Up \ InFlight
      /\ freshest \in Up /\ \A e \in Up : crew[e] <= crew[freshest]
      /\ freshest \in gone => now - crew[freshest] >= LongFloor
  <2>1. gone \subseteq Up \ InFlight /\ Up # {}
    BY <1>2, <1>4
  <2>2. freshest \in Up /\ \A e \in Up : crew[e] <= crew[freshest]
    BY <1>3, <1>4, <2>1 DEF Freshest
  <2>3. freshest \in gone => now - crew[freshest] >= LongFloor
    BY <1>3, <1>4, <2>2 DEF FloorOf
  <2>4. QED
    BY <2>1, <2>2, <2>3
<1>6. /\ crew' \in [Entity -> Nat \cup {Never}]
      /\ \A e \in Entity : crew'[e] = IF e \in gone THEN Never ELSE crew[e]
  BY <1>1, <1>2
<1>7. Types'
  BY <1>2, <1>6 DEF IInv, Types, Framed
<1>8. Worked'
  <2>1. ASSUME NEW d \in Daemon, At(d, "episode")
        PROVE  crew'[Head1(d).entity] # Never
    <3>1. Head1(d).entity \in Entity /\ crew[Head1(d).entity] # Never
      <4>1. run[d].batch # <<>>
        BY <2>1 DEF At, IInv, Types, Framed
      <4>2. QED
        BY <2>1, <4>1, HeadIsSignal DEF IInv, Worked
    <3>2. Head1(d).entity \in InFlight
      BY <2>1 DEF InFlight
    <3>3. QED
      BY <1>5, <1>6, <3>1, <3>2
  <2>2. QED
    BY <1>2, <2>1 DEF Worked, At, Head1
<1>9. Warm'
  <2>1. SUFFICES ASSUME episodes # <<>>, ~(now - Last(episodes).at >= LongFloor)
                 PROVE  \E e \in Entity : crew'[e] # Never /\ crew'[e] >= Last(episodes).at
    BY <1>2 DEF Warm
  <2>2. Last(episodes) \in Episode
    BY <1>1, <2>1 DEF Last
  <2>3. Last(episodes).at \in Nat
    BY <2>2 DEF Episode
  <2>4. PICK e \in Entity : crew[e] # Never /\ crew[e] >= Last(episodes).at
    BY <2>1 DEF IInv, Warm
  <2>5. /\ freshest \in Entity /\ crew[freshest] # Never /\ crew[freshest] \in Nat
        /\ crew[freshest] >= Last(episodes).at
    <3>1. freshest \in Entity /\ crew[freshest] # Never /\ crew[e] <= crew[freshest]
      BY <1>5, <2>4 DEF Up
    <3>2. crew[freshest] \in Nat /\ crew[e] \in Nat
      BY <1>1, <2>4, <3>1
    <3>3. QED
      BY <2>3, <2>4, <3>1, <3>2
  <2>6. freshest \notin gone
    BY <1>1, <1>5, <2>1, <2>3, <2>5, AdmissionAssumption
  <2>7. QED
    BY <1>6, <2>5, <2>6
<1>10. QED
  BY <1>7, <1>8, <1>9 DEF IInv

LEMMA NextIInv == IInv /\ [Next]_vars => IInv'
<1>1. SUFFICES ASSUME IInv, [Next]_vars PROVE IInv'
  OBVIOUS
<1>2. ASSUME NEW d \in Daemon, Step(d) PROVE IInv'
  BY <1>1, <1>2, QuietSteps, Works, Commits DEF Step
<1>3. ASSUME NEW d \in Daemon, Close(d) PROVE IInv'
  BY <1>1, <1>3 DEF Close, IInv, Types, Framed, Worked, Warm, At, Head1
<1>4. ASSUME NEW d \in Daemon, Crash(d) PROVE IInv'
  BY <1>1, <1>4, QuietSteps
<1>5. ASSUME NEW d \in Daemon, NEW s \in Tickets, Enqueue(d, s) PROVE IInv'
  <2>1. /\ queue' = [queue EXCEPT ![d] = Append(queue[d], s)]
        /\ UNCHANGED <<run, crew, episodes, now>>
    BY <1>5 DEF Enqueue
  <2>2. s \in Signal
    BY KtloAssumption
  <2>3. queue \in [Daemon -> Seq(Signal)]
    BY <1>1 DEF IInv, Types
  <2>4. Append(queue[d], s) \in Seq(Signal)
    BY <2>2, <2>3
  <2>5. queue' \in [Daemon -> Seq(Signal)]
    BY <2>1, <2>3, <2>4
  <2>6. QED
    BY <1>1, <2>1, <2>5 DEF IInv, Types, Framed, Worked, Warm, At, Head1
<1>6. CASE Sweep
  BY <1>1, <1>6, Sweeps
<1>7. CASE Clock
  <2>1. now' = now + 1 /\ UNCHANGED <<run, queue, crew, episodes>>
    BY <1>7 DEF Clock
  <2>2. Types' /\ Worked'
    BY <1>1, <2>1 DEF IInv, Types, Framed, Worked, At, Head1
  <2>3. Warm'
    <3>1. episodes # <<>> => Last(episodes) \in Episode
      BY <1>1 DEF IInv, Types, Last
    <3>2. episodes # <<>> => Last(episodes).at \in Nat
      BY <3>1 DEF Episode
    <3>3. now \in Nat
      BY <1>1 DEF IInv, Types
    <3>4. QED
      BY <1>1, <2>1, <3>2, <3>3, AdmissionAssumption DEF IInv, Warm
  <2>4. QED
    BY <2>2, <2>3 DEF IInv
<1>8. CASE UNCHANGED vars
  BY <1>1, <1>8 DEF vars, store, IInv, Types, Framed, Worked, Warm, At, Head1
<1>9. QED
  BY <1>1, <1>2, <1>3, <1>4, <1>5, <1>6, <1>7, <1>8 DEF Next

(***************************************************************************)
(* No runtime is torn down under its episode, and a fleet that worked less *)
(* than the long floor ago still has a runtime up (cull: the active ones   *)
(* are untouchable and the freshest one is held to the long floor).        *)
(***************************************************************************)
THEOREM FleetWarm == Spec => []FleetStaysWarm
<1>1. IInv => FleetStaysWarm
  <2>1. SUFFICES ASSUME IInv PROVE FleetStaysWarm
    OBVIOUS
  <2>2. \A e \in InFlight : crew[e] # Never
    BY <2>1 DEF InFlight, IInv, Worked
  <2>3. ASSUME episodes # <<>>, now - Last(episodes).at < LongFloor PROVE Up # {}
    <3>1. Last(episodes) \in Episode
      BY <2>1, <2>3 DEF IInv, Types, Last
    <3>2. Last(episodes).at \in Nat /\ now \in Nat
      BY <2>1, <3>1 DEF Episode, IInv, Types
    <3>3. QED
      BY <2>1, <2>3, <3>2, AdmissionAssumption DEF IInv, Warm, Up
  <2>4. QED
    BY <2>2, <2>3 DEF FleetStaysWarm
<1>2. QED
  BY <1>1, InitIInv, NextIInv, PTL DEF Spec

-----------------------------------------------------------------------------
(***************************************************************************)
(* The tally.  What a run has in hand is its batch, less the signal whose  *)
(* commits are still to be written; a run that has given its reason takes  *)
(* no further step, and no signal.                                         *)
(***************************************************************************)
Committing == {"fire", "put_fire", "key", "put_key"}

Cell == [count : Nat, last : Nat \cup {Never}]

Reason == {"", "launch_complete", "source_drained", "tick_cap"}

Shaped(r) ==
  /\ DOMAIN r = DOMAIN Started
  /\ r.pc \in {"monitor", "polled", "triage", "episode", "off", "ended"} \cup Committing
  /\ r.ticks \in 0 .. MaxTicks /\ (r.pc = "monitor" => r.ticks < MaxTicks)
  /\ r.batch \in Seq(Signal) /\ r.drift \in Seq(Signal)
  /\ r.pc \in {"monitor", "polled"} => r.batch = <<>>
  /\ r.pc = "polled" => r.copy \in Seq(Signal)
  /\ r.tally \in [DOMAIN NoTally -> Nat]
  /\ r.pc = "put_fire" => r.read \in Cell
  /\ r.pc = "put_key" => DOMAIN r.read \subseteq Entity \cup States

InHand(r) == Len(r.batch) - (IF r.pc \in Committing THEN 1 ELSE 0)

Balanced(t, n) ==
  t.seen = t.closed + t.investigated + n /\ t.investigated = t.errors + t.episodes

Sums(r) == Balanced(r.tally, InHand(r))

Reasoned(r, q, c) ==
  /\ r.why \in Reason
  /\ r.why # "" => r.pc = "ended"
  /\ r.why = "source_drained" => c /\ q = <<>> /\ r.batch = <<>>

Tallied(r, q, c) == Shaped(r) /\ Sums(r) /\ Reasoned(r, q, c)

Cells ==
  /\ closed \in [Daemon -> BOOLEAN]
  /\ budget \in [Entity -> Cell]
  /\ DOMAIN seen \subseteq Entity \cup States

TInv ==
  /\ \A d \in Daemon : Tallied(run[d], queue[d], closed[d])
  /\ Cells
  /\ crew \in [Entity -> 0 .. now \cup {Never}]

LEMMA HandFacts ==
  ASSUME NEW r, NEW l \in Nat, Len(r.batch) = l
  PROVE  /\ r.pc \in Committing => InHand(r) = l - 1
         /\ r.pc \notin Committing => InHand(r) = l
         /\ InHand(r) \in Int
<1>1. CASE r.pc \in Committing
  <2>1. InHand(r) = l - 1
    BY <1>1, Zenon DEF InHand
  <2>2. QED
    BY <1>1, <2>1
<1>2. CASE r.pc \notin Committing
  <2>1. InHand(r) = l - 0
    BY <1>2, Zenon DEF InHand
  <2>2. QED
    BY <1>2, <2>1
<1>3. QED
  BY <1>1, <1>2

LEMMA Fields ==
  /\ DOMAIN Started = {"pc", "ticks", "copy", "batch", "drift", "tally", "read", "why"}
  /\ DOMAIN NoTally = {"seen", "closed", "investigated", "errors", "episodes"}
BY DEF Started, NoTally

(***************************************************************************)
(* What the counters that rise take from the hand, or add to it.           *)
(***************************************************************************)
LEMMA Counted ==
  ASSUME NEW t \in [DOMAIN NoTally -> Nat], NEW n \in Int, Balanced(t, n)
  PROVE  /\ [t EXCEPT !.closed = @ + 1] \in [DOMAIN NoTally -> Nat]
         /\ Balanced([t EXCEPT !.closed = @ + 1], n - 1)
         /\ [t EXCEPT !.errors = @ + 1, !.investigated = @ + 1] \in [DOMAIN NoTally -> Nat]
         /\ Balanced([t EXCEPT !.errors = @ + 1, !.investigated = @ + 1], n - 1)
         /\ [t EXCEPT !.episodes = @ + 1, !.investigated = @ + 1] \in [DOMAIN NoTally -> Nat]
         /\ Balanced([t EXCEPT !.episodes = @ + 1, !.investigated = @ + 1], n - 1)
<1>1. /\ t.seen \in Nat /\ t.closed \in Nat /\ t.investigated \in Nat
      /\ t.errors \in Nat /\ t.episodes \in Nat
      /\ DOMAIN t = DOMAIN NoTally
  BY Fields
<1>2. t.seen = t.closed + t.investigated + n /\ t.investigated = t.errors + t.episodes
  BY DEF Balanced
<1>3. /\ t.seen = (t.closed + 1) + t.investigated + (n - 1)
      /\ t.seen = t.closed + (t.investigated + 1) + (n - 1)
      /\ t.investigated + 1 = (t.errors + 1) + t.episodes
      /\ t.investigated + 1 = t.errors + (t.episodes + 1)
  <2>1. PICK a, b, c, e, p \in Nat : /\ a = t.seen /\ b = t.closed /\ c = t.investigated
                                    /\ e = t.errors /\ p = t.episodes
    BY <1>1
  <2>2. a = b + c + n /\ c = e + p
    BY <1>2, <2>1
  <2>3. a = (b + 1) + c + (n - 1) /\ a = b + (c + 1) + (n - 1)
    BY <2>2
  <2>4. c + 1 = (e + 1) + p /\ c + 1 = e + (p + 1)
    BY <2>2
  <2>5. QED
    BY <2>1, <2>3, <2>4, Zenon
<1>4. t.closed + 1 \in Nat /\ t.investigated + 1 \in Nat
      /\ t.errors + 1 \in Nat /\ t.episodes + 1 \in Nat
  BY <1>1
<1>5. ASSUME NEW u, u = [t EXCEPT !.closed = @ + 1]
      PROVE  u \in [DOMAIN NoTally -> Nat] /\ Balanced(u, n - 1)
  <2>1. /\ u.seen = t.seen /\ u.closed = t.closed + 1 /\ u.investigated = t.investigated
        /\ u.errors = t.errors /\ u.episodes = t.episodes
    BY <1>1, <1>5, Fields
  <2>2. u \in [DOMAIN NoTally -> Nat]
    BY <1>4, <1>5
  <2>3. QED
    BY <1>2, <1>3, <2>1, <2>2, Zenon DEF Balanced
<1>6. ASSUME NEW u, u = [t EXCEPT !.errors = @ + 1, !.investigated = @ + 1]
      PROVE  u \in [DOMAIN NoTally -> Nat] /\ Balanced(u, n - 1)
  <2>1. /\ u.seen = t.seen /\ u.closed = t.closed /\ u.investigated = t.investigated + 1
        /\ u.errors = t.errors + 1 /\ u.episodes = t.episodes
    BY <1>1, <1>6, Fields
  <2>2. u \in [DOMAIN NoTally -> Nat]
    BY <1>4, <1>6
  <2>3. QED
    BY <1>3, <2>1, <2>2, Zenon DEF Balanced
<1>7. ASSUME NEW u, u = [t EXCEPT !.episodes = @ + 1, !.investigated = @ + 1]
      PROVE  u \in [DOMAIN NoTally -> Nat] /\ Balanced(u, n - 1)
  <2>1. /\ u.seen = t.seen /\ u.closed = t.closed /\ u.investigated = t.investigated + 1
        /\ u.errors = t.errors /\ u.episodes = t.episodes + 1
    BY <1>1, <1>7, Fields
  <2>2. u \in [DOMAIN NoTally -> Nat]
    BY <1>4, <1>7
  <2>3. QED
    BY <1>3, <2>1, <2>2, Zenon DEF Balanced
<1>8. QED
  BY <1>5, <1>6, <1>7

LEMMA Taken ==
  ASSUME NEW t \in [DOMAIN NoTally -> Nat], Balanced(t, 0), NEW k \in Nat, NEW u,
         u = [t EXCEPT !.seen = @ + k]
  PROVE  u \in [DOMAIN NoTally -> Nat] /\ Balanced(u, k)
<1>1. /\ t.seen \in Nat /\ t.closed \in Nat /\ t.investigated \in Nat
      /\ DOMAIN t = DOMAIN NoTally
  BY Fields
<1>2. t.seen = t.closed + t.investigated + 0 /\ t.investigated = t.errors + t.episodes
  BY DEF Balanced
<1>3. /\ u.seen = t.seen + k /\ u.closed = t.closed /\ u.investigated = t.investigated
      /\ u.errors = t.errors /\ u.episodes = t.episodes
  BY <1>1, Fields
<1>4. t.seen + k \in Nat /\ t.seen + k = t.closed + t.investigated + k
  BY <1>1, <1>2
<1>5. u \in [DOMAIN NoTally -> Nat]
  BY <1>4
<1>6. QED
  BY <1>2, <1>3, <1>4, <1>5, Zenon DEF Balanced

LEMMA TurnTallies ==
  ASSUME IInv, TInv, NEW d \in Daemon, NEW r, Turns(d, r),
         Shaped(r), Sums(r), Reasoned(r, queue'[d], closed'[d]),
         \A c \in Daemon : c # d => queue'[c] = queue[c] /\ closed'[c] = closed[c],
         Cells', crew' \in [Entity -> 0 .. now' \cup {Never}]
  PROVE  TInv'
<1>1. /\ run'[d] = r
      /\ \A c \in Daemon : c # d => run'[c] = run[c]
  BY TurnFacts DEF IInv
<1>2. Tallied(r, queue'[d], closed'[d])
  BY DEF Tallied
<1>3. \A c \in Daemon : Tallied(run'[c], queue'[c], closed'[c])
  BY <1>1, <1>2 DEF TInv
<1>4. QED
  BY <1>3 DEF TInv

(***************************************************************************)
(* What the invariants say of one daemon.                                  *)
(***************************************************************************)
LEMMA TickFacts ==
  ASSUME NEW k \in 0 .. MaxTicks
  PROVE  k \in Nat /\ k <= MaxTicks
BY KtloAssumption

LEMMA RunFacts ==
  ASSUME IInv, TInv, NEW d \in Daemon
  PROVE  /\ DOMAIN run[d] = DOMAIN Started
         /\ run[d].batch \in Seq(Signal) /\ Len(run[d].batch) \in Nat
         /\ run[d].drift \in Seq(Signal) /\ run[d].ticks \in 0 .. MaxTicks
         /\ run[d].tally \in [DOMAIN NoTally -> Nat]
         /\ run[d].pc \in {"episode"} \cup Committing => run[d].batch # <<>>
         /\ run[d].batch # <<>> =>
              /\ Tail(run[d].batch) \in Seq(Signal) /\ Len(Tail(run[d].batch)) \in Nat
              /\ Len(Tail(run[d].batch)) = Len(run[d].batch) - 1
              /\ Head1(d) \in Signal /\ Head1(d).entity \in Entity
         /\ run[d].why \in Reason /\ (run[d].why # "" => run[d].pc = "ended")
         /\ Sums(run[d])
         /\ run[d].pc = "monitor" => run[d].ticks < MaxTicks
         /\ run[d].pc \in {"monitor", "polled"} => run[d].batch = <<>>
         /\ run[d].pc = "polled" => run[d].copy \in Seq(Signal)
<1>1. Tallied(run[d], queue[d], closed[d]) /\ Framed(run[d])
  BY DEF TInv, IInv, Types
<1>2. /\ DOMAIN run[d] = DOMAIN Started
      /\ run[d].batch \in Seq(Signal) /\ run[d].drift \in Seq(Signal)
      /\ run[d].ticks \in 0 .. MaxTicks
      /\ run[d].tally \in [DOMAIN NoTally -> Nat]
      /\ run[d].why \in Reason /\ (run[d].why # "" => run[d].pc = "ended")
      /\ Sums(run[d])
      /\ run[d].pc = "monitor" => run[d].ticks < MaxTicks
      /\ run[d].pc \in {"monitor", "polled"} => run[d].batch = <<>>
      /\ run[d].pc = "polled" => run[d].copy \in Seq(Signal)
  BY <1>1 DEF Tallied, Shaped, Reasoned
<1>3. run[d].pc \in {"episode"} \cup Committing => run[d].batch # <<>>
  BY <1>1 DEF Framed, Committing
<1>4. ASSUME NEW b \in Seq(Signal)
      PROVE  /\ Len(b) \in Nat
             /\ b # <<>> => /\ Tail(b) \in Seq(Signal) /\ Len(Tail(b)) \in Nat
                            /\ Len(Tail(b)) = Len(b) - 1
  OBVIOUS
<1>5. /\ Len(run[d].batch) \in Nat
      /\ run[d].batch # <<>> =>
           /\ Tail(run[d].batch) \in Seq(Signal) /\ Len(Tail(run[d].batch)) \in Nat
           /\ Len(Tail(run[d].batch)) = Len(run[d].batch) - 1
  BY <1>2, <1>4
<1>6. run[d].batch # <<>> => Head1(d) \in Signal /\ Head1(d).entity \in Entity
  BY HeadIsSignal DEF IInv
<1>7. QED
  BY <1>2, <1>3, <1>5, <1>6

LEMMA TallyAtStart ==
  ASSUME NEW p \in {"monitor", "off", "ended"}, NEW r,
         \/ r = Started /\ p = "monitor"
         \/ r = [Started EXCEPT !.pc = p]
  PROVE  Shaped(r) /\ Sums(r) /\ r.pc = p /\ r.why = ""
<1>1. NoTally \in [DOMAIN NoTally -> Nat] /\ Balanced(NoTally, 0)
  BY DEF NoTally, Balanced
<1>2. /\ DOMAIN r = DOMAIN Started /\ r.pc = p /\ r.ticks = 0 /\ r.batch = <<>>
      /\ r.drift = <<>> /\ r.tally = NoTally /\ r.why = ""
  <2>1. ASSUME NEW s, s = [Started EXCEPT !.pc = p]
        PROVE  /\ DOMAIN s = DOMAIN Started /\ s.pc = p /\ s.ticks = 0 /\ s.batch = <<>>
               /\ s.drift = <<>> /\ s.tally = NoTally /\ s.why = ""
    BY <2>1 DEF Started
  <2>2. CASE r = Started /\ p = "monitor"
    BY <2>2 DEF Started
  <2>3. CASE r = [Started EXCEPT !.pc = p]
    BY <2>1, <2>3
  <2>4. QED
    BY <2>2, <2>3
<1>3. <<>> \in Seq(Signal) /\ Len(<<>>) = 0
  OBVIOUS
<1>4. 0 \in 0 .. MaxTicks /\ 0 < MaxTicks
  BY KtloAssumption
<1>5. r.pc \notin Committing /\ r.pc # "put_fire" /\ r.pc # "put_key"
  BY <1>2 DEF Committing
<1>6. Shaped(r)
  BY <1>1, <1>2, <1>3, <1>4, <1>5 DEF Shaped
<1>7. InHand(r) = 0
  BY <1>2, <1>3, <1>5, HandFacts
<1>8. Sums(r)
  BY <1>1, <1>2, <1>7 DEF Sums
<1>9. QED
  BY <1>2, <1>6, <1>8

LEMMA InitTInv == Init => TInv
<1>1. SUFFICES ASSUME Init PROVE TInv
  OBVIOUS
<1>2. ASSUME NEW d \in Daemon PROVE Tallied(run[d], queue[d], closed[d])
  <2>1. run = [c \in Daemon |-> IF c \in scenario.daemons THEN Started ELSE Absent]
    BY <1>1 DEF Init
  <2>2. run[d] = Started \/ run[d] = Absent
    BY <2>1, Zenon
  <2>3. Shaped(run[d]) /\ Sums(run[d]) /\ run[d].why = ""
    BY <2>2, TallyAtStart DEF Absent
  <2>4. QED
    BY <2>3 DEF Tallied, Reasoned, Reason
<1>4. Cells
  <2>1. closed = [d \in Daemon |-> FALSE] /\ budget = [e \in Entity |-> NoCell] /\ seen = NotSeen
    BY <1>1 DEF Init
  <2>2. NoCell \in Cell
    BY DEF NoCell, Cell
  <2>3. DOMAIN NotSeen = {}
    BY DEF NotSeen
  <2>4. QED
    BY <2>1, <2>2, <2>3 DEF Cells
<1>5. crew \in [Entity -> 0 .. now \cup {Never}]
  BY <1>1 DEF Init
<1>6. QED
  BY <1>2, <1>4, <1>5 DEF TInv

(***************************************************************************)
(* The steps of a run.  Each is its new record: where it goes, what is     *)
(* left in hand and which counters rise.                                   *)
(***************************************************************************)
LEMMA RunTallies ==
  ASSUME IInv, TInv, NEW d \in Daemon, NEW r, Turns(d, r),
         DOMAIN r = DOMAIN Started, r.ticks = run[d].ticks, r.drift = run[d].drift,
         r.batch \in Seq(Signal), r.why = "",
         r.pc \in {"triage", "episode"} \cup Committing,
         r.tally \in [DOMAIN NoTally -> Nat], Sums(r),
         r.pc = "put_fire" => r.read \in Cell,
         r.pc = "put_key" => DOMAIN r.read \subseteq Entity \cup States,
         \A c \in Daemon : c # d => queue'[c] = queue[c],
         closed' = closed, Cells', crew' \in [Entity -> 0 .. now' \cup {Never}]
  PROVE  TInv'
<1>1. run[d].drift \in Seq(Signal) /\ run[d].ticks \in 0 .. MaxTicks
  BY RunFacts
<1>2. r.pc \notin {"monitor", "polled"}
      /\ r.pc \in {"monitor", "polled", "triage", "episode", "off", "ended"} \cup Committing
  BY DEF Committing
<1>3. Shaped(r)
  BY <1>1, <1>2 DEF Shaped
<1>4. Reasoned(r, queue'[d], closed'[d])
  BY DEF Reasoned, Reason
<1>5. QED
  BY <1>3, <1>4, TurnTallies

LEMMA CellsStay ==
  ASSUME TInv, UNCHANGED <<closed, store>>
  PROVE  Cells'
BY DEF TInv, Cells, store

LEMMA TriageTallies ==
  ASSUME IInv, TInv, NEW d \in Daemon,
         Drop(d) \/ Dispatch(d) \/ Raises(d) \/ \E echoes \in BOOLEAN : Completes(d, echoes)
  PROVE  TInv'
<1>1. /\ DOMAIN run[d] = DOMAIN Started
      /\ run[d].batch \in Seq(Signal) /\ Len(run[d].batch) \in Nat
      /\ run[d].tally \in [DOMAIN NoTally -> Nat]
      /\ run[d].pc \in {"episode"} \cup Committing => run[d].batch # <<>>
      /\ run[d].batch # <<>> =>
           /\ Tail(run[d].batch) \in Seq(Signal) /\ Len(Tail(run[d].batch)) \in Nat
           /\ Len(Tail(run[d].batch)) = Len(run[d].batch) - 1
           /\ Head1(d).entity \in Entity
      /\ run[d].why # "" => run[d].pc = "ended"
      /\ Sums(run[d])
  BY RunFacts
<1>2. "triage" \notin Committing /\ "episode" \notin Committing /\ "fire" \in Committing
  BY DEF Committing
<1>9. Balanced(run[d].tally, InHand(run[d]))
  BY <1>1 DEF Sums
<1>10. InHand(run[d]) \in Int
  BY <1>1, HandFacts
<1>11. /\ [run[d].tally EXCEPT !.closed = @ + 1] \in [DOMAIN NoTally -> Nat]
       /\ Balanced([run[d].tally EXCEPT !.closed = @ + 1], InHand(run[d]) - 1)
  BY <1>1, <1>9, <1>10, Counted
<1>12. /\ [run[d].tally EXCEPT !.errors = @ + 1, !.investigated = @ + 1] \in [DOMAIN NoTally -> Nat]
       /\ Balanced([run[d].tally EXCEPT !.errors = @ + 1, !.investigated = @ + 1], InHand(run[d]) - 1)
  BY <1>1, <1>9, <1>10, Counted
<1>13. /\ [run[d].tally EXCEPT !.episodes = @ + 1, !.investigated = @ + 1] \in [DOMAIN NoTally -> Nat]
       /\ Balanced([run[d].tally EXCEPT !.episodes = @ + 1, !.investigated = @ + 1], InHand(run[d]) - 1)
  BY <1>1, <1>9, <1>10, Counted
<1>3. crew \in [Entity -> 0 .. now \cup {Never}] /\ now \in Nat
  BY DEF TInv, IInv, Types
<1>4. ASSUME Drop(d) PROVE TInv'
  <2>1. PICK r : r = [run[d] EXCEPT !.batch = Tail(@), !.tally.closed = @ + 1]
    OBVIOUS
  <2>2. /\ Turns(d, r) /\ UNCHANGED <<queue, crew, closed, store, now>>
        /\ run[d].pc = "triage" /\ run[d].batch # <<>>
    BY <1>4, <2>1 DEF Drop, Turns, At
  <2>3. /\ DOMAIN r = DOMAIN Started /\ r.ticks = run[d].ticks /\ r.drift = run[d].drift
        /\ r.batch = Tail(run[d].batch) /\ r.why = run[d].why /\ r.pc = run[d].pc
        /\ r.tally = [run[d].tally EXCEPT !.closed = @ + 1]
    BY <1>1, <2>1, Fields
  <2>4. InHand(run[d]) \in Int /\ InHand(r) = InHand(run[d]) - 1
    <3>1. PICK l \in Nat : l = Len(run[d].batch)
      BY <1>1
    <3>2. Len(r.batch) = l - 1 /\ l - 1 \in Nat
      BY <1>1, <2>2, <2>3, <3>1
    <3>3. InHand(run[d]) = l /\ InHand(r) = l - 1
      <4>1. Len(run[d].batch) = l /\ run[d].pc \notin Committing
        BY <1>2, <2>2, <3>1
      <4>2. InHand(run[d]) = l
        BY <4>1, HandFacts
      <4>3. PICK k \in Nat : k = Len(r.batch)
        BY <3>2
      <4>4. r.pc \in Committing <=> r.pc = "fire"
        BY <1>2, <2>2, <2>3
      <4>5. InHand(r) = IF r.pc = "fire" THEN k - 1 ELSE k
        BY <4>3, <4>4, HandFacts
      <4>6. InHand(r) = l - 1
        BY <2>2, <2>3, <3>2, <4>3, <4>5
      <4>7. QED
        BY <4>2, <4>6
    <3>4. QED
      BY <3>1, <3>2, <3>3
  <2>5. r.tally \in [DOMAIN NoTally -> Nat] /\ Sums(r)
    <3>1. r.tally \in [DOMAIN NoTally -> Nat] /\ Balanced(r.tally, InHand(run[d]) - 1)
      BY <1>11, <2>3
    <3>2. QED
      BY <2>4, <3>1 DEF Sums
  <2>6. Cells' /\ crew' \in [Entity -> 0 .. now' \cup {Never}]
    <3>1. Cells'
      BY <2>2, CellsStay
    <3>2. PICK e, t : /\ t \in 0 .. now \cup {Never}
                      /\ crew' = crew \/ crew' = [crew EXCEPT ![e] = t]
      <4>1. Head1(d).entity \in Entity
        BY <1>1, <1>2, <2>2
      <4>2. crew[Head1(d).entity] \in 0 .. now \cup {Never} /\ now \in 0 .. now \cup {Never}
        BY <1>3, <4>1
      <4>3. QED
        BY <2>2, <4>2
    <3>3. crew' \in [Entity -> 0 .. now' \cup {Never}]
      BY <1>3, <2>2, <3>2
    <3>4. QED
      BY <3>1, <3>3
  <2>7. QED
    BY <1>1, <1>2, <2>2, <2>3, <2>4, <2>5, <2>6, RunTallies
<1>5. ASSUME Dispatch(d) PROVE TInv'
  <2>1. PICK r : r = [run[d] EXCEPT !.pc = "episode"]
    OBVIOUS
  <2>2. /\ Turns(d, r) /\ UNCHANGED <<queue, closed, store, now>>
        /\ run[d].pc = "triage" /\ run[d].batch # <<>>
        /\ crew' = [crew EXCEPT ![Head1(d).entity] = IF @ = Never THEN now ELSE @]
    BY <1>5, <2>1 DEF Dispatch, Turns, At
  <2>3. /\ DOMAIN r = DOMAIN Started /\ r.ticks = run[d].ticks /\ r.drift = run[d].drift
        /\ r.batch = run[d].batch /\ r.why = run[d].why /\ r.pc = "episode"
        /\ r.tally = run[d].tally
    BY <1>1, <2>1, Fields
  <2>4. InHand(r) = InHand(run[d])
    BY <1>1, <1>2, <2>2, <2>3, HandFacts
  <2>5. Sums(r)
    BY <1>1, <2>3, <2>4 DEF Sums
  <2>6. Cells' /\ crew' \in [Entity -> 0 .. now' \cup {Never}]
    <3>1. Cells'
      BY <2>2, CellsStay
    <3>2. PICK e, t : /\ t \in 0 .. now \cup {Never}
                      /\ crew' = crew \/ crew' = [crew EXCEPT ![e] = t]
      <4>1. Head1(d).entity \in Entity
        BY <1>1, <1>2, <2>2
      <4>2. crew[Head1(d).entity] \in 0 .. now \cup {Never} /\ now \in 0 .. now \cup {Never}
        BY <1>3, <4>1
      <4>3. QED
        BY <2>2, <4>2
    <3>3. crew' \in [Entity -> 0 .. now' \cup {Never}]
      BY <1>3, <2>2, <3>2
    <3>4. QED
      BY <3>1, <3>3
  <2>7. QED
    BY <1>1, <1>2, <2>2, <2>3, <2>5, <2>6, RunTallies
<1>6. ASSUME Raises(d) PROVE TInv'
  <2>1. PICK r : r = [run[d] EXCEPT !.pc = "triage", !.batch = Tail(@),
                                    !.tally.errors = @ + 1, !.tally.investigated = @ + 1]
    OBVIOUS
  <2>2. /\ Turns(d, r) /\ UNCHANGED <<queue, crew, closed, store, now>>
        /\ run[d].pc = "episode"
    BY <1>6, <2>1 DEF Raises, Turns, At
  <2>3. /\ DOMAIN r = DOMAIN Started /\ r.ticks = run[d].ticks /\ r.drift = run[d].drift
        /\ r.batch = Tail(run[d].batch) /\ r.why = run[d].why /\ r.pc = "triage"
        /\ r.tally = [run[d].tally EXCEPT !.errors = @ + 1, !.investigated = @ + 1]
    BY <1>1, <2>1, Fields
  <2>4. InHand(run[d]) \in Int /\ InHand(r) = InHand(run[d]) - 1
    <3>1. PICK l \in Nat : l = Len(run[d].batch)
      BY <1>1
    <3>2. Len(r.batch) = l - 1 /\ l - 1 \in Nat
      BY <1>1, <2>2, <2>3, <3>1
    <3>3. InHand(run[d]) = l /\ InHand(r) = l - 1
      <4>1. Len(run[d].batch) = l /\ run[d].pc \notin Committing
        BY <1>2, <2>2, <3>1
      <4>2. InHand(run[d]) = l
        BY <4>1, HandFacts
      <4>3. PICK k \in Nat : k = Len(r.batch)
        BY <3>2
      <4>4. r.pc \in Committing <=> r.pc = "fire"
        BY <1>2, <2>2, <2>3
      <4>5. InHand(r) = IF r.pc = "fire" THEN k - 1 ELSE k
        BY <4>3, <4>4, HandFacts
      <4>6. InHand(r) = l - 1
        BY <2>2, <2>3, <3>2, <4>3, <4>5
      <4>7. QED
        BY <4>2, <4>6
    <3>4. QED
      BY <3>1, <3>2, <3>3
  <2>5. r.tally \in [DOMAIN NoTally -> Nat] /\ Sums(r)
    <3>1. r.tally \in [DOMAIN NoTally -> Nat] /\ Balanced(r.tally, InHand(run[d]) - 1)
      BY <1>12, <2>3
    <3>2. QED
      BY <2>4, <3>1 DEF Sums
  <2>6. Cells' /\ crew' \in [Entity -> 0 .. now' \cup {Never}]
    <3>1. Cells'
      BY <2>2, CellsStay
    <3>2. PICK e, t : /\ t \in 0 .. now \cup {Never}
                      /\ crew' = crew \/ crew' = [crew EXCEPT ![e] = t]
      <4>1. Head1(d).entity \in Entity
        BY <1>1, <1>2, <2>2
      <4>2. crew[Head1(d).entity] \in 0 .. now \cup {Never} /\ now \in 0 .. now \cup {Never}
        BY <1>3, <4>1
      <4>3. QED
        BY <2>2, <4>2
    <3>3. crew' \in [Entity -> 0 .. now' \cup {Never}]
      BY <1>3, <2>2, <3>2
    <3>4. QED
      BY <3>1, <3>3
  <2>7. QED
    BY <1>1, <1>2, <2>2, <2>3, <2>4, <2>5, <2>6, RunTallies
<1>7. ASSUME NEW echoes \in BOOLEAN, Completes(d, echoes) PROVE TInv'
  <2>1. PICK r : r = [run[d] EXCEPT !.pc = "fire", !.tally.episodes = @ + 1,
                                    !.tally.investigated = @ + 1]
    OBVIOUS
  <2>2. /\ Turns(d, r) /\ UNCHANGED <<closed, store, now>> /\ run[d].pc = "episode"
        /\ crew' = [crew EXCEPT ![Head1(d).entity] = now]
    <3>1. Turns(d, r)
      BY <1>7, <2>1, ZenonT(60) DEF Completes, Turns
    <3>2. UNCHANGED <<closed, store, now>> /\ run[d].pc = "episode"
          /\ crew' = [crew EXCEPT ![Head1(d).entity] = now]
      BY <1>7 DEF Completes, At
    <3>3. QED
      BY <3>1, <3>2
  <2>3. /\ DOMAIN r = DOMAIN Started /\ r.ticks = run[d].ticks /\ r.drift = run[d].drift
        /\ r.batch = run[d].batch /\ r.why = run[d].why /\ r.pc = "fire"
        /\ r.tally = [run[d].tally EXCEPT !.episodes = @ + 1, !.investigated = @ + 1]
    BY <1>1, <2>1, Fields
  <2>4. InHand(run[d]) \in Int /\ InHand(r) = InHand(run[d]) - 1
    <3>1. PICK l \in Nat : l = Len(run[d].batch)
      BY <1>1
    <3>2. Len(r.batch) = l
      BY <1>1, <2>2, <2>3, <3>1
    <3>3. InHand(run[d]) = l /\ InHand(r) = l - 1
      <4>1. Len(run[d].batch) = l /\ run[d].pc \notin Committing
        BY <1>2, <2>2, <3>1
      <4>2. InHand(run[d]) = l
        BY <4>1, HandFacts
      <4>3. PICK k \in Nat : k = Len(r.batch)
        BY <3>2
      <4>4. r.pc \in Committing <=> r.pc = "fire"
        BY <1>2, <2>2, <2>3
      <4>5. InHand(r) = IF r.pc = "fire" THEN k - 1 ELSE k
        BY <4>3, <4>4, HandFacts
      <4>6. InHand(r) = l - 1
        BY <2>2, <2>3, <3>2, <4>3, <4>5
      <4>7. QED
        BY <4>2, <4>6
    <3>4. QED
      BY <3>1, <3>2, <3>3
  <2>5. r.tally \in [DOMAIN NoTally -> Nat] /\ Sums(r)
    <3>1. r.tally \in [DOMAIN NoTally -> Nat] /\ Balanced(r.tally, InHand(run[d]) - 1)
      BY <1>13, <2>3
    <3>2. QED
      BY <2>4, <3>1 DEF Sums
  <2>6. Cells' /\ crew' \in [Entity -> 0 .. now' \cup {Never}]
    <3>1. Cells'
      BY <2>2, CellsStay
    <3>2. PICK e, t : /\ t \in 0 .. now \cup {Never}
                      /\ crew' = crew \/ crew' = [crew EXCEPT ![e] = t]
      <4>1. Head1(d).entity \in Entity
        BY <1>1, <1>2, <2>2
      <4>2. crew[Head1(d).entity] \in 0 .. now \cup {Never} /\ now \in 0 .. now \cup {Never}
        BY <1>3, <4>1
      <4>3. QED
        BY <2>2, <4>2
    <3>3. crew' \in [Entity -> 0 .. now' \cup {Never}]
      BY <1>3, <2>2, <3>2
    <3>4. QED
      BY <3>1, <3>3
  <2>7. \A c \in Daemon : c # d => queue'[c] = queue[c]
    <3>1. PICK q : queue' = queue \/ queue' = [queue EXCEPT ![d] = q]
      BY <1>7 DEF Completes
    <3>2. queue \in [Daemon -> Seq(Signal)]
      BY DEF IInv, Types
    <3>3. QED
      BY <3>1, <3>2
  <2>8. QED
    BY <1>1, <1>2, <2>2, <2>3, <2>4, <2>5, <2>6, <2>7, RunTallies
<1>8. QED
  BY <1>4, <1>5, <1>6, <1>7

LEMMA CommitTallies ==
  ASSUME IInv, TInv, NEW d \in Daemon,
         ReadFire(d) \/ PutFire(d) \/ ReadKey(d) \/ PutKey(d)
  PROVE  TInv'
<1>1. /\ DOMAIN run[d] = DOMAIN Started
      /\ run[d].batch \in Seq(Signal) /\ Len(run[d].batch) \in Nat
      /\ run[d].tally \in [DOMAIN NoTally -> Nat]
      /\ run[d].pc \in {"episode"} \cup Committing => run[d].batch # <<>>
      /\ run[d].batch # <<>> =>
           /\ Tail(run[d].batch) \in Seq(Signal) /\ Len(Tail(run[d].batch)) \in Nat
           /\ Len(Tail(run[d].batch)) = Len(run[d].batch) - 1
           /\ Head1(d) \in Signal /\ Head1(d).entity \in Entity
      /\ run[d].why # "" => run[d].pc = "ended"
      /\ Sums(run[d])
  BY RunFacts
<1>2. /\ "triage" \notin Committing
      /\ {"fire", "put_fire", "key", "put_key"} \subseteq Committing
  BY DEF Committing
<1>3. /\ run[d].pc \in Committing /\ run[d].pc # "ended" /\ run[d].batch # <<>>
      /\ Head1(d) \in Signal /\ Head1(d).entity \in Entity
      /\ UNCHANGED <<queue, closed, crew, now>>
  <2>1. run[d].pc \in {"fire", "put_fire", "key", "put_key"}
        /\ UNCHANGED <<queue, closed, crew, now>>
    BY DEF ReadFire, PutFire, ReadKey, PutKey, At
  <2>2. QED
    BY <1>1, <1>2, <2>1
<1>4. /\ crew' \in [Entity -> 0 .. now' \cup {Never}] /\ now \in Nat
      /\ budget \in [Entity -> Cell] /\ DOMAIN seen \subseteq Entity \cup States
      /\ closed' \in [Daemon -> BOOLEAN]
  BY <1>3 DEF TInv, Cells, IInv, Types
<1>5. ASSUME NEW r, Turns(d, r), DOMAIN r = DOMAIN Started,
             r.ticks = run[d].ticks, r.drift = run[d].drift, r.why = run[d].why,
             r.tally = run[d].tally,
             \/ r.pc \in Committing /\ r.batch = run[d].batch
             \/ r.pc = "triage" /\ r.batch = Tail(run[d].batch),
             r.pc = "put_fire" => r.read \in Cell,
             r.pc = "put_key" => DOMAIN r.read \subseteq Entity \cup States,
             Cells'
      PROVE  TInv'
  <2>1. r.batch \in Seq(Signal) /\ r.why = ""
    BY <1>1, <1>3, <1>5
  <2>2. InHand(r) = InHand(run[d])
    <3>1. CASE r.pc \in Committing
      BY <1>2, <1>3, <1>5, <3>1, Zenon DEF InHand
    <3>2. CASE r.pc \notin Committing
      <4>1. PICK l, k \in Nat : l = Len(run[d].batch) /\ k = Len(r.batch)
        BY <1>1, <1>3, <1>5, <3>2
      <4>2. InHand(run[d]) = l - 1
        BY <1>3, <4>1, HandFacts
      <4>3. InHand(r) = k
        BY <3>2, <4>1, HandFacts
      <4>4. k = l - 1
        BY <1>1, <1>3, <1>5, <3>2, <4>1
      <4>5. QED
        BY <4>2, <4>3, <4>4
    <3>3. QED
      BY <3>1, <3>2
  <2>3. Sums(r) /\ r.tally \in [DOMAIN NoTally -> Nat]
    BY <1>1, <1>5, <2>2 DEF Sums
  <2>4. r.pc \in {"triage", "episode"} \cup Committing
    BY <1>5
  <2>5. \A c \in Daemon : c # d => queue'[c] = queue[c]
    BY <1>3
  <2>6. QED
    BY <1>3, <1>4, <1>5, <2>1, <2>3, <2>4, <2>5, RunTallies
<1>6. ASSUME ReadFire(d) PROVE TInv'
  <2>1. PICK r : r = [run[d] EXCEPT !.pc = "put_fire", !.read = budget[Head1(d).entity]]
    OBVIOUS
  <2>2. Turns(d, r) /\ UNCHANGED <<closed, store>>
    BY <1>6, <2>1 DEF ReadFire, Turns
  <2>3. /\ DOMAIN r = DOMAIN Started /\ r.pc = "put_fire" /\ r.read = budget[Head1(d).entity]
        /\ r.ticks = run[d].ticks /\ r.drift = run[d].drift /\ r.why = run[d].why
        /\ r.tally = run[d].tally /\ r.batch = run[d].batch
    BY <1>1, <2>1, Fields
  <2>4. Cells'
    BY <2>2, CellsStay
  <2>5. r.read \in Cell /\ r.pc # "put_key" /\ r.pc \in Committing
    BY <1>2, <1>3, <1>4, <2>3
  <2>6. QED
    BY <1>5, <2>2, <2>3, <2>4, <2>5
<1>7. ASSUME PutFire(d) PROVE TInv'
  <2>1. PICK r : r = [run[d] EXCEPT !.pc = "key", !.read = NoCell]
    OBVIOUS
  <2>2. /\ Turns(d, r) /\ UNCHANGED <<closed, seen>> /\ run[d].pc = "put_fire"
        /\ budget' = [budget EXCEPT ![Head1(d).entity] = Fired(run[d].read, now)]
    BY <1>7, <2>1 DEF PutFire, Turns, At
  <2>3. /\ DOMAIN r = DOMAIN Started /\ r.pc = "key"
        /\ r.ticks = run[d].ticks /\ r.drift = run[d].drift /\ r.why = run[d].why
        /\ r.tally = run[d].tally /\ r.batch = run[d].batch
    BY <1>1, <2>1, Fields
  <2>4. Cells'
    <3>1. run[d].read \in Cell
      BY <2>2 DEF TInv, Tallied, Shaped
    <3>2. Fired(run[d].read, now) \in Cell
      BY <1>4, <3>1 DEF Fired, Cell
    <3>3. QED
      BY <1>4, <2>2, <3>2 DEF Cells
  <2>5. r.pc # "put_fire" /\ r.pc # "put_key" /\ r.pc \in Committing
    BY <1>2, <2>3
  <2>6. QED
    BY <1>5, <2>2, <2>3, <2>4, <2>5
<1>8. ASSUME ReadKey(d) PROVE TInv'
  <2>1. PICK r : r = [run[d] EXCEPT !.pc = "put_key", !.read = seen]
    OBVIOUS
  <2>2. Turns(d, r) /\ UNCHANGED <<closed, store>>
    BY <1>8, <2>1 DEF ReadKey, Turns
  <2>3. /\ DOMAIN r = DOMAIN Started /\ r.pc = "put_key" /\ r.read = seen
        /\ r.ticks = run[d].ticks /\ r.drift = run[d].drift /\ r.why = run[d].why
        /\ r.tally = run[d].tally /\ r.batch = run[d].batch
    BY <1>1, <2>1, Fields
  <2>4. Cells'
    BY <2>2, CellsStay
  <2>5. DOMAIN r.read \subseteq Entity \cup States /\ r.pc # "put_fire" /\ r.pc \in Committing
    BY <1>2, <1>4, <2>3
  <2>6. QED
    BY <1>5, <2>2, <2>3, <2>4, <2>5
<1>9. ASSUME PutKey(d) PROVE TInv'
  <2>1. PICK r : r = [run[d] EXCEPT !.pc = "triage", !.batch = Tail(@), !.read = NoCell]
    OBVIOUS
  <2>2. /\ Turns(d, r) /\ UNCHANGED <<closed, budget>> /\ run[d].pc = "put_key"
        /\ seen' = Folded(mode, run[d].read, Head1(d))
    BY <1>9, <2>1 DEF PutKey, Turns, At
  <2>3. /\ DOMAIN r = DOMAIN Started /\ r.pc = "triage"
        /\ r.ticks = run[d].ticks /\ r.drift = run[d].drift /\ r.why = run[d].why
        /\ r.tally = run[d].tally /\ r.batch = Tail(run[d].batch)
    BY <1>1, <2>1, Fields
  <2>4. Cells'
    <3>1. DOMAIN run[d].read \subseteq Entity \cup States
      BY <2>2 DEF TInv, Tallied, Shaped
    <3>2. Head1(d).entity \in Entity /\ Head1(d).state \in States
      BY <1>3 DEF Signal
    <3>3. DOMAIN seen' \subseteq Entity \cup States
      BY <2>2, <3>1, <3>2 DEF Folded, Put
    <3>4. QED
      BY <1>4, <2>2, <3>3 DEF Cells
  <2>5. r.pc # "put_fire" /\ r.pc # "put_key"
    BY <2>3
  <2>6. QED
    BY <1>5, <2>2, <2>3, <2>4, <2>5
<1>10. QED
  BY <1>6, <1>7, <1>8, <1>9

(***************************************************************************)
(* A tick takes the queue and what drift reports; it ends with nothing in  *)
(* hand, and says its source is drained only when nothing is queued.       *)
(***************************************************************************)
LEMMA TickTallies ==
  ASSUME IInv, TInv, NEW d \in Daemon,
         \/ Poll(d) \/ \E drift \in {<<>>} \cup {<<s>> : s \in Drifts} : Monitor(d, drift)
         \/ EndTick(d) \/ Restart(d) \/ Crash(d)
  PROVE  TInv'
<1>1. /\ DOMAIN run[d] = DOMAIN Started
      /\ run[d].batch \in Seq(Signal) /\ Len(run[d].batch) \in Nat
      /\ run[d].drift \in Seq(Signal) /\ run[d].ticks \in 0 .. MaxTicks
      /\ run[d].tally \in [DOMAIN NoTally -> Nat]
      /\ run[d].why # "" => run[d].pc = "ended"
      /\ Sums(run[d])
      /\ run[d].pc = "monitor" => run[d].ticks < MaxTicks
      /\ run[d].pc \in {"monitor", "polled"} => run[d].batch = <<>>
      /\ run[d].pc = "polled" => run[d].copy \in Seq(Signal)
  BY RunFacts
<1>2. {"monitor", "polled", "triage", "off", "ended"} \cap Committing = {}
  BY DEF Committing
<1>3. /\ crew \in [Entity -> 0 .. now \cup {Never}] /\ now \in Nat
      /\ queue \in [Daemon -> Seq(Signal)] /\ closed \in [Daemon -> BOOLEAN]
      /\ MaxTicks \in Nat \ {0}
  BY KtloAssumption DEF TInv, Cells, IInv, Types
<1>4. ASSUME NEW drift \in {<<>>} \cup {<<s>> : s \in Drifts}, Monitor(d, drift) PROVE TInv'
  <2>0. PICK b, n : b = run[d].copy \o drift /\ n = Len(run[d].copy \o drift)
    OBVIOUS
  <2>1. PICK r : r = [run[d] EXCEPT !.pc = "triage", !.copy = <<>>, !.batch = b,
                                    !.drift = drift, !.tally.seen = @ + n]
    OBVIOUS
  <2>2. /\ Turns(d, r) /\ UNCHANGED <<closed, store, crew, now>> /\ run[d].pc = "polled"
        /\ queue' = [queue EXCEPT ![d] = <<>>]
    <3>1. run' = [run EXCEPT ![d].pc = "triage", ![d].copy = <<>>, ![d].batch = b,
                             ![d].drift = drift, ![d].tally.seen = @ + n]
      BY <1>4, <2>0 DEF Monitor
    <3>2. Turns(d, r)
      BY <2>1, <3>1, ZenonT(60) DEF Turns
    <3>3. QED
      BY <1>4, <3>2 DEF Monitor, At
  <2>3. drift \in Seq(Signal)
    <3>1. CASE drift = <<>>
      BY <3>1
    <3>2. ASSUME NEW s \in Drifts, drift = <<s>> PROVE drift \in Seq(Signal)
      <4>1. s \in Signal
        BY KtloAssumption
      <4>2. QED
        BY <3>2, <4>1
    <3>3. QED
      BY <3>1, <3>2
  <2>4. b \in Seq(Signal) /\ n \in Nat /\ n = Len(b)
    <3>1. run[d].copy \in Seq(Signal)
      BY <1>1, <2>2
    <3>2. run[d].copy \o drift \in Seq(Signal)
      BY <2>3, <3>1
    <3>3. QED
      BY <2>0, <3>2
  <2>5. /\ DOMAIN r = DOMAIN Started /\ r.ticks = run[d].ticks /\ r.drift = drift
        /\ r.batch = b /\ r.why = run[d].why /\ r.pc = "triage"
        /\ r.tally = [run[d].tally EXCEPT !.seen = @ + n]
    BY <1>1, <2>1, Fields
  <2>6. InHand(run[d]) = 0 /\ InHand(r) = n
    <3>1. Len(run[d].batch) = 0 /\ run[d].pc \notin Committing /\ r.pc \notin Committing
      BY <1>1, <1>2, <2>2, <2>5
    <3>2. InHand(run[d]) = 0
      BY <3>1, HandFacts
    <3>3. QED
      BY <2>4, <2>5, <3>1, <3>2, HandFacts
  <2>7. r.tally \in [DOMAIN NoTally -> Nat] /\ Sums(r)
    <3>1. Balanced(run[d].tally, 0)
      BY <1>1, <2>6 DEF Sums
    <3>2. r.tally \in [DOMAIN NoTally -> Nat] /\ Balanced(r.tally, n)
      BY <1>1, <2>4, <2>5, <3>1, Taken
    <3>3. QED
      BY <2>6, <3>2 DEF Sums
  <2>8. Shaped(r)
    BY <1>1, <2>3, <2>4, <2>5, <2>7 DEF Shaped
  <2>9. Reasoned(r, queue'[d], closed'[d])
    BY <1>1, <2>2, <2>5 DEF Reasoned, Reason
  <2>10. /\ Cells' /\ crew' \in [Entity -> 0 .. now' \cup {Never}]
         /\ \A c \in Daemon : c # d => queue'[c] = queue[c] /\ closed'[c] = closed[c]
    <3>1. Cells'
      BY <2>2, CellsStay
    <3>2. QED
      BY <1>3, <2>2, <3>1
  <2>11. QED
    BY <2>2, <2>7, <2>8, <2>9, <2>10, TurnTallies
<1>5. ASSUME EndTick(d) PROVE TInv'
  <2>1. PICK r : r = [run[d] EXCEPT !.pc = IF Why(d) = "" THEN "monitor" ELSE "ended",
                                    !.why = Why(d)]
    OBVIOUS
  <2>2. /\ Turns(d, r) /\ UNCHANGED <<queue, closed, store, crew, now>>
        /\ run[d].pc = "triage" /\ run[d].batch = <<>>
    BY <1>5, <2>1 DEF EndTick, Turns, At
  <2>3. /\ DOMAIN r = DOMAIN Started /\ r.ticks = run[d].ticks /\ r.drift = run[d].drift
        /\ r.batch = run[d].batch /\ r.why = Why(d) /\ r.tally = run[d].tally
        /\ r.pc = IF Why(d) = "" THEN "monitor" ELSE "ended"
    BY <1>1, <2>1, Fields
  <2>4. /\ Why(d) \in Reason
        /\ Why(d) = "source_drained" => closed[d] /\ queue[d] = <<>>
        /\ Why(d) = "" => run[d].ticks # MaxTicks
    BY DEF Why, Drained, Reason
  <2>5. InHand(r) = InHand(run[d])
    <3>1. run[d].pc \notin Committing /\ r.pc \notin Committing
      BY <1>2, <2>2, <2>3
    <3>2. QED
      BY <2>3, <3>1, Zenon DEF InHand
  <2>6. Sums(r)
    BY <1>1, <2>3, <2>5 DEF Sums
  <2>7. Shaped(r)
    <3>1. r.pc \in {"monitor", "ended"} /\ (r.pc = "monitor" => r.ticks < MaxTicks)
      <4>1. PICK k \in Nat : k = run[d].ticks /\ k <= MaxTicks
        <5>1. run[d].ticks \in Nat /\ run[d].ticks <= MaxTicks
          BY <1>1, TickFacts
        <5>2. QED
          BY <5>1
      <4>2. k # MaxTicks => k < MaxTicks
        BY <1>3, <4>1
      <4>3. QED
        BY <2>3, <2>4, <4>1, <4>2
    <3>2. QED
      BY <1>1, <2>2, <2>3, <3>1 DEF Shaped
  <2>8. Reasoned(r, queue'[d], closed'[d])
    BY <2>2, <2>3, <2>4 DEF Reasoned
  <2>9. Cells' /\ crew' \in [Entity -> 0 .. now' \cup {Never}]
    <3>1. Cells'
      BY <2>2, CellsStay
    <3>2. QED
      BY <1>3, <2>2, <3>1
  <2>10. QED
    BY <2>2, <2>6, <2>7, <2>8, <2>9, TurnTallies
<1>6. ASSUME Restart(d) PROVE TInv'
  <2>1. Turns(d, Started) /\ UNCHANGED <<queue, closed, store, crew, now>>
    BY <1>6 DEF Restart, Turns
  <2>2. Shaped(Started) /\ Sums(Started) /\ Started.why = ""
    BY TallyAtStart
  <2>3. Reasoned(Started, queue'[d], closed'[d])
    BY <2>2 DEF Reasoned, Reason
  <2>4. Cells' /\ crew' \in [Entity -> 0 .. now' \cup {Never}]
    <3>1. Cells'
      BY <2>1, CellsStay
    <3>2. QED
      BY <1>3, <2>1, <3>1
  <2>5. QED
    BY <2>1, <2>2, <2>3, <2>4, TurnTallies
<1>7. ASSUME Crash(d) PROVE TInv'
  <2>1. PICK r : r = [Started EXCEPT !.pc = "off"]
    OBVIOUS
  <2>2. /\ Turns(d, r) /\ UNCHANGED <<store, crew, now>>
        /\ queue' = [queue EXCEPT ![d] = <<>>] /\ closed' = [closed EXCEPT ![d] = FALSE]
    BY <1>7, <2>1 DEF Crash, Turns
  <2>3. Shaped(r) /\ Sums(r) /\ r.why = ""
    BY <2>1, TallyAtStart
  <2>4. Reasoned(r, queue'[d], closed'[d])
    BY <2>3 DEF Reasoned, Reason
  <2>5. Cells' /\ crew' \in [Entity -> 0 .. now' \cup {Never}]
    <3>1. closed' \in [Daemon -> BOOLEAN]
      BY <1>3, <2>2
    <3>2. QED
      BY <1>3, <2>2, <3>1 DEF TInv, Cells, store
  <2>6. \A c \in Daemon : c # d => queue'[c] = queue[c] /\ closed'[c] = closed[c]
    BY <1>3, <2>2
  <2>7. QED
    BY <2>2, <2>3, <2>4, <2>5, <2>6, TurnTallies
<1>8. ASSUME Poll(d) PROVE TInv'
  <2>1. PICK r : r = [run[d] EXCEPT !.pc = "polled", !.ticks = @ + 1, !.copy = queue[d]]
    OBVIOUS
  <2>2. /\ Turns(d, r) /\ UNCHANGED <<queue, closed, store, crew, now>>
        /\ run[d].pc = "monitor"
    BY <1>8, <2>1 DEF Poll, Turns, At
  <2>3. /\ DOMAIN r = DOMAIN Started /\ r.ticks = run[d].ticks + 1 /\ r.drift = run[d].drift
        /\ r.copy = queue[d] /\ r.batch = run[d].batch /\ r.why = run[d].why
        /\ r.pc = "polled" /\ r.tally = run[d].tally
    BY <1>1, <2>1, Fields
  <2>4. InHand(r) = InHand(run[d])
    <3>1. run[d].pc \notin Committing /\ r.pc \notin Committing
      BY <1>2, <2>2, <2>3
    <3>2. QED
      BY <2>3, <3>1, Zenon DEF InHand
  <2>5. Sums(r)
    BY <1>1, <2>3, <2>4 DEF Sums
  <2>6. r.ticks \in 0 .. MaxTicks
    <3>1. PICK k \in Nat : k = run[d].ticks /\ k < MaxTicks
      <4>1. run[d].ticks \in Nat
        BY <1>1, TickFacts
      <4>2. QED
        BY <1>1, <2>2, <4>1
    <3>2. k + 1 \in 0 .. MaxTicks
      BY <1>3, <3>1
    <3>3. QED
      BY <2>3, <3>1, <3>2
  <2>7. Shaped(r)
    <3>1. run[d].batch = <<>> /\ queue[d] \in Seq(Signal)
      BY <1>1, <1>3, <2>2
    <3>2. QED
      BY <1>1, <2>3, <2>6, <3>1 DEF Shaped
  <2>8. Reasoned(r, queue'[d], closed'[d])
    BY <1>1, <2>2, <2>3 DEF Reasoned, Reason
  <2>9. Cells' /\ crew' \in [Entity -> 0 .. now' \cup {Never}]
    <3>1. Cells'
      BY <2>2, CellsStay
    <3>2. QED
      BY <1>3, <2>2, <3>1
  <2>10. QED
    BY <2>2, <2>5, <2>7, <2>8, <2>9, TurnTallies
<1>9. QED
  BY <1>4, <1>5, <1>6, <1>7, <1>8

(***************************************************************************)
(* The producer queues nothing at a source it closed, and has nothing to   *)
(* say to a run that ended.                                                *)
(***************************************************************************)
LEMMA SourceTallies ==
  ASSUME IInv, TInv, NEW d \in Daemon,
         Close(d) \/ \E s \in Tickets : Enqueue(d, s)
  PROVE  TInv'
<1>1. run[d].pc # "ended" /\ UNCHANGED <<run, store, crew, now>>
  BY DEF Close, Enqueue, Lasting
<1>2. queue \in [Daemon -> Seq(Signal)] /\ closed \in [Daemon -> BOOLEAN]
  BY DEF TInv, Cells, IInv, Types
<1>3. /\ \A c \in Daemon : c # d => queue'[c] = queue[c] /\ closed'[c] = closed[c]
      /\ closed' \in [Daemon -> BOOLEAN]
  <2>1. CASE Close(d)
    BY <1>2, <2>1 DEF Close
  <2>2. ASSUME NEW s \in Tickets, Enqueue(d, s)
        PROVE  \A c \in Daemon : c # d => queue'[c] = queue[c] /\ closed' = closed
    <3>1. queue' = [queue EXCEPT ![d] = Append(@, s)] /\ closed' = closed
      BY <2>2 DEF Enqueue
    <3>2. PICK q : queue' = [queue EXCEPT ![d] = q]
      BY <3>1
    <3>3. QED
      BY <1>2, <3>1, <3>2
  <2>3. (\E s \in Tickets : Enqueue(d, s)) => closed' = closed
    BY DEF Enqueue
  <2>4. QED
    BY <1>2, <2>1, <2>2, <2>3
<1>4. Tallied(run[d], queue[d], closed[d])
  BY DEF TInv
<1>5. run[d].why = "" /\ Shaped(run[d]) /\ Sums(run[d])
  BY <1>1, <1>4 DEF Tallied, Reasoned
<1>6. Tallied(run'[d], queue'[d], closed'[d])
  BY <1>1, <1>5 DEF Tallied, Reasoned, Reason
<1>7. \A c \in Daemon : Tallied(run'[c], queue'[c], closed'[c])
  BY <1>1, <1>3, <1>6 DEF TInv
<1>8. QED
  BY <1>1, <1>3, <1>7 DEF TInv, Cells, store

LEMMA NextTInv == IInv /\ TInv /\ [Next]_vars => TInv'
<1>1. SUFFICES ASSUME IInv, TInv, [Next]_vars PROVE TInv'
  OBVIOUS
<1>2. ASSUME NEW d \in Daemon, Step(d) \/ Close(d) \/ Crash(d) PROVE TInv'
  BY <1>1, <1>2, TriageTallies, CommitTallies, TickTallies, SourceTallies DEF Step
<1>3. ASSUME NEW d \in Daemon, NEW s \in Tickets, Enqueue(d, s) PROVE TInv'
  BY <1>1, <1>3, SourceTallies
<1>4. /\ crew \in [Entity -> 0 .. now \cup {Never}] /\ now \in Nat
      /\ crew \in [Entity -> Nat \cup {Never}]
  BY <1>1 DEF TInv, IInv, Types
<1>5. ASSUME UNCHANGED <<run, queue, closed, store>>,
             crew' \in [Entity -> 0 .. now' \cup {Never}]
      PROVE  TInv'
  BY <1>1, <1>5 DEF TInv, Cells, store
<1>6. CASE Sweep
  <2>1. PICK gone : /\ crew' = [e \in Entity |-> IF e \in gone THEN Never ELSE crew[e]]
                    /\ UNCHANGED <<run, queue, closed, store, now>>
    BY <1>6 DEF Sweep
  <2>2. crew' \in [Entity -> 0 .. now' \cup {Never}]
    BY <1>4, <2>1
  <2>3. QED
    BY <1>5, <2>1, <2>2
<1>7. CASE Clock
  <2>1. now' = now + 1 /\ UNCHANGED <<run, queue, closed, store, crew>>
    BY <1>7 DEF Clock
  <2>2. 0 .. now \subseteq 0 .. now'
    BY <1>4, <2>1
  <2>3. crew' \in [Entity -> 0 .. now' \cup {Never}]
    BY <1>4, <2>1, <2>2
  <2>4. QED
    BY <1>5, <2>1, <2>3
<1>8. CASE UNCHANGED vars
  BY <1>4, <1>5, <1>8 DEF vars, store
<1>9. QED
  BY <1>1, <1>2, <1>3, <1>6, <1>7, <1>8 DEF Next

(***************************************************************************)
(* The tally a run returns adds up, no signal it took is forgotten, and a  *)
(* run that says its source is drained has drained it (KTLODaemon.run).    *)
(***************************************************************************)
THEOREM TallyHolds == Spec => []TallyAddsUp
<1>1. ASSUME IInv, TInv PROVE TallyAddsUp
  <2>1. ASSUME NEW d \in Daemon
        PROVE  /\ run[d].pc \in {"monitor", "polled", "triage", "episode", "fire", "put_fire",
                                 "key", "put_key", "off", "ended"}
               /\ run[d].ticks \in 0 .. MaxTicks
               /\ {run[d].batch, run[d].drift} \subseteq Seq(Signal)
               /\ run[d].pc = "polled" => run[d].copy \in Seq(Signal)
               /\ run[d].tally \in [DOMAIN NoTally -> Nat]
               /\ run[d].why \in {"", "launch_complete", "source_drained", "tick_cap"}
    BY <1>1 DEF TInv, Tallied, Shaped, Reasoned, Reason, Committing
  <2>2. TypeOK
    <3>1. crew \in [Entity -> 0 .. now \cup {Never}] /\ queue \in [Daemon -> Seq(Signal)]
      BY <1>1 DEF TInv, IInv, Types
    <3>2. /\ closed \in [Daemon -> BOOLEAN] /\ DOMAIN seen \subseteq Entity \cup States
          /\ budget \in [Entity -> [count : Nat, last : Nat \cup {Never}]]
      BY <1>1 DEF TInv, Cells, Cell
    <3>3. QED
      BY <2>1, <3>1, <3>2 DEF TypeOK
  <2>3. ASSUME NEW d \in Daemon
        PROVE  LET t == run[d].tally
                   done == IF run[d].pc \in {"fire", "put_fire", "key", "put_key"} THEN 1 ELSE 0
               IN  /\ t.seen = t.closed + t.investigated + Len(run[d].batch) - done
                   /\ t.investigated = t.errors + t.episodes
                   /\ run[d].why = "source_drained"
                        => closed[d] /\ queue[d] = <<>> /\ run[d].batch = <<>>
    <3>1. PICK done : done = IF run[d].pc \in {"fire", "put_fire", "key", "put_key"} THEN 1 ELSE 0
      OBVIOUS
    <3>2. Balanced(run[d].tally, Len(run[d].batch) - done) /\ done \in Int
      <4>1. Sums(run[d])
        BY <1>1, RunFacts
      <4>2. InHand(run[d]) = Len(run[d].batch) - done
        BY <3>1, Zenon DEF InHand, Committing
      <4>3. QED
        <5>1. done \in {0, 1}
          BY <3>1
        <5>2. QED
          BY <4>1, <4>2, <5>1 DEF Sums
    <3>3. /\ run[d].tally.closed \in Nat /\ run[d].tally.investigated \in Nat
          /\ Len(run[d].batch) \in Nat
      BY <1>1, RunFacts, Fields
    <3>4. /\ run[d].tally.seen = run[d].tally.closed + run[d].tally.investigated
                                   + Len(run[d].batch) - done
          /\ run[d].tally.investigated = run[d].tally.errors + run[d].tally.episodes
      <4>1. PICK a, b, l \in Nat : /\ a = run[d].tally.closed /\ b = run[d].tally.investigated
                                   /\ l = Len(run[d].batch)
        BY <3>3
      <4>2. a + b + (l - done) = a + b + l - done
        BY <3>2
      <4>3. QED
        BY <3>2, <4>1, <4>2, Zenon DEF Balanced
    <3>5. run[d].why = "source_drained" => closed[d] /\ queue[d] = <<>> /\ run[d].batch = <<>>
      BY <1>1 DEF TInv, Tallied, Reasoned
    <3>6. QED
      BY <3>1, <3>4, <3>5, Zenon
  <2>4. QED
    BY <2>2, <2>3, Zenon DEF TallyAddsUp
<1>2. Init => IInv /\ TInv
  BY InitIInv, InitTInv
<1>3. IInv /\ TInv /\ [Next]_vars => IInv' /\ TInv'
  BY NextIInv, NextTInv
<1>4. QED
  BY <1>1, <1>2, <1>3, PTL DEF Spec

-----------------------------------------------------------------------------
(***************************************************************************)
(* The accounts.  What the store says of the episodes that ran (Accounts), *)
(* and what a daemon owes for the one it is at (Pledges): its episode is   *)
(* the last it ran, and the cell it read is no more than what is           *)
(* committed.  As long as nobody else has run an episode, the cell is also *)
(* as it read it, and what the gates said before the dispatch still holds. *)
(***************************************************************************)
OnlyBy(d) == \A i \in Index : episodes[i].by = d

Latest(d, i) ==
  /\ i \in Index /\ episodes[i].by = d
  /\ \A j \in i + 1 .. Len(episodes) : episodes[j].by # d

KeyOf(x) == IF mode = "diff" THEN x.state ELSE x.entity

Ran(k) == \E i \in Index : k = KeyOf(episodes[i])

\* A later episode of the same entity has committed its key.
Succeeded(i, n) ==
  \E m \in i + 1 .. n : episodes[m].keyed /\ episodes[m].entity = episodes[i].entity

\* An episode for x, should it be number n + 1, does not repeat the one at i.
Differs(i, x, n) ==
  \/ mode = "new_items" /\ episodes[i].entity # x.entity
  \/ mode = "diff" /\ episodes[i].state # x.state
  \/ mode = "state_change" /\
       \/ episodes[i].entity # x.entity
       \/ episodes[i].state # x.state
       \/ Succeeded(i, n)

Fresh(x) == \A i \in Index : episodes[i].keyed => Differs(i, x, Len(episodes))

Cool(x) == \A i \in Committed(x.entity) : now - episodes[i].fired >= Cooldown

\* The gate's map says that the episode at i ran and was committed.
Noted(i) ==
  \/ mode = "new_items" /\ episodes[i].entity \in DOMAIN seen
  \/ mode = "diff" /\ episodes[i].state \in DOMAIN seen
  \/ mode = "state_change" /\
       \/ Succeeded(i, Len(episodes))
       \/ Has(seen, episodes[i].entity, episodes[i].state)

Dated == \A i \in Index : episodes[i].fired = Never \/ episodes[i].fired \in 0 .. now

Burned ==
  \A e \in Entity :
    /\ budget[e].count <= Cardinality(Committed(e))
    /\ Alone =>
         /\ budget[e].count = Cardinality(Committed(e))
         /\ budget[e].count <= MaxFires
         /\ \A i \in Committed(e) : episodes[i].fired <= budget[e].last

Spaced ==
  Alone => \A e \in Entity : \A i \in Committed(e) : \A j \in Index :
             i < j /\ episodes[j].entity = e => episodes[j].at - episodes[i].fired >= Cooldown

Unrepeated ==
  /\ \A k \in DOMAIN seen : Ran(k)
  /\ Alone => \A i \in Index : episodes[i].keyed =>
                /\ Noted(i)
                /\ \A j \in Index : i < j => Differs(i, episodes[j], j - 1)

Accounts == scenario \in Scenario /\ Dated /\ Burned /\ Spaced /\ Unrepeated

Owed(d, r) ==
  r.pc \in Committing =>
    \E i \in Index :
      /\ Latest(d, i)
      /\ episodes[i].entity = Head(r.batch).entity /\ episodes[i].state = Head(r.batch).state
      /\ r.pc \in {"fire", "put_fire"} => episodes[i].fired = Never

Read(r) ==
  /\ r.pc = "put_fire" => r.read.count <= Cardinality(Committed(Head(r.batch).entity))
  /\ r.pc = "put_key" => \A k \in DOMAIN r.read : Ran(k)

Alive(d, r) ==
  OnlyBy(d) =>
    /\ r.pc \in {"episode", "fire", "put_fire"} => budget[Head(r.batch).entity].count < MaxFires
    /\ r.pc = "put_fire" => r.read = budget[Head(r.batch).entity]
    /\ r.pc = "put_key" => r.read = seen
    /\ r.pc = "episode" => Cool(Head(r.batch)) /\ Fresh(Head(r.batch))

Pledges(d, r) == Owed(d, r) /\ Read(r) /\ Alive(d, r)

GInv == Accounts /\ \A d \in Daemon : Pledges(d, run[d])

LEMMA EpisodeFacts ==
  ASSUME IInv
  PROVE  /\ Len(episodes) \in Nat /\ now \in Nat
         /\ \A i \in Index : /\ i \in Nat /\ episodes[i] \in Episode
                             /\ episodes[i].fired \in Int /\ episodes[i].at \in Nat
                             /\ episodes[i].by \in Daemon
<1>1. episodes \in Seq(Episode) /\ now \in Nat
  BY DEF IInv, Types
<1>2. Len(episodes) \in Nat /\ \A i \in Index : i \in Nat /\ episodes[i] \in Episode
  BY <1>1 DEF Index
<1>3. \A x \in Episode : x.fired \in Int /\ x.at \in Nat /\ x.by \in Daemon
  BY DEF Episode
<1>4. QED
  BY <1>1, <1>2, <1>3

LEMMA CommittedFinite ==
  ASSUME IInv, NEW e
  PROVE  IsFiniteSet(Committed(e)) /\ IsFiniteSet(Lost(e))
         /\ Cardinality(Committed(e)) \in Nat
<1>1. IsFiniteSet(Index)
  BY EpisodeFacts, FS_Interval DEF Index
<1>2. Committed(e) \subseteq Index /\ Lost(e) \subseteq Index
  BY DEF Committed, Lost
<1>3. QED
  BY <1>1, <1>2, FS_Subset, FS_CardinalityType

LEMMA LatestIsLast ==
  ASSUME IInv, NEW d \in Daemon, NEW i, Latest(d, i)
  PROVE  LastOf(d) = i
<1>1. i \in 1 .. Len(episodes) /\ episodes[i].by = d
      /\ \A j \in i + 1 .. Len(episodes) : episodes[j].by # d
  BY DEF Latest, Index
<1>2. Len(episodes) \in Nat
  BY EpisodeFacts
<1>3. ASSUME NEW k \in 1 .. Len(episodes), episodes[k].by = d,
             \A j \in k + 1 .. Len(episodes) : episodes[j].by # d
      PROVE  k = i
  <2>1. ~(k < i)
    BY <1>1, <1>2, <1>3
  <2>2. ~(i < k)
    BY <1>1, <1>2, <1>3
  <2>3. QED
    BY <1>1, <1>2, <2>1, <2>2
<1>4. QED
  BY <1>1, <1>3 DEF LastOf

LEMMA OneAnswers ==
  ASSUME NEW d \in Daemon
  PROVE  /\ OnlyBy(d) => Alone
         /\ \A i \in Index : Alone /\ episodes[i].by = d => OnlyBy(d)
BY DEF OnlyBy, Alone

LEMMA InitGInv == Init => GInv
<1>1. SUFFICES ASSUME Init PROVE GInv
  OBVIOUS
<1>2. /\ scenario \in Scenario /\ episodes = <<>> /\ now = 0 /\ seen = NotSeen
      /\ budget = [e \in Entity |-> NoCell]
  BY <1>1, KtloAssumption DEF Init
<1>3. Index = {}
  BY <1>2 DEF Index
<1>4. \A e : Committed(e) = {} /\ Cardinality(Committed(e)) = 0
  BY <1>3, FS_EmptySet DEF Committed
<1>5. Burned
  <2>1. \A e \in Entity : budget[e].count = 0
    BY <1>2 DEF NoCell
  <2>2. QED
    BY <1>4, <2>1, AdmissionAssumption DEF Burned
<1>6. DOMAIN seen = {}
  BY <1>2 DEF NotSeen
<1>7. Accounts
  BY <1>2, <1>3, <1>4, <1>5, <1>6 DEF Accounts, Dated, Spaced, Unrepeated
<1>8. ASSUME NEW d \in Daemon PROVE Pledges(d, run[d])
  <2>1. run = [c \in Daemon |-> IF c \in scenario.daemons THEN Started ELSE Absent]
    BY <1>1 DEF Init
  <2>2. run[d] = Started \/ run[d] = Absent
    BY <2>1, Zenon
  <2>3. run[d].pc \in {"monitor", "ended"}
    BY <2>2, TallyAtStart DEF Absent
  <2>4. QED
    BY <2>3 DEF Pledges, Owed, Read, Alive, Committing
<1>9. QED
  BY <1>7, <1>8 DEF GInv

(***************************************************************************)
(* A step of one daemon that leaves the accounts alone has to answer for   *)
(* its own pledge only; and away from an episode there is none.            *)
(***************************************************************************)
LEMMA AccountsStay ==
  ASSUME Accounts, UNCHANGED <<scenario, episodes, store, now>>
  PROVE  Accounts'
<1>1. Dated' /\ Spaced' /\ scenario' \in Scenario
  BY DEF Accounts, Dated, Spaced, Alone, Committed, Index
<1>2. Burned'
  BY DEF Accounts, Burned, Alone, Committed, Index, store
<1>3. Unrepeated'
  <2>1. UNCHANGED <<episodes, seen, scenario>>
    BY DEF store
  <2>2. Unrepeated
    BY DEF Accounts
  <2>3. QED
    BY <2>1, <2>2
       DEF Unrepeated, Alone, Index, Ran, KeyOf, Noted, Differs, Succeeded, mode
<1>4. QED
  BY <1>1, <1>2, <1>3 DEF Accounts

LEMMA PledgeStays ==
  ASSUME NEW d, NEW r, Pledges(d, r), UNCHANGED <<scenario, episodes, store, now>>
  PROVE  Pledges(d, r)'
BY DEF Pledges, Owed, Read, Alive, OnlyBy, Latest, Committed, Index, Ran, KeyOf, Cool, Fresh,
       Differs, Succeeded, mode, store

LEMMA Keeps ==
  ASSUME IInv, GInv, NEW d \in Daemon, NEW r, Turns(d, r), Pledges(d, r),
         UNCHANGED <<scenario, episodes, store, now>>
  PROVE  GInv'
<1>1. /\ run'[d] = r
      /\ \A c \in Daemon : c # d => run'[c] = run[c]
  BY TurnFacts DEF IInv
<1>2. Accounts'
  BY AccountsStay DEF GInv
<1>3. ASSUME NEW c \in Daemon PROVE Pledges(c, run[c])'
  <2>1. PICK s : s = run'[c]
    OBVIOUS
  <2>2. Pledges(c, s)
    BY <1>1, <2>1 DEF GInv
  <2>3. Pledges(c, s)'
    BY <2>2, PledgeStays
  <2>4. QED
    BY <2>1, <2>3 DEF Pledges, Owed, Read, Alive
<1>4. QED
  BY <1>2, <1>3 DEF GInv

LEMMA NoPledge ==
  ASSUME NEW d, NEW r, r.pc \in {"monitor", "polled", "triage", "off", "ended"}
  PROVE  Pledges(d, r)
BY DEF Pledges, Owed, Read, Alive, Committing

LEMMA GateFacts ==
  ASSUME IInv, TInv, GInv
  PROVE  /\ \A e \in Entity : budget[e].count \in Nat /\ budget[e].last \in Nat \cup {Never}
         /\ scenario \in Scenario /\ mode \in DetectionMode
         /\ \A i \in Index : /\ episodes[i].fired = Never \/ episodes[i].fired \in 0 .. now
                             /\ episodes[i].keyed \in BOOLEAN
<1>1. \A e \in Entity : budget[e].count \in Nat /\ budget[e].last \in Nat \cup {Never}
  BY DEF TInv, Cells, Cell
<1>2. scenario \in Scenario /\ mode \in DetectionMode
  BY DEF GInv, Accounts, Scenario, mode
<1>3. \A i \in Index : episodes[i].keyed \in BOOLEAN
  <2>1. \A x \in Episode : x.keyed \in BOOLEAN
    BY DEF Episode
  <2>2. QED
    BY <2>1, EpisodeFacts
<1>4. QED
  BY <1>1, <1>2, <1>3 DEF GInv, Accounts, Dated

(***************************************************************************)
(* A dispatch is one that the gates let through: what they read is what    *)
(* is committed, as long as one daemon answers.                            *)
(***************************************************************************)
LEMMA GatesLetThrough ==
  ASSUME IInv, TInv, GInv, NEW d \in Daemon, OnlyBy(d), NEW h \in Signal, Admitted(h)
  PROVE  budget[h.entity].count < MaxFires /\ Cool(h) /\ Fresh(h)
<1>1. Alone /\ h.entity \in Entity
  BY OneAnswers DEF Signal
<1>2. CanFire(budget[h.entity], now) /\ Admits(mode, seen, h)
  BY DEF Admitted
<1>3. ASSUME NEW i \in Committed(h.entity)
      PROVE  now - episodes[i].fired >= Cooldown
  <2>1. i \in Index /\ episodes[i].fired # Never /\ episodes[i].fired \in 0 .. now
    BY <1>3, GateFacts DEF Committed
  <2>2. episodes[i].fired <= budget[h.entity].last
    BY <1>1, <1>3 DEF GInv, Accounts, Burned
  <2>3. /\ now \in Nat /\ episodes[i].fired \in Nat /\ now >= episodes[i].fired
        /\ budget[h.entity].last \in Nat
    BY <1>1, <2>1, <2>2, EpisodeFacts, GateFacts DEF Never
  <2>4. CASE Cooldown = 0
    BY <2>3, <2>4
  <2>5. CASE Cooldown > 0
    <3>1. now - budget[h.entity].last >= Cooldown
      BY <1>2, <2>3, <2>5 DEF CanFire, Never
    <3>2. QED
      BY <2>2, <2>3, <3>1, AdmissionAssumption
  <2>6. QED
    BY <2>4, <2>5, AdmissionAssumption
<1>4. ASSUME NEW i \in Index, episodes[i].keyed
      PROVE  Differs(i, h, Len(episodes))
  <2>1. Noted(i)
    BY <1>1, <1>4 DEF GInv, Accounts, Unrepeated
  <2>2. CASE mode = "new_items"
    BY <1>2, <2>1, <2>2 DEF Noted, Admits, Differs
  <2>3. CASE mode = "diff"
    BY <1>2, <2>1, <2>3 DEF Noted, Admits, Differs
  <2>4. CASE mode = "state_change"
    BY <1>2, <2>1, <2>4 DEF Noted, Admits, Differs, Has
  <2>5. QED
    BY <2>2, <2>3, <2>4, GateFacts DEF DetectionMode
<1>5. QED
  BY <1>2, <1>3, <1>4 DEF CanFire, Cool, Fresh

LEMMA QuietPledges ==
  ASSUME IInv, TInv, GInv, NEW d \in Daemon,
         \/ Poll(d) \/ \E drift \in {<<>>} \cup {<<s>> : s \in Drifts} : Monitor(d, drift)
         \/ Drop(d) \/ Dispatch(d) \/ Raises(d) \/ ReadFire(d) \/ ReadKey(d)
         \/ EndTick(d) \/ Restart(d) \/ Crash(d)
  PROVE  GInv'
<1>1. /\ DOMAIN run[d] = DOMAIN Started
      /\ run[d].pc \in {"episode"} \cup Committing => run[d].batch # <<>>
      /\ run[d].batch # <<>> => Head1(d) \in Signal /\ Head1(d).entity \in Entity
  BY RunFacts
<1>2. Pledges(d, run[d]) /\ Accounts
  BY DEF GInv
<1>3. ASSUME NEW drift \in {<<>>} \cup {<<s>> : s \in Drifts}, Monitor(d, drift) PROVE GInv'
  <2>0. PICK b, n : b = run[d].copy \o drift /\ n = Len(run[d].copy \o drift)
    OBVIOUS
  <2>1. PICK r : r = [run[d] EXCEPT !.pc = "triage", !.copy = <<>>, !.batch = b,
                                    !.drift = drift, !.tally.seen = @ + n]
    OBVIOUS
  <2>2. run' = [run EXCEPT ![d].pc = "triage", ![d].copy = <<>>, ![d].batch = b,
                           ![d].drift = drift, ![d].tally.seen = @ + n]
    BY <1>3, <2>0 DEF Monitor
  <2>3. Turns(d, r)
    BY <2>1, <2>2, ZenonT(60) DEF Turns
  <2>4. r.pc = "triage"
    BY <1>1, <2>1, Fields
  <2>5. UNCHANGED <<scenario, episodes, store, now>>
    BY <1>3 DEF Monitor
  <2>6. Pledges(d, r)
    BY <2>4, NoPledge
  <2>7. QED
    BY <2>3, <2>5, <2>6, Keeps
<1>4. ASSUME NEW r, Turns(d, r), r.pc \in {"monitor", "polled", "triage", "off", "ended"},
             UNCHANGED <<scenario, episodes, store, now>>
      PROVE  GInv'
  BY <1>4, Keeps, NoPledge
<1>5. CASE Drop(d)
  <2>1. PICK r : r = [run[d] EXCEPT !.batch = Tail(@), !.tally.closed = @ + 1]
    OBVIOUS
  <2>2. Turns(d, r) /\ run[d].pc = "triage" /\ UNCHANGED <<scenario, episodes, store, now>>
    BY <1>5, <2>1 DEF Drop, Turns, At
  <2>3. r.pc = "triage"
    BY <1>1, <2>1, <2>2, Fields
  <2>4. QED
    BY <1>4, <2>2, <2>3
<1>6. CASE Raises(d)
  <2>1. PICK r : r = [run[d] EXCEPT !.pc = "triage", !.batch = Tail(@),
                                    !.tally.errors = @ + 1, !.tally.investigated = @ + 1]
    OBVIOUS
  <2>2. Turns(d, r) /\ UNCHANGED <<scenario, episodes, store, now>>
    BY <1>6, <2>1 DEF Raises, Turns
  <2>3. r.pc = "triage"
    BY <1>1, <2>1, <2>2, Fields
  <2>4. QED
    BY <1>4, <2>2, <2>3
<1>7. CASE EndTick(d)
  <2>1. PICK r : r = [run[d] EXCEPT !.pc = IF Why(d) = "" THEN "monitor" ELSE "ended",
                                    !.why = Why(d)]
    OBVIOUS
  <2>2. Turns(d, r) /\ UNCHANGED <<scenario, episodes, store, now>>
    BY <1>7, <2>1 DEF EndTick, Turns
  <2>3. r.pc \in {"monitor", "ended"}
    BY <1>1, <2>1, <2>2, Fields
  <2>4. QED
    BY <1>4, <2>2, <2>3
<1>8. CASE Restart(d)
  <2>1. Turns(d, Started) /\ UNCHANGED <<scenario, episodes, store, now>>
    BY <1>8 DEF Restart, Turns
  <2>2. Started.pc = "monitor"
    BY TallyAtStart
  <2>3. QED
    BY <1>4, <2>1, <2>2
<1>9. CASE Crash(d)
  <2>1. PICK r : r = [Started EXCEPT !.pc = "off"]
    OBVIOUS
  <2>2. Turns(d, r) /\ UNCHANGED <<scenario, episodes, store, now>>
    BY <1>9, <2>1 DEF Crash, Turns
  <2>3. r.pc = "off"
    BY <2>1, TallyAtStart
  <2>4. QED
    BY <1>4, <2>2, <2>3
<1>10. CASE Dispatch(d)
  <2>1. PICK r : r = [run[d] EXCEPT !.pc = "episode"]
    OBVIOUS
  <2>2. /\ Turns(d, r) /\ UNCHANGED <<scenario, episodes, store, now>>
        /\ run[d].batch # <<>> /\ Admitted(Head1(d))
    BY <1>10, <2>1 DEF Dispatch, Turns
  <2>3. r.pc = "episode" /\ r.batch = run[d].batch
    BY <1>1, <2>1, Fields
  <2>4. Head(r.batch) = Head1(d) /\ Head1(d) \in Signal
    BY <1>1, <2>2, <2>3 DEF Head1
  <2>5. Alive(d, r)
    BY <2>2, <2>3, <2>4, GatesLetThrough DEF Alive
  <2>6. Pledges(d, r)
    BY <2>3, <2>5 DEF Pledges, Owed, Read, Committing
  <2>7. QED
    BY <2>2, <2>6, Keeps
<1>11. CASE ReadFire(d)
  <2>1. PICK r : r = [run[d] EXCEPT !.pc = "put_fire", !.read = budget[Head1(d).entity]]
    OBVIOUS
  <2>2. Turns(d, r) /\ run[d].pc = "fire" /\ UNCHANGED <<scenario, episodes, store, now>>
    BY <1>11, <2>1 DEF ReadFire, Turns, At
  <2>3. /\ r.pc = "put_fire" /\ r.batch = run[d].batch /\ r.read = budget[Head1(d).entity]
        /\ Head(r.batch) = Head1(d) /\ Head1(d).entity \in Entity
    BY <1>1, <2>1, <2>2, Fields DEF Head1, Committing
  <2>4. Owed(d, r)
    BY <1>2, <2>2, <2>3 DEF Pledges, Owed, Committing
  <2>5. Read(r)
    BY <1>2, <2>3 DEF Read, Accounts, Burned
  <2>6. Alive(d, r)
    BY <1>2, <2>2, <2>3 DEF Pledges, Alive, Head1
  <2>7. QED
    BY <2>2, <2>4, <2>5, <2>6, Keeps DEF Pledges
<1>12. CASE ReadKey(d)
  <2>1. PICK r : r = [run[d] EXCEPT !.pc = "put_key", !.read = seen]
    OBVIOUS
  <2>2. Turns(d, r) /\ run[d].pc = "key" /\ UNCHANGED <<scenario, episodes, store, now>>
    BY <1>12, <2>1 DEF ReadKey, Turns, At
  <2>3. /\ r.pc = "put_key" /\ r.batch = run[d].batch /\ r.read = seen
    BY <1>1, <2>1, <2>2, Fields
  <2>4. Owed(d, r)
    BY <1>2, <2>2, <2>3 DEF Pledges, Owed, Committing
  <2>5. Read(r)
    BY <1>2, <2>3 DEF Read, Accounts, Unrepeated
  <2>6. Alive(d, r)
    BY <2>3 DEF Alive
  <2>7. QED
    BY <2>2, <2>4, <2>5, <2>6, Keeps DEF Pledges
<1>13. CASE Poll(d)
  <2>1. PICK r : r = [run[d] EXCEPT !.pc = "polled", !.ticks = @ + 1, !.copy = queue[d]]
    OBVIOUS
  <2>2. Turns(d, r) /\ UNCHANGED <<scenario, episodes, store, now>>
    BY <1>13, <2>1 DEF Poll, Turns
  <2>3. r.pc = "polled"
    BY <1>1, <2>1, Fields
  <2>4. QED
    BY <1>4, <2>2, <2>3
<1>14. QED
  BY <1>3, <1>5, <1>6, <1>7, <1>8, <1>9, <1>10, <1>11, <1>12, <1>13

(***************************************************************************)
(* An episode that ends is the latest of its daemon, and nobody answers    *)
(* alone but that daemon.                                                  *)
(***************************************************************************)
LEMMA CompletesAccounts ==
  ASSUME IInv, TInv, GInv, NEW d \in Daemon, NEW echoes \in BOOLEAN, Completes(d, echoes)
  PROVE  GInv'
<1>0. PICK n, h, x : /\ n = Len(episodes) /\ h = Head1(d)
                     /\ x = [entity |-> h.entity, state |-> h.state, own |-> h.own, by |-> d,
                             at |-> now, fired |-> Never, keyed |-> FALSE]
  OBVIOUS
<1>1. PICK r : r = [run[d] EXCEPT !.pc = "fire", !.tally.episodes = @ + 1,
                                  !.tally.investigated = @ + 1]
  OBVIOUS
<1>2. /\ Turns(d, r) /\ run[d].pc = "episode" /\ episodes' = Append(episodes, x)
      /\ UNCHANGED <<scenario, store, now>>
  BY <1>0, <1>1 DEF Completes, Turns, At
<1>3. /\ r.pc = "fire" /\ r.batch = run[d].batch
      /\ run[d].batch # <<>> /\ h \in Signal /\ h.entity \in Entity
  <2>1. /\ DOMAIN run[d] = DOMAIN Started
        /\ run[d].pc \in {"episode"} \cup Committing => run[d].batch # <<>>
        /\ run[d].batch # <<>> => Head1(d) \in Signal /\ Head1(d).entity \in Entity
    BY RunFacts
  <2>2. QED
    BY <1>0, <1>1, <1>2, <2>1, Fields
<1>4. /\ n \in Nat /\ Len(episodes') = n + 1 /\ episodes'[n + 1] = x
      /\ \A i \in Index : i \in 1 .. n /\ i \in Nat /\ episodes'[i] = episodes[i]
      /\ Index' = Index \cup {n + 1} /\ n + 1 \notin Index
  <2>1. episodes \in Seq(Episode) /\ n \in Nat
    BY <1>0, EpisodeFacts DEF IInv, Types
  <2>2. /\ Len(episodes') = n + 1 /\ episodes'[n + 1] = x
        /\ \A i \in 1 .. n : episodes'[i] = episodes[i]
    BY <1>0, <1>2, <2>1
  <2>3. QED
    BY <1>0, <2>1, <2>2 DEF Index
<1>5. /\ x.entity = h.entity /\ x.state = h.state /\ x.by = d /\ x.at = now
      /\ x.fired = Never /\ ~x.keyed
  BY <1>0
<1>7. \A e : Committed(e)' = Committed(e)
  BY <1>4, <1>5 DEF Committed
<1>8. Alone' => OnlyBy(d) /\ Alone
  <2>1. Alone' => \A i \in Index' : episodes'[i].by = d
    BY <1>4, <1>5 DEF Alone
  <2>2. QED
    BY <1>4, <2>1, OneAnswers DEF OnlyBy
<1>9. /\ Pledges(d, run[d]) /\ Head(run[d].batch) = h
      /\ OnlyBy(d) => budget[h.entity].count < MaxFires /\ Cool(h) /\ Fresh(h)
  BY <1>0, <1>2 DEF GInv, Pledges, Alive, Head1
<1>10. \A k : Ran(k) => Ran(k)'
  BY <1>2, <1>4 DEF Ran, KeyOf, mode
<1>11. ASSUME NEW i \in Index, NEW m \in Nat, m <= n
       PROVE  Succeeded(i, m)' <=> Succeeded(i, m)
  <2>1. \A j \in i + 1 .. m : j \in Index
    BY <1>0, <1>4, <1>11 DEF Index
  <2>2. QED
    BY <1>4, <1>11, <2>1 DEF Succeeded
<1>12. ASSUME NEW i \in Index, Succeeded(i, n)
       PROVE  Succeeded(i, n + 1)'
  <2>1. PICK m \in i + 1 .. n : episodes[m].keyed /\ episodes[m].entity = episodes[i].entity
    BY <1>12 DEF Succeeded
  <2>2. m \in Index /\ m \in i + 1 .. n + 1
    BY <1>0, <1>4, <2>1 DEF Index
  <2>3. QED
    BY <1>4, <1>12, <2>1, <2>2 DEF Succeeded
<1>13. Dated'
  BY <1>2, <1>4, <1>5 DEF GInv, Accounts, Dated
<1>14. Burned'
  <2>1. \A e : \A i \in Committed(e) : episodes'[i].fired = episodes[i].fired
    BY <1>4 DEF Committed
  <2>2. budget' = budget
    BY <1>2 DEF store
  <2>3. QED
    BY <1>7, <1>8, <2>1, <2>2 DEF GInv, Accounts, Burned
<1>15. Spaced'
  <2>1. SUFFICES ASSUME Alone', NEW e \in Entity, NEW i \in Committed(e), NEW j \in Index',
                        i < j, episodes'[j].entity = e
                 PROVE  episodes'[j].at - episodes'[i].fired >= Cooldown
    BY <1>7 DEF Spaced
  <2>2. i \in Index /\ episodes'[i] = episodes[i] /\ OnlyBy(d) /\ Alone
    BY <1>4, <1>8, <2>1 DEF Committed
  <2>3. CASE j = n + 1
    BY <1>4, <1>5, <1>9, <2>1, <2>2, <2>3 DEF Cool
  <2>4. CASE j \in Index
    BY <1>4, <2>1, <2>2, <2>4 DEF GInv, Accounts, Spaced
  <2>5. QED
    BY <1>4, <2>1, <2>3, <2>4
<1>16. Unrepeated'
  <2>1. \A k \in DOMAIN seen' : Ran(k)'
    BY <1>2, <1>10 DEF GInv, Accounts, Unrepeated, store
  <2>2. ASSUME Alone', NEW i \in Index', episodes'[i].keyed
        PROVE  Noted(i)' /\ \A j \in Index' : i < j => Differs(i, episodes[j], j - 1)'
    <3>1. i \in Index /\ episodes'[i] = episodes[i] /\ episodes[i].keyed /\ OnlyBy(d) /\ Alone
      BY <1>4, <1>5, <1>8, <2>2
    <3>2. Noted(i) /\ \A j \in Index : i < j => Differs(i, episodes[j], j - 1)
      BY <3>1 DEF GInv, Accounts, Unrepeated
    <3>3. Noted(i)'
      <4>1. Len(episodes') = n + 1 /\ Len(episodes) = n
        BY <1>0, <1>4
      <4>2. Succeeded(i, n) => Succeeded(i, n + 1)'
        BY <1>12, <3>1
      <4>3. scenario' = scenario /\ seen' = seen
        BY <1>2 DEF store
      <4>4. Succeeded(i, Len(episodes)) => Succeeded(i, Len(episodes))'
        BY <4>1, <4>2 DEF Succeeded
      <4>5. QED
        BY <3>1, <3>2, <4>3, <4>4 DEF Noted, mode
    <3>4. ASSUME NEW j \in Index, i < j
          PROVE  Differs(i, episodes[j], j - 1)'
      <4>1. j - 1 \in Nat /\ j - 1 <= n
        BY <1>4, <3>1, <3>4
      <4>2. Succeeded(i, j - 1)' <=> Succeeded(i, j - 1)
        BY <1>11, <3>1, <4>1
      <4>3. Differs(i, episodes[j], j - 1) /\ episodes'[j] = episodes[j] /\ scenario' = scenario
        BY <1>2, <1>4, <3>2, <3>4
      <4>4. QED
        BY <3>1, <4>2, <4>3 DEF Differs, mode
    <3>5. Differs(i, episodes[n + 1], n)'
      <4>1. Differs(i, h, n)
        BY <1>0, <1>9, <3>1 DEF Fresh
      <4>2. Succeeded(i, n)' <=> Succeeded(i, n)
        BY <1>4, <1>11, <3>1
      <4>3. episodes'[n + 1] = x /\ scenario' = scenario
        BY <1>2, <1>4
      <4>4. QED
        BY <1>5, <3>1, <4>1, <4>2, <4>3 DEF Differs, mode
    <3>6. QED
      BY <1>4, <3>3, <3>4, <3>5
  <2>3. QED
    BY <2>1, <2>2 DEF Unrepeated
<1>17. Accounts'
  BY <1>2, <1>13, <1>14, <1>15, <1>16 DEF GInv, Accounts
<1>18. /\ run'[d] = r
       /\ \A c \in Daemon : c # d => run'[c] = run[c]
  BY <1>2, TurnFacts DEF IInv
<1>19. Pledges(d, run[d])'
  <2>1. Latest(d, n + 1)'
    BY <1>4, <1>5 DEF Latest
  <2>2. Owed(d, run[d])'
    BY <1>3, <1>4, <1>5, <1>9, <1>18, <2>1 DEF Owed, Committing
  <2>3. OnlyBy(d)' => OnlyBy(d)
    BY <1>4 DEF OnlyBy
  <2>4. QED
    BY <1>2, <1>3, <1>9, <1>18, <2>2, <2>3 DEF Pledges, Read, Alive, store
<1>20. ASSUME NEW c \in Daemon, c # d PROVE Pledges(c, run[c])'
  <2>1. Pledges(c, run[c]) /\ run'[c] = run[c]
    BY <1>18, <1>20 DEF GInv
  <2>2. ~OnlyBy(c)'
    BY <1>4, <1>5, <1>20 DEF OnlyBy
  <2>3. \A i : Latest(c, i) => Latest(c, i)' /\ i \in Index
    <3>1. SUFFICES ASSUME NEW i, Latest(c, i) PROVE Latest(c, i)'
      BY DEF Latest
    <3>2. i \in Index /\ episodes[i].by = c
          /\ \A j \in i + 1 .. n : episodes[j].by # c
      BY <1>0, <3>1 DEF Latest
    <3>3. \A j \in i + 1 .. n + 1 : j = n + 1 \/ (j \in Index /\ j \in i + 1 .. n)
      <4>1. i \in 1 .. n /\ i \in Nat /\ n \in Nat
        BY <1>4, <3>2
      <4>2. ASSUME NEW j \in i + 1 .. n + 1, j # n + 1 PROVE j \in i + 1 .. n /\ j \in 1 .. n
        BY <4>1, <4>2
      <4>3. 1 .. n = Index
        BY <1>0 DEF Index
      <4>4. QED
        BY <4>2, <4>3
    <3>4. QED
      BY <1>4, <1>5, <1>20, <3>2, <3>3 DEF Latest
  <2>4. Owed(c, run[c])'
    BY <1>4, <2>1, <2>3 DEF Pledges, Owed
  <2>5. Read(run[c])'
    BY <1>7, <1>10, <2>1 DEF Pledges, Read
  <2>6. QED
    BY <2>2, <2>4, <2>5 DEF Pledges, Alive
<1>21. QED
  BY <1>17, <1>19, <1>20 DEF GInv

(***************************************************************************)
(* The commits write the history of the episode the daemon is at, which is *)
(* its latest; when it answers alone, that is the last one there is.       *)
(***************************************************************************)
LEMMA CommitsLatest ==
  ASSUME IInv, TInv, GInv, NEW d \in Daemon, run[d].pc \in {"put_fire", "put_key"}
  PROVE  \E k \in Index :
           /\ k = LastOf(d) /\ Latest(d, k) /\ episodes[k].by = d
           /\ episodes[k].entity = Head1(d).entity /\ episodes[k].state = Head1(d).state
           /\ run[d].pc = "put_fire" => episodes[k].fired = Never
           /\ Alone => OnlyBy(d) /\ \A j \in Index : ~(k < j)
<1>1. Owed(d, run[d]) /\ run[d].pc \in Committing
  BY DEF GInv, Pledges, Committing
<1>2. PICK k \in Index :
        /\ Latest(d, k)
        /\ episodes[k].entity = Head1(d).entity /\ episodes[k].state = Head1(d).state
        /\ run[d].pc = "put_fire" => episodes[k].fired = Never
  BY <1>1 DEF Owed, Head1
<1>3. k = LastOf(d) /\ episodes[k].by = d
  BY <1>2, LatestIsLast DEF Latest
<1>4. ASSUME OnlyBy(d), NEW j \in Index, k < j PROVE FALSE
  <2>1. j \in k + 1 .. Len(episodes)
    BY <1>4, EpisodeFacts DEF Index
  <2>2. QED
    BY <1>2, <1>4, <2>1 DEF Latest, OnlyBy
<1>5. Alone => OnlyBy(d)
  BY <1>3, OneAnswers
<1>6. QED
  BY <1>2, <1>3, <1>4, <1>5

(***************************************************************************)
(* What a commit leaves of the history: everything but one stamp of one    *)
(* episode.                                                                *)
(***************************************************************************)
Told(k) ==
  /\ Len(episodes') = Len(episodes)
  /\ \A i \in Index : /\ episodes'[i].entity = episodes[i].entity
                      /\ episodes'[i].state = episodes[i].state
                      /\ episodes'[i].by = episodes[i].by
                      /\ episodes'[i].at = episodes[i].at
                      /\ i # k => episodes'[i] = episodes[i]

LEMMA ToldFacts ==
  ASSUME NEW k, Told(k)
  PROVE  /\ Index' = Index
         /\ Alone' <=> Alone
         /\ \A c : OnlyBy(c)' <=> OnlyBy(c)
         /\ \A c, i : Latest(c, i)' <=> Latest(c, i)
<1>1. Index' = Index /\ Len(episodes') = Len(episodes)
  BY DEF Told, Index
<1>2. \A i \in Index : episodes'[i].by = episodes[i].by
  BY DEF Told
<1>3. Alone' <=> Alone
  BY <1>1, <1>2 DEF Alone
<1>4. \A c : OnlyBy(c)' <=> OnlyBy(c)
  BY <1>1, <1>2 DEF OnlyBy
<1>5. \A c, i : Latest(c, i)' <=> Latest(c, i)
  <2>1. ASSUME NEW c, NEW i PROVE Latest(c, i)' <=> Latest(c, i)
    <3>1. CASE i \notin Index
      BY <1>1, <3>1 DEF Latest
    <3>2. CASE i \in Index
      <4>1. \A j \in i + 1 .. Len(episodes) : j \in Index
        <5>1. i \in Int /\ i >= 1 /\ Len(episodes) \in Int
          BY <3>2 DEF Index
        <5>2. QED
          BY <5>1 DEF Index
      <4>2. QED
        BY <1>1, <1>2, <3>2, <4>1 DEF Latest
    <3>3. QED
      BY <3>1, <3>2
  <2>2. QED
    BY <2>1
<1>6. QED
  BY <1>1, <1>3, <1>4, <1>5

LEMMA StampTells ==
  ASSUME IInv, NEW k \in Index,
         \/ episodes' = [episodes EXCEPT ![k].fired = now]
         \/ episodes' = [episodes EXCEPT ![k].keyed = TRUE]
  PROVE  Told(k)
<1>1. episodes \in Seq(Episode) /\ DOMAIN episodes = Index
  BY DEF IInv, Types, Index
<1>2. Len(episodes') = Len(episodes)
  <2>1. PICK y : episodes' = [episodes EXCEPT ![k] = y]
    OBVIOUS
  <2>2. DOMAIN episodes' = DOMAIN episodes
    BY <2>1
  <2>3. episodes' \in Seq(Episode \cup {y})
    <3>1. episodes \in Seq(Episode \cup {y}) /\ y \in Episode \cup {y}
      BY <1>1
    <3>2. QED
      BY <1>1, <2>1, <3>1, ExceptSeq
  <2>4. QED
    BY <1>1, <2>2, <2>3
<1>3. ASSUME NEW i \in Index
      PROVE  /\ episodes'[i].entity = episodes[i].entity
             /\ episodes'[i].state = episodes[i].state
             /\ episodes'[i].by = episodes[i].by
             /\ episodes'[i].at = episodes[i].at
             /\ i # k => episodes'[i] = episodes[i]
  <2>1. episodes[i] \in Episode
    BY <1>3, EpisodeFacts
  <2>2. DOMAIN episodes[i] = {"entity", "state", "own", "by", "at", "fired", "keyed"}
    BY <2>1 DEF Episode
  <2>3. CASE i # k
    BY <1>1, <2>3
  <2>4. CASE i = k
    BY <1>1, <2>2, <2>4
  <2>5. QED
    BY <2>3, <2>4
<1>4. QED
  BY <1>2, <1>3 DEF Told

LEMMA PutFireAccounts ==
  ASSUME IInv, TInv, GInv, NEW d \in Daemon, PutFire(d)
  PROVE  GInv'
<1>1. PICK r, h, k : /\ r = [run[d] EXCEPT !.pc = "key", !.read = NoCell]
                     /\ h = Head1(d) /\ k = LastOf(d)
  OBVIOUS
<1>2. /\ Turns(d, r) /\ run[d].pc = "put_fire" /\ UNCHANGED <<scenario, seen, now>>
      /\ budget' = [budget EXCEPT ![h.entity] = Fired(run[d].read, now)]
      /\ episodes' = [episodes EXCEPT ![k].fired = now]
  BY <1>1 DEF PutFire, Turns, At
<1>3. /\ k \in Index /\ Latest(d, k) /\ episodes[k].by = d
      /\ episodes[k].entity = h.entity /\ episodes[k].state = h.state
      /\ episodes[k].fired = Never
      /\ Alone => OnlyBy(d) /\ \A j \in Index : ~(k < j)
  BY <1>1, <1>2, CommitsLatest
<1>4. /\ r.pc = "key" /\ r.batch = run[d].batch /\ Head(r.batch) = h /\ Head(run[d].batch) = h
      /\ h.entity \in Entity
  <2>1. /\ DOMAIN run[d] = DOMAIN Started
        /\ run[d].pc \in {"episode"} \cup Committing => run[d].batch # <<>>
        /\ run[d].batch # <<>> => Head1(d) \in Signal /\ Head1(d).entity \in Entity
    BY RunFacts
  <2>2. QED
    BY <1>1, <1>2, <2>1, Fields DEF Head1, Committing
<1>5. Told(k)
  BY <1>2, <1>3, StampTells
<1>6. /\ episodes'[k].fired = now /\ episodes'[k].keyed = episodes[k].keyed
      /\ episodes'[k].entity = h.entity
      /\ \A i \in Index : i # k => episodes'[i] = episodes[i]
      /\ \A i \in Index : /\ episodes'[i].entity = episodes[i].entity
                          /\ episodes'[i].state = episodes[i].state
                          /\ episodes'[i].at = episodes[i].at
                          /\ episodes'[i].keyed = episodes[i].keyed
  <2>1. episodes \in Seq(Episode) /\ DOMAIN episodes = Index
    BY DEF IInv, Types, Index
  <2>2. DOMAIN episodes[k] = {"entity", "state", "own", "by", "at", "fired", "keyed"}
    <3>1. episodes[k] \in Episode
      BY <1>3, EpisodeFacts
    <3>2. QED
      BY <3>1 DEF Episode
  <2>3. episodes'[k].fired = now /\ episodes'[k].keyed = episodes[k].keyed
    BY <1>2, <1>3, <2>1, <2>2
  <2>4. QED
    BY <1>3, <1>5, <2>3 DEF Told
<1>7. /\ Index' = Index
      /\ Alone' <=> Alone
      /\ \A c : OnlyBy(c)' <=> OnlyBy(c)
      /\ \A c, i : Latest(c, i)' <=> Latest(c, i)
  BY <1>5, ToldFacts
<1>8. now \in Nat /\ now # Never
  BY EpisodeFacts DEF Never
<1>9. /\ Committed(h.entity)' = Committed(h.entity) \cup {k} /\ k \notin Committed(h.entity)
      /\ \A e : e # h.entity => Committed(e)' = Committed(e)
  BY <1>3, <1>6, <1>7, <1>8 DEF Committed
<1>10. /\ Cardinality(Committed(h.entity))' = Cardinality(Committed(h.entity)) + 1
       /\ \A e : Cardinality(Committed(e)) \in Nat
       /\ \A e : e # h.entity => Cardinality(Committed(e))' = Cardinality(Committed(e))
  <2>1. Cardinality(Committed(h.entity) \cup {k}) = Cardinality(Committed(h.entity)) + 1
    BY <1>9, CommittedFinite, FS_AddElement
  <2>2. QED
    BY <1>9, <2>1, CommittedFinite
<1>11. /\ run[d].read.count \in Nat
       /\ run[d].read.count <= Cardinality(Committed(h.entity))
       /\ Alone => run[d].read = budget[h.entity] /\ budget[h.entity].count < MaxFires
  <2>1. run[d].read \in Cell
    BY <1>2 DEF TInv, Tallied, Shaped
  <2>2. Pledges(d, run[d])
    BY DEF GInv
  <2>3. run[d].read.count <= Cardinality(Committed(h.entity))
    BY <1>2, <1>4, <2>2 DEF Pledges, Read
  <2>4. Alone => run[d].read = budget[h.entity] /\ budget[h.entity].count < MaxFires
    BY <1>2, <1>3, <1>4, <2>2 DEF Pledges, Alive
  <2>5. QED
    BY <2>1, <2>3, <2>4 DEF Cell
<1>12. /\ budget'[h.entity].count = run[d].read.count + 1 /\ budget'[h.entity].last = now
       /\ \A e \in Entity : e # h.entity => budget'[e] = budget[e]
  <2>1. budget \in [Entity -> Cell]
    BY DEF TInv, Cells
  <2>2. QED
    BY <1>2, <1>4, <2>1 DEF Fired
<1>13. Dated'
  <2>1. now' = now /\ now \in 0 .. now
    BY <1>2, <1>8
  <2>2. QED
    BY <1>3, <1>6, <1>7, <2>1 DEF GInv, Accounts, Dated
<1>14. Burned'
  <2>1. ASSUME NEW e \in Entity, e # h.entity
        PROVE  /\ budget'[e].count <= Cardinality(Committed(e))'
               /\ Alone' => /\ budget'[e].count = Cardinality(Committed(e))'
                            /\ budget'[e].count <= MaxFires
                            /\ \A i \in Committed(e)' : episodes'[i].fired <= budget'[e].last
    <3>1. \A i \in Committed(e) : i # k /\ i \in Index
      BY <1>3, <2>1 DEF Committed
    <3>2. QED
      BY <1>6, <1>7, <1>9, <1>10, <1>12, <2>1, <3>1 DEF GInv, Accounts, Burned
  <2>2. budget'[h.entity].count <= Cardinality(Committed(h.entity))'
    BY <1>10, <1>11, <1>12
  <2>3. ASSUME Alone'
        PROVE  /\ budget'[h.entity].count = Cardinality(Committed(h.entity))'
               /\ budget'[h.entity].count <= MaxFires
               /\ \A i \in Committed(h.entity)' : episodes'[i].fired <= budget'[h.entity].last
    <3>1. run[d].read.count = Cardinality(Committed(h.entity)) /\ run[d].read.count < MaxFires
      BY <1>4, <1>7, <1>11, <2>3 DEF GInv, Accounts, Burned
    <3>2. \A i \in Committed(h.entity)' : episodes'[i].fired <= now
      <4>1. \A i \in Index' : episodes'[i].fired = Never \/ episodes'[i].fired \in 0 .. now
        BY <1>2, <1>13 DEF Dated
      <4>2. QED
        BY <1>8, <4>1 DEF Committed, Never
    <3>3. QED
      BY <1>10, <1>11, <1>12, <3>1, <3>2, AdmissionAssumption
  <2>4. QED
    BY <2>1, <2>2, <2>3 DEF Burned
<1>15. Spaced'
  <2>1. SUFFICES ASSUME Alone', NEW e \in Entity, NEW i \in Committed(e)', NEW j \in Index',
                        i < j, episodes'[j].entity = e
                 PROVE  episodes'[j].at - episodes'[i].fired >= Cooldown
    BY DEF Spaced
  <2>2. i # k /\ i \in Index /\ j \in Index /\ Alone
    BY <1>3, <1>7, <2>1 DEF Committed
  <2>3. i \in Committed(e) /\ episodes'[i] = episodes[i] /\ episodes'[j].at = episodes[j].at
        /\ episodes[j].entity = e
    BY <1>6, <1>9, <2>1, <2>2
  <2>4. QED
    BY <2>1, <2>2, <2>3 DEF GInv, Accounts, Spaced
<1>17. \A c : Ran(c) <=> Ran(c)'
  BY <1>2, <1>6, <1>7 DEF Ran, KeyOf, mode
<1>18. Unrepeated'
  <2>1. \A c \in DOMAIN seen' : Ran(c)'
    BY <1>2, <1>17 DEF GInv, Accounts, Unrepeated
  <2>2. ASSUME Alone', NEW i \in Index', episodes'[i].keyed
        PROVE  Noted(i)' /\ \A j \in Index' : i < j => Differs(i, episodes[j], j - 1)'
    <3>1. i \in Index /\ episodes[i].keyed /\ Alone
      BY <1>6, <1>7, <2>2
    <3>2. Noted(i) /\ \A j \in Index : i < j => Differs(i, episodes[j], j - 1)
      BY <3>1 DEF GInv, Accounts, Unrepeated
    <3>3. \A m : m <= Len(episodes) /\ m \in Int /\ Succeeded(i, m) => Succeeded(i, m)'
      <4>1. ASSUME NEW m \in Int, m <= Len(episodes), Succeeded(i, m) PROVE Succeeded(i, m)'
        <5>1. PICK q \in i + 1 .. m : episodes[q].keyed /\ episodes[q].entity = episodes[i].entity
          BY <4>1 DEF Succeeded
        <5>2. q \in Index
          BY <3>1, <4>1, EpisodeFacts DEF Index
        <5>3. QED
          BY <1>6, <3>1, <5>1, <5>2 DEF Succeeded
      <4>2. QED
        BY <4>1
    <3>4. Len(episodes') = Len(episodes) /\ Len(episodes) \in Int
      BY <1>5, EpisodeFacts DEF Told
    <3>5. Succeeded(i, Len(episodes)) => Succeeded(i, Len(episodes))'
      <4>1. PICK n : n = Len(episodes)
        OBVIOUS
      <4>2. Succeeded(i, n) => Succeeded(i, n)'
        BY <3>3, <3>4, <4>1
      <4>3. QED
        BY <3>4, <4>1, <4>2 DEF Succeeded
    <3>6. Noted(i)'
      BY <1>2, <1>6, <3>1, <3>2, <3>5 DEF Noted, mode
    <3>7. ASSUME NEW j \in Index, i < j PROVE Differs(i, episodes[j], j - 1)'
      <4>1. Succeeded(i, j - 1) => Succeeded(i, j - 1)'
        <5>1. j - 1 \in Int /\ j - 1 <= Len(episodes)
          BY <3>7, EpisodeFacts DEF Index
        <5>2. QED
          BY <3>3, <5>1
      <4>2. Differs(i, episodes[j], j - 1)
        BY <3>2, <3>7
      <4>3. QED
        BY <1>2, <1>6, <3>1, <3>7, <4>1, <4>2 DEF Differs, mode
    <3>8. QED
      BY <1>7, <3>6, <3>7
  <2>3. QED
    BY <2>1, <2>2 DEF Unrepeated
<1>19. Accounts'
  BY <1>2, <1>13, <1>14, <1>15, <1>18 DEF GInv, Accounts
<1>20. /\ run'[d] = r
       /\ \A c \in Daemon : c # d => run'[c] = run[c]
  BY <1>2, TurnFacts DEF IInv
<1>21. Pledges(d, run[d])'
  <2>1. Latest(d, k)' /\ k \in Index'
    BY <1>3, <1>7
  <2>2. Owed(d, run[d])'
    BY <1>3, <1>4, <1>6, <1>20, <2>1 DEF Owed
  <2>3. QED
    BY <1>4, <1>20, <2>2 DEF Pledges, Read, Alive
<1>22. ASSUME NEW c \in Daemon, c # d PROVE Pledges(c, run[c])'
  <2>1. Pledges(c, run[c]) /\ run'[c] = run[c]
    BY <1>20, <1>22 DEF GInv
  <2>2. ~OnlyBy(c)'
    BY <1>3, <1>7, <1>22 DEF OnlyBy
  <2>3. Owed(c, run[c])'
    <3>1. SUFFICES ASSUME run[c].pc \in Committing
                   PROVE  \E i \in Index' :
                            /\ Latest(c, i)'
                            /\ episodes'[i].entity = Head(run[c].batch).entity
                            /\ episodes'[i].state = Head(run[c].batch).state
                            /\ run[c].pc \in {"fire", "put_fire"} => episodes'[i].fired = Never
      BY <2>1 DEF Owed
    <3>2. PICK i \in Index :
            /\ Latest(c, i)
            /\ episodes[i].entity = Head(run[c].batch).entity
            /\ episodes[i].state = Head(run[c].batch).state
            /\ run[c].pc \in {"fire", "put_fire"} => episodes[i].fired = Never
      BY <2>1, <3>1 DEF Pledges, Owed
    <3>3. i # k
      BY <1>3, <1>22, <3>2 DEF Latest
    <3>4. QED
      BY <1>6, <1>7, <3>2, <3>3
  <2>4. Read(run[c])'
    <3>1. \A e : Cardinality(Committed(e)) <= Cardinality(Committed(e))'
      BY <1>10
    <3>2. ASSUME run[c].pc = "put_fire"
          PROVE  run[c].read.count <= Cardinality(Committed(Head(run[c].batch).entity))'
      <4>1. run[c].read.count \in Nat
        BY <3>2 DEF TInv, Tallied, Shaped, Cell
      <4>2. run[c].read.count <= Cardinality(Committed(Head(run[c].batch).entity))
        BY <2>1, <3>2 DEF Pledges, Read
      <4>3. PICK e : e = Head(run[c].batch).entity
        OBVIOUS
      <4>4. run[c].read.count <= Cardinality(Committed(e))'
        BY <1>10, <4>1, <4>2, <4>3
      <4>5. QED
        BY <2>1, <4>3, <4>4
    <3>3. QED
      BY <1>17, <2>1, <3>2 DEF Pledges, Read
  <2>5. QED
    BY <2>2, <2>3, <2>4 DEF Pledges, Alive
<1>23. QED
  BY <1>19, <1>21, <1>22 DEF GInv

(***************************************************************************)
(* The key.  The map gains the key of the episode that ran, which is then  *)
(* noted; a note of an earlier episode that is overwritten is succeeded.   *)
(***************************************************************************)
LEMMA PutKeyAccounts ==
  ASSUME IInv, TInv, GInv, NEW d \in Daemon, PutKey(d)
  PROVE  GInv'
<1>1. PICK r, h, k : /\ r = [run[d] EXCEPT !.pc = "triage", !.batch = Tail(@), !.read = NoCell]
                     /\ h = Head1(d) /\ k = LastOf(d)
  OBVIOUS
<1>2. /\ Turns(d, r) /\ run[d].pc = "put_key" /\ UNCHANGED <<scenario, budget, now>>
      /\ seen' = Folded(mode, run[d].read, h)
      /\ episodes' = [episodes EXCEPT ![k].keyed = TRUE]
  BY <1>1 DEF PutKey, Turns, At
<1>3. /\ k \in Index /\ Latest(d, k) /\ episodes[k].by = d
      /\ episodes[k].entity = h.entity /\ episodes[k].state = h.state
      /\ Alone => OnlyBy(d) /\ \A j \in Index : ~(k < j)
  BY <1>1, <1>2, CommitsLatest
<1>4. r.pc = "triage"
  <2>1. DOMAIN run[d] = DOMAIN Started
    BY RunFacts
  <2>2. QED
    BY <1>1, <2>1, Fields
<1>5. Told(k)
  BY <1>2, <1>3, StampTells
<1>6. /\ episodes'[k].keyed
      /\ \A i \in Index : i # k => episodes'[i] = episodes[i]
      /\ \A i \in Index : /\ episodes'[i].entity = episodes[i].entity
                          /\ episodes'[i].state = episodes[i].state
                          /\ episodes'[i].at = episodes[i].at
                          /\ episodes'[i].fired = episodes[i].fired
                          /\ episodes[i].keyed => episodes'[i].keyed
  <2>1. episodes \in Seq(Episode) /\ DOMAIN episodes = Index
    BY DEF IInv, Types, Index
  <2>2. DOMAIN episodes[k] = {"entity", "state", "own", "by", "at", "fired", "keyed"}
    <3>1. episodes[k] \in Episode
      BY <1>3, EpisodeFacts
    <3>2. QED
      BY <3>1 DEF Episode
  <2>3. episodes'[k].keyed /\ episodes'[k].fired = episodes[k].fired
    BY <1>2, <1>3, <2>1, <2>2
  <2>4. QED
    BY <1>3, <1>5, <2>3 DEF Told
<1>7. /\ Index' = Index
      /\ Alone' <=> Alone
      /\ \A c : OnlyBy(c)' <=> OnlyBy(c)
      /\ \A c, i : Latest(c, i)' <=> Latest(c, i)
  BY <1>5, ToldFacts
<1>8. \A e : Committed(e)' = Committed(e)
  BY <1>6, <1>7 DEF Committed
<1>9. Dated' /\ Spaced'
  <2>1. Dated'
    BY <1>2, <1>6, <1>7 DEF GInv, Accounts, Dated
  <2>2. \A e : \A i \in Committed(e) : i \in Index
    BY DEF Committed
  <2>3. Spaced'
    BY <1>6, <1>7, <1>8, <2>2 DEF GInv, Accounts, Spaced
  <2>4. QED
    BY <2>1, <2>3
<1>10. Burned'
  <2>1. \A e : \A i \in Committed(e) : episodes'[i].fired = episodes[i].fired
    BY <1>6 DEF Committed
  <2>2. QED
    BY <1>2, <1>7, <1>8, <2>1 DEF GInv, Accounts, Burned
<1>11. /\ mode = "diff" => DOMAIN seen' = DOMAIN run[d].read \cup {h.state}
       /\ mode # "diff" => DOMAIN seen' = DOMAIN run[d].read \cup {h.entity}
       /\ mode = "state_change" =>
            /\ seen'[h.entity] = h.state
            /\ \A e \in DOMAIN run[d].read : e # h.entity => seen'[e] = run[d].read[e]
  <2>1. CASE mode = "diff"
    BY <1>2, <2>1 DEF Folded, Put
  <2>2. CASE mode # "diff"
    <3>1. PICK v : /\ seen' = Put(run[d].read, h.entity, v)
                   /\ mode = "state_change" => v = h.state
      BY <1>2, <2>2 DEF Folded
    <3>2. PICK q : q = run[d].read
      OBVIOUS
    <3>3. seen' = [c \in DOMAIN q \cup {h.entity} |-> IF c = h.entity THEN v ELSE q[c]]
      BY <3>1, <3>2 DEF Put
    <3>4. /\ DOMAIN seen' = DOMAIN q \cup {h.entity} /\ seen'[h.entity] = v
          /\ \A e \in DOMAIN q : e # h.entity => seen'[e] = q[e]
      BY <3>3
    <3>5. QED
      BY <2>2, <3>1, <3>2, <3>4
  <2>3. QED
    BY <2>1, <2>2
<1>12. \A c : Ran(c) <=> Ran(c)'
  BY <1>2, <1>6, <1>7 DEF Ran, KeyOf, mode
<1>13. /\ Pledges(d, run[d])
       /\ \A c \in DOMAIN run[d].read : Ran(c)
       /\ Alone => run[d].read = seen
  BY <1>2, <1>3 DEF GInv, Pledges, Read, Alive
<1>14. \A c \in DOMAIN seen' : Ran(c)'
  <2>1. (mode = "diff" => Ran(h.state)) /\ (mode # "diff" => Ran(h.entity))
    BY <1>3 DEF Ran, KeyOf
  <2>2. QED
    BY <1>11, <1>12, <1>13, <2>1
<1>15. Len(episodes') = Len(episodes) /\ Len(episodes) \in Nat
  BY <1>5, EpisodeFacts DEF Told
<1>16. ASSUME NEW i \in Index, NEW m \in Int, m <= Len(episodes), Succeeded(i, m)
       PROVE  Succeeded(i, m)'
  <2>1. PICK q \in i + 1 .. m : episodes[q].keyed /\ episodes[q].entity = episodes[i].entity
    BY <1>16 DEF Succeeded
  <2>2. q \in Index
    BY <1>16, EpisodeFacts DEF Index
  <2>3. QED
    BY <1>6, <1>16, <2>1, <2>2 DEF Succeeded
<1>17. ASSUME Alone', NEW i \in Index', episodes'[i].keyed
       PROVE  Noted(i)' /\ \A j \in Index' : i < j => Differs(i, episodes[j], j - 1)'
  <2>1. /\ i \in Index /\ Alone /\ run[d].read = seen
        /\ \A j \in Index : ~(k < j)
    BY <1>3, <1>7, <1>13, <1>17
  <2>2. PICK n : n = Len(episodes)
    OBVIOUS
  <2>3. Noted(i)' <=>
          \/ mode = "new_items" /\ episodes[i].entity \in DOMAIN seen'
          \/ mode = "diff" /\ episodes[i].state \in DOMAIN seen'
          \/ mode = "state_change" /\
               \/ Succeeded(i, n)'
               \/ Has(seen', episodes[i].entity, episodes[i].state)
    BY <1>2, <1>6, <1>15, <2>1, <2>2 DEF Noted, Succeeded, mode
  <2>4. CASE i = k
    <3>1. Noted(i)'
      <4>1. CASE mode = "new_items"
        BY <1>3, <1>11, <2>3, <2>4, <4>1
      <4>2. CASE mode = "diff"
        BY <1>3, <1>11, <2>3, <2>4, <4>2
      <4>3. CASE mode = "state_change"
        BY <1>3, <1>11, <2>3, <2>4, <4>3 DEF Has
      <4>4. QED
        BY <4>1, <4>2, <4>3, GateFacts DEF DetectionMode
    <3>2. QED
      BY <1>7, <2>1, <2>4, <3>1
  <2>5. CASE i # k
    <3>1. episodes'[i] = episodes[i] /\ episodes[i].keyed
      BY <1>6, <1>17, <2>1, <2>5
    <3>2. Noted(i) /\ \A j \in Index : i < j => Differs(i, episodes[j], j - 1)
      BY <2>1, <3>1 DEF GInv, Accounts, Unrepeated
    <3>3. Noted(i)'
      <4>1. CASE mode = "new_items"
        BY <1>11, <2>1, <2>3, <3>2, <4>1 DEF Noted
      <4>2. CASE mode = "diff"
        BY <1>11, <2>1, <2>3, <3>2, <4>2 DEF Noted
      <4>3. CASE mode = "state_change" /\ Succeeded(i, n)
        <5>1. n \in Int /\ n <= Len(episodes)
          BY <1>15, <2>2
        <5>2. Succeeded(i, n)'
          BY <1>16, <2>1, <4>3, <5>1
        <5>3. QED
          BY <2>3, <4>3, <5>2
      <4>4. CASE mode = "state_change" /\ ~Succeeded(i, n)
        <5>1. Has(seen, episodes[i].entity, episodes[i].state)
          BY <2>2, <3>2, <4>4 DEF Noted
        <5>2. CASE episodes[i].entity = h.entity
          <6>1. k \in i + 1 .. n
            <7>1. i \in Nat /\ k \in Nat /\ n \in Nat /\ k <= n /\ i <= n
              BY <1>3, <1>15, <2>1, <2>2 DEF Index
            <7>2. ~(k < i)
              BY <2>1
            <7>3. QED
              BY <2>5, <7>1, <7>2
          <6>2. Succeeded(i, n)'
            BY <1>3, <1>6, <2>1, <5>2, <6>1 DEF Succeeded
          <6>3. QED
            BY <2>3, <4>4, <6>2
        <5>3. CASE episodes[i].entity # h.entity
          BY <1>11, <2>1, <2>3, <4>4, <5>1, <5>3 DEF Has
        <5>4. QED
          BY <5>2, <5>3
      <4>5. QED
        BY <4>1, <4>2, <4>3, <4>4, GateFacts DEF DetectionMode
    <3>4. ASSUME NEW j \in Index, i < j PROVE Differs(i, episodes[j], j - 1)'
      <4>1. Succeeded(i, j - 1) => Succeeded(i, j - 1)'
        <5>1. j - 1 \in Int /\ j - 1 <= Len(episodes)
          BY <3>4, EpisodeFacts DEF Index
        <5>2. QED
          BY <1>16, <2>1, <5>1
      <4>2. Differs(i, episodes[j], j - 1)
        BY <3>2, <3>4
      <4>3. QED
        BY <1>2, <1>6, <2>1, <3>4, <4>1, <4>2 DEF Differs, mode
    <3>5. QED
      BY <1>7, <3>3, <3>4
  <2>6. QED
    BY <2>4, <2>5
<1>18. Accounts'
  BY <1>2, <1>9, <1>10, <1>14, <1>17 DEF GInv, Accounts, Unrepeated
<1>19. /\ run'[d] = r
       /\ \A c \in Daemon : c # d => run'[c] = run[c]
  BY <1>2, TurnFacts DEF IInv
<1>20. Pledges(d, run[d])'
  BY <1>4, <1>19 DEF Pledges, Owed, Read, Alive, Committing
<1>21. ASSUME NEW c \in Daemon, c # d PROVE Pledges(c, run[c])'
  <2>1. Pledges(c, run[c]) /\ run'[c] = run[c]
    BY <1>19, <1>21 DEF GInv
  <2>2. ~OnlyBy(c)'
    BY <1>3, <1>7, <1>21 DEF OnlyBy
  <2>3. Owed(c, run[c])'
    BY <1>6, <1>7, <2>1 DEF Pledges, Owed
  <2>4. Read(run[c])'
    BY <1>8, <1>12, <2>1 DEF Pledges, Read
  <2>5. QED
    BY <2>2, <2>3, <2>4 DEF Pledges, Alive
<1>22. QED
  BY <1>18, <1>20, <1>21 DEF GInv

LEMMA ClockAccounts ==
  ASSUME IInv, TInv, GInv, Clock
  PROVE  GInv'
<1>1. now' = now + 1 /\ now \in Nat /\ UNCHANGED <<scenario, run, store, episodes>>
  BY EpisodeFacts DEF Clock
<1>2. Dated'
  <2>1. 0 .. now \subseteq 0 .. now'
    BY <1>1
  <2>2. QED
    BY <1>1, <2>1 DEF GInv, Accounts, Dated, Index
<1>3. Spaced'
  BY <1>1 DEF GInv, Accounts, Spaced, Alone, Committed, Index
<1>4. Burned'
  BY <1>1 DEF GInv, Accounts, Burned, Alone, Committed, Index, store
<1>5. Unrepeated'
  <2>1. UNCHANGED <<episodes, seen, scenario>>
    BY <1>1 DEF store
  <2>2. Unrepeated
    BY DEF GInv, Accounts
  <2>3. QED
    BY <2>1, <2>2
       DEF Unrepeated, Alone, Index, Ran, KeyOf, Noted, Differs, Succeeded, mode
<1>6. ASSUME NEW d \in Daemon PROVE Pledges(d, run[d])'
  <2>1. PICK r : r = run[d]
    OBVIOUS
  <2>2. Pledges(d, r)
    BY <2>1 DEF GInv
  <2>3. Owed(d, r)'
    BY <1>1, <2>2 DEF Pledges, Owed, Latest, Index
  <2>4. Read(r)'
    BY <1>1, <2>2 DEF Pledges, Read, Committed, Ran, KeyOf, mode, Index
  <2>5. \A x : Cool(x) => Cool(x)'
    <3>1. SUFFICES ASSUME NEW x, Cool(x) PROVE Cool(x)'
      OBVIOUS
    <3>2. ASSUME NEW i \in Committed(x.entity)
          PROVE  now + 1 - episodes[i].fired >= Cooldown
      <4>1. episodes[i].fired \in Int /\ now - episodes[i].fired >= Cooldown
        BY <3>1, <3>2, EpisodeFacts DEF Committed, Cool
      <4>2. QED
        BY <1>1, <4>1, AdmissionAssumption
    <3>3. Committed(x.entity)' = Committed(x.entity)
      BY <1>1 DEF Committed, Index
    <3>4. \A i \in Committed(x.entity)' : now' - episodes'[i].fired >= Cooldown
      <4>1. episodes' = episodes /\ now' = now + 1
        BY <1>1
      <4>2. ASSUME NEW i \in Committed(x.entity)' PROVE now' - episodes'[i].fired >= Cooldown
        <5>1. i \in Committed(x.entity)
          BY <3>3, <4>2
        <5>2. now + 1 - episodes[i].fired >= Cooldown
          BY <3>2, <5>1
        <5>3. now \in Nat /\ episodes[i].fired \in Int
          BY <5>1, EpisodeFacts DEF Committed
        <5>4. QED
          BY <4>1, <5>2, <5>3
      <4>3. QED
        BY <4>2
    <3>5. QED
      BY <3>4 DEF Cool
  <2>6. \A x : Fresh(x) => Fresh(x)'
    BY <1>1 DEF Fresh, Index, Differs, Succeeded, mode
  <2>7. Alive(d, r)'
    BY <1>1, <2>2, <2>5, <2>6 DEF Pledges, Alive, OnlyBy, Index, store
  <2>8. QED
    BY <1>1, <2>1, <2>3, <2>4, <2>7 DEF Pledges, Owed, Read, Alive
<1>7. QED
  BY <1>1, <1>2, <1>3, <1>4, <1>5, <1>6 DEF GInv, Accounts

LEMMA NextGInv == IInv /\ TInv /\ GInv /\ [Next]_vars => GInv'
<1>1. SUFFICES ASSUME IInv, TInv, GInv, [Next]_vars PROVE GInv'
  OBVIOUS
<1>2. ASSUME NEW d \in Daemon, Step(d) \/ Crash(d) PROVE GInv'
  BY <1>1, <1>2, QuietPledges, CompletesAccounts, PutFireAccounts, PutKeyAccounts DEF Step
<1>3. ASSUME UNCHANGED <<scenario, run, episodes, store, now>> PROVE GInv'
  <2>1. Accounts'
    BY <1>1, <1>3, AccountsStay DEF GInv
  <2>2. ASSUME NEW d \in Daemon PROVE Pledges(d, run[d])'
    <3>1. PICK r : r = run[d]
      OBVIOUS
    <3>2. Pledges(d, r)'
      BY <1>1, <1>3, <3>1, PledgeStays DEF GInv
    <3>3. QED
      BY <1>3, <3>1, <3>2 DEF Pledges, Owed, Read, Alive
  <2>3. QED
    BY <2>1, <2>2 DEF GInv
<1>4. ASSUME NEW d \in Daemon, Close(d) \/ \E s \in Tickets : Enqueue(d, s) PROVE GInv'
  BY <1>3, <1>4 DEF Close, Enqueue
<1>5. CASE Sweep
  BY <1>3, <1>5 DEF Sweep
<1>6. CASE Clock
  BY <1>1, <1>6, ClockAccounts
<1>7. CASE UNCHANGED vars
  BY <1>3, <1>7 DEF vars
<1>8. QED
  BY <1>1, <1>2, <1>4, <1>5, <1>6, <1>7 DEF Next

(***************************************************************************)
(* The store's two accounts answer for the episodes that ran, whatever     *)
(* crashes and however the daemons interleave (FireBudgetGate and the      *)
(* detection modes of admit/commit in governor/ktlo.py).                   *)
(***************************************************************************)
THEOREM GatesAnswer == Spec => []GatesAnswerForEpisodes
<1>1. ASSUME IInv, TInv, GInv PROVE BudgetIsEarned
  <2>1. ASSUME NEW e \in Entity
        PROVE  LET mine == {i \in Index : episodes[i].entity = e} IN
               /\ budget[e].count <= Cardinality(Committed(e))
               /\ Alone =>
                    /\ budget[e].count = Cardinality(Committed(e))
                    /\ Cardinality(mine) <= MaxFires + Cardinality(Lost(e))
                    /\ \A i, j \in mine : i < j /\ episodes[i].fired # Never
                                            => episodes[j].at - episodes[i].fired >= Cooldown
    <3>1. PICK mine : mine = {i \in Index : episodes[i].entity = e}
      OBVIOUS
    <3>2. mine = Committed(e) \cup Lost(e) /\ Committed(e) \cap Lost(e) = {}
      BY <3>1 DEF Committed, Lost
    <3>3. IsFiniteSet(Committed(e)) /\ IsFiniteSet(Lost(e))
      BY <1>1, CommittedFinite
    <3>4. Cardinality(mine) = Cardinality(Committed(e)) + Cardinality(Lost(e))
      <4>1. Cardinality({}) = 0
        BY FS_EmptySet
      <4>2. Cardinality(Committed(e)) \in Nat /\ Cardinality(Lost(e)) \in Nat
        BY <3>3, FS_CardinalityType
      <4>3. Cardinality(Committed(e) \cup Lost(e)) =
              Cardinality(Committed(e)) + Cardinality(Lost(e)) - Cardinality({})
        BY <3>2, <3>3, FS_Union
      <4>4. QED
        BY <3>2, <4>1, <4>2, <4>3
    <3>5. /\ budget[e].count <= Cardinality(Committed(e))
          /\ Alone => /\ budget[e].count = Cardinality(Committed(e))
                      /\ budget[e].count <= MaxFires
      BY <1>1, <2>1 DEF GInv, Accounts, Burned
    <3>6. Alone => Cardinality(mine) <= MaxFires + Cardinality(Lost(e))
      <4>1. Cardinality(Committed(e)) \in Nat /\ Cardinality(Lost(e)) \in Nat
        BY <3>3, FS_CardinalityType
      <4>2. QED
        BY <3>4, <3>5, <4>1, AdmissionAssumption
    <3>7. Alone => \A i, j \in mine : i < j /\ episodes[i].fired # Never
                                        => episodes[j].at - episodes[i].fired >= Cooldown
      BY <1>1, <3>1 DEF GInv, Accounts, Spaced, Committed
    <3>8. QED
      BY <3>1, <3>5, <3>6, <3>7
  <2>2. QED
    BY <2>1 DEF BudgetIsEarned
<1>2. ASSUME IInv, TInv, GInv PROVE NoEpisodeRepeats
  <2>1. \A k \in DOMAIN seen : \E i \in Index :
           k = IF mode = "diff" THEN episodes[i].state ELSE episodes[i].entity
    BY <1>2 DEF GInv, Accounts, Unrepeated, Ran, KeyOf
  <2>2. ASSUME Alone, NEW i \in Index, NEW j \in Index, i < j, episodes[i].keyed
        PROVE  Differs(i, episodes[j], j - 1)
    BY <1>2, <2>2 DEF GInv, Accounts, Unrepeated
  <2>3. QED
    BY <2>1, <2>2, Zenon DEF NoEpisodeRepeats, Differs, Succeeded
<1>3. IInv /\ TInv /\ GInv => GatesAnswerForEpisodes
  BY <1>1, <1>2 DEF GatesAnswerForEpisodes
<1>4. Init => IInv /\ TInv /\ GInv
  BY InitIInv, InitTInv, InitGInv
<1>5. IInv /\ TInv /\ GInv /\ [Next]_vars => IInv' /\ TInv' /\ GInv'
  BY NextIInv, NextTInv, NextGInv
<1>6. QED
  BY <1>3, <1>4, <1>5, PTL DEF Spec
=============================================================================
