------------------------- MODULE TransferQueueProofs -------------------------
(* Proofs about TransferQueue, for every number of tasks, every limit and     *)
(* every directory.                                                           *)
EXTENDS TransferQueue, FiniteSetTheorems, SequenceTheorems, NaturalsInduction,
        WellFoundedInduction, TLAPS

(* The worlds the steps go through. *)
Worlds ==
    [tasks : Seq(Entry), entries : SUBSET Nat, expandQueue : Seq(Nat),
     slots : [Slots -> Activity]]

(* The references between tasks, and between tasks and slots, fit together. *)
Linked(w) ==
    /\ w.entries \subseteq DOMAIN w.tasks
    /\ \A t \in DOMAIN w.tasks :
        /\ w.tasks[t].children \subseteq t + 1 .. Len(w.tasks)
        /\ w.tasks[t].parent < t
        /\ w.tasks[t].childTotal = Cardinality(w.tasks[t].children)
        /\ w.tasks[t].handle # 0 =>
            /\ w.slots[w.tasks[t].handle].stage = "work"
            /\ w.slots[w.tasks[t].handle].task = t
    /\ \A t \in w.entries : \A c \in w.tasks[t].children : w.tasks[c].parent = t
    /\ \A i \in DOMAIN w.expandQueue : w.expandQueue[i] \in DOMAIN w.tasks
    /\ \A a \in Slots : w.slots[a].stage # "free" => w.slots[a].task \in DOMAIN w.tasks

(* No limit is exceeded. *)
Limited(w) ==
    /\ Cardinality(Running(w)) <= GlobalLimit
    /\ Cardinality(Expanding(w)) <= ExpandLimit
    /\ \A s \in Sessions : Cardinality(RunningBySession(w, s)) <= SessionLimit

Good == {w \in Worlds : Linked(w) /\ Limited(w)}

Waits(w, t) == t \in w.entries /\ w.tasks[t].state = "queued"

(* A classified task that waits is held back by a limit. *)
Held(w, t) ==
    Waits(w, t) /\ w.tasks[t].classified =>
        \/ Cardinality(Running(w)) >= GlobalLimit
        \/ Cardinality(RunningBySession(w, w.tasks[t].session)) >= SessionLimit

(* One that is not classified is about to be, or in the queue for it. *)
Noticed(w, t) ==
    Waits(w, t) /\ ~w.tasks[t].classified =>
        \/ \E a \in Slots : w.slots[a].task = t /\ w.slots[a].stage = "lstat"
        \/ \E i \in DOMAIN w.expandQueue : w.expandQueue[i] = t

(* The queue for classification is held back by the limit only. *)
Full(w) == w.expandQueue = <<>> \/ Cardinality(Expanding(w)) >= ExpandLimit

AllHeld(w) == \A t \in DOMAIN w.tasks : Held(w, t)
AllNoticed(w) == \A t \in DOMAIN w.tasks : Noticed(w, t)

QueueInv ==
    /\ World \in Good
    /\ AllHeld(World)
    /\ AllNoticed(World)
    /\ Full(World)
    /\ open \subseteq Sessions

------------------------------------------------------------------------------
(* Loops                                                                      *)

LEMMA LimitsAreNumbers ==
    /\ GlobalLimit \in Nat /\ SessionLimit \in Nat /\ ExpandLimit \in Nat
    /\ GlobalLimit > 0 /\ SessionLimit > 0 /\ ExpandLimit > 0
    /\ MaxTasks \in Nat /\ MaxChildren \in Nat
BY QueueAssumption DEF QueueAssumption

(* Numbers have a least one. *)
LEMMA Least ==
    ASSUME NEW S, S \subseteq Nat, S # {}
    PROVE  \E m \in S : \A n \in S : m <= n
<1> DEFINE R == OpToRel(<, Nat)
<1>1. IsWellFoundedOn(R, Nat)
  BY NatLessThanWellFounded
<1>2. PICK m \in S : \A n \in S : <<n, m>> \notin R
  BY <1>1, WFMin
<1>3. \A n \in S : ~(n < m)
  BY <1>2 DEF OpToRel
<1> QED  BY <1>3

(* What is in a set of numbers at the first and goes from each to the next is in it. *)
LEMMA Steps ==
    ASSUME NEW N \in Nat, NEW S, 0 \in S,
           \A n \in 1 .. N : n - 1 \in S => n \in S
    PROVE  \A n \in 0 .. N : n \in S
<1> SUFFICES ASSUME (0 .. N) \ S # {} PROVE FALSE
  OBVIOUS
<1>1. PICK m \in (0 .. N) \ S : \A n \in (0 .. N) \ S : m <= n
  <2>1. (0 .. N) \ S \subseteq Nat
    OBVIOUS
  <2> QED  BY <2>1, Least
<1>2. m \in 1 .. N /\ m - 1 \in 0 .. N /\ m - 1 \in S
  BY <1>1
<1> QED  BY <1>2

LEMMA EachUnfolds ==
    ASSUME NEW w, NEW seq, Len(seq) \in Nat, NEW loop
    PROVE  \E f : /\ f[0] = w
                  /\ \A n \in 1 .. Len(seq) : f[n] = Body(f[n - 1], seq[n], loop)
                  /\ Each(w, seq, loop) = f[Len(seq)]
<1> DEFINE AsFar(f, m) ==
             f = [n \in 0 .. m |-> IF n = 0 THEN w ELSE Body(f[n - 1], seq[n], loop)]
           Far == {m \in 0 .. Len(seq) : \E f : AsFar(f, m)}
<1>1. 0 \in Far
  <2>1. AsFar([n \in 0 .. 0 |-> w], 0)
    OBVIOUS
  <2>2. \E f : AsFar(f, 0)
    BY <2>1
  <2> HIDE DEF AsFar
  <2> QED  BY <2>2
<1>2. ASSUME NEW m \in 1 .. Len(seq), m - 1 \in Far PROVE m \in Far
  <2>1. PICK f : AsFar(f, m - 1)
    BY <1>2
  <2>2. AsFar([n \in 0 .. m |-> IF n = m THEN Body(f[m - 1], seq[m], loop) ELSE f[n]], m)
    <3> DEFINE g == [n \in 0 .. m |-> IF n = m THEN Body(f[m - 1], seq[m], loop) ELSE f[n]]
    <3>1. ASSUME NEW n \in 0 .. m
          PROVE  g[n] = IF n = 0 THEN w ELSE Body(g[n - 1], seq[n], loop)
      <4>1. CASE n = m
        BY <4>1
      <4>2. CASE n # m
        <5>1. n \in 0 .. m - 1 /\ (n # 0 => n - 1 \in 0 .. m)
          BY <4>2
        <5>2. g[n] = f[n] /\ (n # 0 => g[n - 1] = f[n - 1])
          BY <4>2, <5>1
        <5>3. f[n] = IF n = 0 THEN w ELSE Body(f[n - 1], seq[n], loop)
          BY <2>1, <5>1
        <5> QED  BY <5>2, <5>3
      <4> QED  BY <4>1, <4>2
    <3>2. g = [n \in 0 .. m |-> IF n = 0 THEN w ELSE Body(g[n - 1], seq[n], loop)]
      BY <3>1
    <3> QED  BY <3>2
  <2>3. \E h : AsFar(h, m)
    BY <2>2
  <2> HIDE DEF AsFar
  <2> QED  BY <2>3
<1>3. Len(seq) \in Far
  <2>1. \A n \in 1 .. Len(seq) : n - 1 \in Far => n \in Far
    BY <1>2
  <2> HIDE DEF Far
  <2>2. \A n \in 0 .. Len(seq) : n \in Far
    BY <1>1, <2>1, Steps
  <2> QED  BY <2>2
<1>4. PICK f : AsFar(f, Len(seq))
  BY <1>3
<1> DEFINE after == CHOOSE h : AsFar(h, Len(seq))
<1>5. AsFar(after, Len(seq))
  BY <1>4
<1>6. Each(w, seq, loop) = after[Len(seq)]
  BY DEF Each
<1>7. after[0] = w /\ \A n \in 1 .. Len(seq) : after[n] = Body(after[n - 1], seq[n], loop)
  <2> HIDE DEF after
  <2> QED  BY <1>5
<1> HIDE DEF after
<1> QED  BY <1>6, <1>7

(* What a turn of the loop keeps, the loop keeps. *)
LEMMA EachKeeps ==
    ASSUME NEW w, NEW seq, Len(seq) \in Nat, NEW loop, NEW I, w \in I[0],
           \A n \in 1 .. Len(seq) : \A v \in I[n - 1] : Body(v, seq[n], loop) \in I[n]
    PROVE  Each(w, seq, loop) \in I[Len(seq)]
<1>1. PICK f : /\ f[0] = w
               /\ \A n \in 1 .. Len(seq) : f[n] = Body(f[n - 1], seq[n], loop)
               /\ Each(w, seq, loop) = f[Len(seq)]
  BY EachUnfolds
<1> DEFINE S == {n \in 0 .. Len(seq) : f[n] \in I[n]}
<1>2. 0 \in S
  BY <1>1
<1>3. ASSUME NEW n \in 1 .. Len(seq), n - 1 \in S PROVE n \in S
  <2>1. f[n] = Body(f[n - 1], seq[n], loop)
    BY <1>1
  <2> QED  BY <1>3, <2>1
<1>4. Len(seq) \in S
  <2>1. \A n \in 1 .. Len(seq) : n - 1 \in S => n \in S
    BY <1>3
  <2> HIDE DEF S
  <2>2. \A n \in 0 .. Len(seq) : n \in S
    BY <1>2, <2>1, Steps
  <2> QED  BY <2>2
<1> QED  BY <1>1, <1>4

LEMMA ClimbUnfolds ==
    ASSUME NEW w, NEW t \in Nat, NEW s
    PROVE  \E f : /\ f[0] = Put(w, t, s)
                  /\ \A n \in 1 .. t : f[n] = Climb(f[n - 1])
                  /\ SetState(w, t, s) = f[t].world
<1> DEFINE Rises(f, m) ==
             f = [n \in 0 .. m |-> IF n = 0 THEN Put(w, t, s) ELSE Climb(f[n - 1])]
           Far == {m \in 0 .. t : \E f : Rises(f, m)}
<1>1. 0 \in Far
  <2>1. Rises([n \in 0 .. 0 |-> Put(w, t, s)], 0)
    OBVIOUS
  <2>2. \E f : Rises(f, 0)
    BY <2>1
  <2> HIDE DEF Rises
  <2> QED  BY <2>2
<1>2. ASSUME NEW m \in 1 .. t, m - 1 \in Far PROVE m \in Far
  <2>1. PICK f : Rises(f, m - 1)
    BY <1>2
  <2>2. Rises([n \in 0 .. m |-> IF n = m THEN Climb(f[m - 1]) ELSE f[n]], m)
    <3> DEFINE g == [n \in 0 .. m |-> IF n = m THEN Climb(f[m - 1]) ELSE f[n]]
    <3>1. ASSUME NEW n \in 0 .. m
          PROVE  g[n] = IF n = 0 THEN Put(w, t, s) ELSE Climb(g[n - 1])
      <4>1. CASE n = m
        BY <4>1
      <4>2. CASE n # m
        <5>1. n \in 0 .. m - 1 /\ (n # 0 => n - 1 \in 0 .. m)
          BY <4>2
        <5>2. g[n] = f[n] /\ (n # 0 => g[n - 1] = f[n - 1])
          BY <4>2, <5>1
        <5>3. f[n] = IF n = 0 THEN Put(w, t, s) ELSE Climb(f[n - 1])
          BY <2>1, <5>1
        <5> QED  BY <5>2, <5>3
      <4> QED  BY <4>1, <4>2
    <3>2. g = [n \in 0 .. m |-> IF n = 0 THEN Put(w, t, s) ELSE Climb(g[n - 1])]
      BY <3>1
    <3> QED  BY <3>2
  <2>3. \E h : Rises(h, m)
    BY <2>2
  <2> HIDE DEF Rises
  <2> QED  BY <2>3
<1>3. t \in Far
  <2>1. \A n \in 1 .. t : n - 1 \in Far => n \in Far
    BY <1>2
  <2> HIDE DEF Far
  <2>2. \A n \in 0 .. t : n \in Far
    BY <1>1, <2>1, Steps
  <2> QED  BY <2>2
<1>4. PICK f : Rises(f, t)
  BY <1>3
<1> DEFINE level == CHOOSE h : Rises(h, t)
<1>5. Rises(level, t)
  BY <1>4
<1>6. SetState(w, t, s) = level[t].world
  BY DEF SetState
<1>7. level[0] = Put(w, t, s) /\ \A n \in 1 .. t : level[n] = Climb(level[n - 1])
  <2> HIDE DEF level
  <2> QED  BY <1>5
<1> HIDE DEF level
<1> QED  BY <1>6, <1>7

(* What the change of a state and every climb keep, setState keeps. *)
LEMMA ClimbKeeps ==
    ASSUME NEW w, NEW t \in Nat, NEW s, NEW I, Put(w, t, s) \in I[0],
           \A n \in 1 .. t : \A m \in I[n - 1] : Climb(m) \in I[n]
    PROVE  \E m \in I[t] : SetState(w, t, s) = m.world
<1>1. PICK f : /\ f[0] = Put(w, t, s)
               /\ \A n \in 1 .. t : f[n] = Climb(f[n - 1])
               /\ SetState(w, t, s) = f[t].world
  BY ClimbUnfolds
<1> DEFINE S == {n \in 0 .. t : f[n] \in I[n]}
<1>2. 0 \in S
  BY <1>1
<1>3. ASSUME NEW n \in 1 .. t, n - 1 \in S PROVE n \in S
  <2>1. f[n] = Climb(f[n - 1])
    BY <1>1
  <2> QED  BY <1>3, <2>1
<1>4. t \in S
  <2>1. \A n \in 1 .. t : n - 1 \in S => n \in S
    BY <1>3
  <2> HIDE DEF S
  <2>2. \A n \in 0 .. t : n \in S
    BY <1>2, <2>1, Steps
  <2> QED  BY <2>2
<1> QED  BY <1>1, <1>4

------------------------------------------------------------------------------
(* setState                                                                   *)

LEMMA WorldFields ==
    ASSUME NEW w \in Worlds
    PROVE  /\ w.tasks \in Seq(Entry) /\ w.entries \subseteq Nat
           /\ w.expandQueue \in Seq(Nat) /\ w.slots \in [Slots -> Activity]
           /\ Len(w.tasks) \in Nat /\ DOMAIN w.tasks = 1 .. Len(w.tasks)
           /\ \A t \in DOMAIN w.tasks : t \in Nat /\ w.tasks[t] \in Entry
BY DEF Worlds

(* One task's state, in a world. *)
WithState(w, t, s) == [w EXCEPT !.tasks[t].state = s]

LEMMA WithStateFields ==
    ASSUME NEW w \in Worlds, NEW t \in DOMAIN w.tasks, NEW s \in States
    PROVE  LET v == WithState(w, t, s)
           IN  /\ v \in Worlds
               /\ v.entries = w.entries /\ v.expandQueue = w.expandQueue /\ v.slots = w.slots
               /\ Len(v.tasks) = Len(w.tasks) /\ DOMAIN v.tasks = DOMAIN w.tasks
               /\ v.tasks[t] = [w.tasks[t] EXCEPT !.state = s]
               /\ \A u \in DOMAIN w.tasks : u # t => v.tasks[u] = w.tasks[u]
<1> DEFINE v == WithState(w, t, s)
           ts == [w.tasks EXCEPT ![t] = [w.tasks[t] EXCEPT !.state = s]]
<1>1. w.tasks \in Seq(Entry) /\ w.tasks[t] \in Entry /\ DOMAIN w.tasks = 1 .. Len(w.tasks)
  BY WorldFields
<1>2. [w.tasks[t] EXCEPT !.state = s] \in Entry
  BY <1>1 DEF Entry
<1>3. ts \in Seq(Entry) /\ Len(ts) = Len(w.tasks) /\ DOMAIN ts = DOMAIN w.tasks
  BY <1>1, <1>2
<1>4. v = [w EXCEPT !.tasks = ts]
  BY DEF WithState
<1>5. v \in Worlds /\ v.tasks = ts /\ v.entries = w.entries /\ v.expandQueue = w.expandQueue
      /\ v.slots = w.slots
  BY <1>3, <1>4 DEF Worlds
<1>6. ts[t] = [w.tasks[t] EXCEPT !.state = s] /\ \A u \in DOMAIN w.tasks : u # t => ts[u] = w.tasks[u]
  OBVIOUS
<1> HIDE DEF v, ts
<1>7. /\ v \in Worlds
      /\ v.entries = w.entries /\ v.expandQueue = w.expandQueue /\ v.slots = w.slots
      /\ Len(v.tasks) = Len(w.tasks) /\ DOMAIN v.tasks = DOMAIN w.tasks
      /\ v.tasks[t] = [w.tasks[t] EXCEPT !.state = s]
      /\ \A u \in DOMAIN w.tasks : u # t => v.tasks[u] = w.tasks[u]
  BY <1>3, <1>5, <1>6
<1> QED  BY <1>7 DEF v

(* The worlds setState may lead to: t has the new state, a group above t may have *)
(* ended, and nothing else has changed.                                           *)
Restated(w, t, s) ==
    {v \in Worlds :
        /\ v.entries = w.entries /\ v.expandQueue = w.expandQueue /\ v.slots = w.slots
        /\ Len(v.tasks) = Len(w.tasks)
        /\ \A u \in DOMAIN w.tasks :
            /\ v.tasks[u] = [w.tasks[u] EXCEPT !.state = v.tasks[u].state]
            /\ u = t => v.tasks[u].state = s
            /\ u # t => v.tasks[u].state \in {w.tasks[u].state, "done", "error"}}

LEMMA EntryRestated ==
    ASSUME NEW e \in Entry, NEW s \in States
    PROVE  /\ [e EXCEPT !.state = s] \in Entry /\ [e EXCEPT !.state = s].state = s
           /\ e = [e EXCEPT !.state = e.state]
           /\ \A r \in States : [[e EXCEPT !.state = s] EXCEPT !.state = r] = [e EXCEPT !.state = r]
BY DEF Entry

LEMMA RestatedTwice ==
    ASSUME NEW e \in Entry, NEW f \in Entry, f = [e EXCEPT !.state = f.state],
           NEW s \in States, NEW g, g = [f EXCEPT !.state = s]
    PROVE  g = [e EXCEPT !.state = s] /\ g.state = s
BY DEF Entry

LEMMA SetStateRestates ==
    ASSUME NEW w \in Worlds, Linked(w), NEW t \in DOMAIN w.tasks, NEW s \in States
    PROVE  SetState(w, t, s) \in Restated(w, t, s)
<1> DEFINE R == Restated(w, t, s)
           I == [n \in 0 .. t |-> {m \in [world : R, above : Nat] : m.above = 0 \/ m.above + n < t}]
<1>0. /\ t \in Nat /\ DOMAIN w.tasks = 1 .. Len(w.tasks) /\ Len(w.tasks) \in Nat
      /\ \A u \in DOMAIN w.tasks : w.tasks[u] \in Entry /\ w.tasks[u].parent \in Nat
                                   /\ w.tasks[u].parent < u /\ w.tasks[u].state \in States
  BY WorldFields DEF Linked, Entry
<1>1. Put(w, t, s) \in I[0]
  <2> DEFINE v == WithState(w, t, s)
  <2>1. /\ v \in Worlds
        /\ v.entries = w.entries /\ v.expandQueue = w.expandQueue /\ v.slots = w.slots
        /\ Len(v.tasks) = Len(w.tasks) /\ DOMAIN v.tasks = DOMAIN w.tasks
        /\ v.tasks[t] = [w.tasks[t] EXCEPT !.state = s]
        /\ \A u \in DOMAIN w.tasks : u # t => v.tasks[u] = w.tasks[u]
    BY WithStateFields
  <2>2. Put(w, t, s) = [world |-> v, above |-> IF s \in FinalStates THEN w.tasks[t].parent ELSE 0]
    BY DEF Put, WithState
  <2> HIDE DEF v
  <2>3. ASSUME NEW u \in DOMAIN w.tasks
        PROVE  /\ v.tasks[u] = [w.tasks[u] EXCEPT !.state = v.tasks[u].state]
               /\ u = t => v.tasks[u].state = s
               /\ u # t => v.tasks[u].state \in {w.tasks[u].state, "done", "error"}
    <3>1. w.tasks[u] \in Entry /\ w.tasks[u].state \in States
      BY <1>0
    <3>2. CASE u = t
      <4>1. v.tasks[u] = [w.tasks[u] EXCEPT !.state = s]
        BY <2>1, <3>2
      <4>2. v.tasks[u].state = s
        BY ONLY <3>1, <4>1 DEF Entry
      <4> QED  BY <3>2, <4>1, <4>2
    <3>3. CASE u # t
      <4>1. v.tasks[u] = w.tasks[u]
        BY <2>1, <3>3
      <4>2. w.tasks[u] = [w.tasks[u] EXCEPT !.state = w.tasks[u].state]
        BY <3>1, EntryRestated
      <4> QED  BY <3>3, <4>1, <4>2
    <3> QED  BY <3>2, <3>3
  <2>4. v \in R
    BY <2>1, <2>3 DEF Restated
  <2> HIDE DEF R
  <2> QED  BY <1>0, <2>2, <2>4
<1>2. ASSUME NEW n \in 1 .. t, NEW m \in I[n - 1] PROVE Climb(m) \in I[n]
  <2> DEFINE x == m.world
             p == m.above
  <2>1. /\ x \in R /\ p \in Nat /\ (p = 0 \/ p + (n - 1) < t)
        /\ m = [world |-> x, above |-> p] /\ n \in 0 .. t
    <3> HIDE DEF R
    <3> QED  BY <1>0
  <2>2. /\ x \in Worlds
        /\ x.entries = w.entries /\ x.expandQueue = w.expandQueue /\ x.slots = w.slots
        /\ Len(x.tasks) = Len(w.tasks) /\ DOMAIN x.tasks = DOMAIN w.tasks
        /\ \A u \in DOMAIN w.tasks :
            /\ x.tasks[u] = [w.tasks[u] EXCEPT !.state = x.tasks[u].state]
            /\ x.tasks[u].state \in States
            /\ u = t => x.tasks[u].state = s
            /\ u # t => x.tasks[u].state \in {w.tasks[u].state, "done", "error"}
    BY <1>0, <2>1, WorldFields DEF Restated, States
  <2>3. CASE p # 0 /\ HasEnded(x, p)
    <3> DEFINE o == Outcome(x, p)
               v == WithState(x, p, o)
    <3>1. o \in {"done", "error"} /\ o \in States
      BY DEF Outcome, States
    <3>2. p \in DOMAIN w.tasks /\ p < t
      BY <1>0, <2>1, <2>3
    <3> HIDE DEF o, x, p
    <3>3. /\ v \in Worlds
          /\ v.entries = x.entries /\ v.expandQueue = x.expandQueue /\ v.slots = x.slots
          /\ Len(v.tasks) = Len(x.tasks) /\ DOMAIN v.tasks = DOMAIN x.tasks
          /\ v.tasks[p] = [x.tasks[p] EXCEPT !.state = o]
          /\ \A u \in DOMAIN x.tasks : u # p => v.tasks[u] = x.tasks[u]
      BY <2>2, <3>1, <3>2, WithStateFields
    <3>4. Climb(m) = [world |-> v, above |-> IF o \in FinalStates THEN x.tasks[p].parent ELSE 0]
      BY <2>3 DEF Climb, Put, WithState, x, p, o
    <3> HIDE DEF v
    <3>5. ASSUME NEW u \in DOMAIN w.tasks
          PROVE  /\ v.tasks[u] = [w.tasks[u] EXCEPT !.state = v.tasks[u].state]
                 /\ u = t => v.tasks[u].state = s
                 /\ u # t => v.tasks[u].state \in {w.tasks[u].state, "done", "error"}
      <4>1. CASE u = p
        <5>1. w.tasks[p] \in Entry /\ x.tasks[p].state \in States /\ x.tasks[p] \in Entry
          BY <1>0, <2>2, <3>2, WorldFields
        <5>2. x.tasks[p] = [w.tasks[p] EXCEPT !.state = x.tasks[p].state]
          BY <2>2, <3>2
        <5>5. v.tasks[p] = [w.tasks[p] EXCEPT !.state = o] /\ v.tasks[p].state = o
          BY ONLY <3>1, <3>3, <5>1, <5>2, RestatedTwice
        <5>6. v.tasks[u] = [w.tasks[u] EXCEPT !.state = v.tasks[u].state]
          BY <4>1, <5>5
        <5>7. u # t /\ v.tasks[u].state \in {"done", "error"}
          <6>1. o \in {"done", "error"} /\ p # t
            BY <1>0, <3>1, <3>2
          <6> QED  BY ONLY <4>1, <5>5, <6>1
        <5> QED  BY <5>6, <5>7
      <4>2. CASE u # p
        <5>1. u \in DOMAIN x.tasks
          BY <2>2
        <5>2. v.tasks[u] = x.tasks[u]
          BY <3>3, <4>2, <5>1
        <5> QED  BY <2>2, <5>2
      <4> QED  BY <4>1, <4>2
    <3>6. v \in R
      BY <2>2, <3>3, <3>5 DEF Restated
    <3>7. x.tasks[p].parent = w.tasks[p].parent
      <4>1. w.tasks[p] \in Entry
        BY <1>0, <3>2
      <4> QED  BY <2>2, <3>2, <4>1 DEF Entry
    <3> DEFINE q == IF o \in FinalStates THEN x.tasks[p].parent ELSE 0
    <3>8. q \in Nat /\ (q = 0 \/ q + n < t)
      BY <1>0, <2>1, <3>2, <3>7
    <3> HIDE DEF R, q
    <3>9. [world |-> v, above |-> q] \in I[n]
      BY <2>1, <3>6, <3>8
    <3> QED  BY <3>4, <3>9 DEF q
  <2>4. CASE ~(p # 0 /\ HasEnded(x, p))
    <3>1. Climb(m) = [world |-> x, above |-> 0]
      BY <2>1, <2>4 DEF Climb
    <3> HIDE DEF R, x, p
    <3> QED  BY <2>1, <3>1
  <2> QED  BY <2>3, <2>4
<1>3. PICK m \in I[t] : SetState(w, t, s) = m.world
  <2> HIDE DEF I
  <2> QED  BY <1>0, <1>1, <1>2, ClimbKeeps
<1>4. m.world \in R
  <2> HIDE DEF R
  <2> QED  BY <1>0
<1> QED  BY <1>3, <1>4

------------------------------------------------------------------------------
(* Worlds with the same activities                                            *)

(* The same tasks, activities and queue: what may differ are states of tasks, *)
(* handles and signals.                                                       *)
Alike(w) ==
    {v \in Good :
        /\ v.entries = w.entries /\ v.expandQueue = w.expandQueue
        /\ Len(v.tasks) = Len(w.tasks)
        /\ \A a \in Slots : v.slots[a].stage = w.slots[a].stage /\ v.slots[a].task = w.slots[a].task
        /\ \A u \in DOMAIN w.tasks : /\ v.tasks[u].session = w.tasks[u].session
                                     /\ v.tasks[u].classified = w.tasks[u].classified}

(* And nothing waits that did not wait. *)
Calmer(w) ==
    {v \in Alike(w) :
        \A u \in DOMAIN w.tasks : v.tasks[u].state = "queued" => w.tasks[u].state = "queued"}

LEMMA GoodFields ==
    ASSUME NEW w \in Good
    PROVE  /\ w \in Worlds /\ Linked(w) /\ Limited(w)
           /\ DOMAIN w.tasks = 1 .. Len(w.tasks) /\ Len(w.tasks) \in Nat
           /\ \A t \in DOMAIN w.tasks : t \in Nat /\ w.tasks[t] \in Entry
           /\ w.entries \subseteq DOMAIN w.tasks
BY WorldFields DEF Good, Linked

LEMMA SameCounts ==
    ASSUME NEW w, NEW v,
           \A a \in Slots : v.slots[a].stage = w.slots[a].stage /\ v.slots[a].task = w.slots[a].task,
           \A a \in Slots : w.slots[a].stage # "free" =>
                v.tasks[w.slots[a].task].session = w.tasks[w.slots[a].task].session
    PROVE  /\ Running(v) = Running(w) /\ Expanding(v) = Expanding(w)
           /\ \A s : RunningBySession(v, s) = RunningBySession(w, s)
<1>1. Running(v) = Running(w) /\ Expanding(v) = Expanding(w)
  BY DEF Running, Expanding
<1>2. \A a \in Running(w) : a \in Slots /\ w.slots[a].stage # "free"
  BY DEF Running, TransferStages
<1>3. \A s : RunningBySession(v, s) = RunningBySession(w, s)
  BY <1>1, <1>2 DEF RunningBySession
<1> QED  BY <1>1, <1>3

LEMMA AlikeCounts ==
    ASSUME NEW w \in Good, NEW v \in Alike(w)
    PROVE  /\ Running(v) = Running(w) /\ Expanding(v) = Expanding(w)
           /\ \A s : RunningBySession(v, s) = RunningBySession(w, s)
<1>1. \A a \in Slots : w.slots[a].stage # "free" => w.slots[a].task \in DOMAIN w.tasks
  BY GoodFields DEF Linked
<1> QED  BY <1>1, SameCounts DEF Alike

LEMMA AlikeReflexive ==
    ASSUME NEW w \in Good
    PROVE  w \in Alike(w) /\ w \in Calmer(w)
BY DEF Alike, Calmer

LEMMA AlikeTransitive ==
    ASSUME NEW w \in Good, NEW v \in Alike(w), NEW x \in Alike(v)
    PROVE  /\ v \in Good /\ x \in Alike(w)
           /\ v \in Calmer(w) /\ x \in Calmer(v) => x \in Calmer(w)
<1>1. v \in Good /\ x \in Good
  BY DEF Alike
<1>2. DOMAIN v.tasks = DOMAIN w.tasks
  BY <1>1, GoodFields DEF Alike
<1>3. x \in Alike(w)
  BY <1>1, <1>2 DEF Alike
<1> QED  BY <1>1, <1>2, <1>3 DEF Calmer

(* What holds of a waiting task still does when the world is calmer. *)
LEMMA CalmerKeeps ==
    ASSUME NEW w \in Good, NEW v \in Calmer(w)
    PROVE  /\ v \in Good /\ DOMAIN v.tasks = DOMAIN w.tasks
           /\ \A t \in DOMAIN w.tasks : Held(w, t) => Held(v, t)
           /\ \A t \in DOMAIN w.tasks : Noticed(w, t) => Noticed(v, t)
           /\ Full(w) => Full(v)
<1>1. v \in Alike(w) /\ v \in Good
  BY DEF Calmer, Alike
<1>2. /\ Running(v) = Running(w) /\ Expanding(v) = Expanding(w)
      /\ \A s : RunningBySession(v, s) = RunningBySession(w, s)
  BY <1>1, AlikeCounts
<1>3. DOMAIN v.tasks = DOMAIN w.tasks
  BY <1>1, GoodFields DEF Alike
<1>4. v.entries = w.entries /\ v.expandQueue = w.expandQueue
  BY <1>1 DEF Alike
<1>5. ASSUME NEW t \in DOMAIN w.tasks
      PROVE  /\ Waits(v, t) => Waits(w, t)
             /\ v.tasks[t].session = w.tasks[t].session
             /\ v.tasks[t].classified = w.tasks[t].classified
  BY <1>1, <1>4 DEF Waits, Calmer, Alike
<1>6. \A t \in DOMAIN w.tasks : Held(w, t) => Held(v, t)
  BY <1>2, <1>5 DEF Held
<1>7. \A t \in DOMAIN w.tasks : Noticed(w, t) => Noticed(v, t)
  BY <1>1, <1>4, <1>5 DEF Noticed, Alike
<1>8. Full(w) => Full(v)
  BY <1>2, <1>4 DEF Full
<1> QED  BY <1>1, <1>3, <1>6, <1>7, <1>8

LEMMA RestatedAlike ==
    ASSUME NEW w \in Good, NEW t \in DOMAIN w.tasks, NEW s \in States,
           NEW v \in Restated(w, t, s)
    PROVE  v \in Alike(w) /\ (s # "queued" => v \in Calmer(w))
<1>1. w \in Worlds /\ Linked(w) /\ DOMAIN w.tasks = 1 .. Len(w.tasks)
      /\ \A u \in DOMAIN w.tasks : w.tasks[u] \in Entry
  BY GoodFields
<1>2. /\ v \in Worlds
      /\ v.entries = w.entries /\ v.expandQueue = w.expandQueue /\ v.slots = w.slots
      /\ Len(v.tasks) = Len(w.tasks) /\ DOMAIN v.tasks = DOMAIN w.tasks
  BY <1>1, WorldFields DEF Restated
<1>3. ASSUME NEW u \in DOMAIN w.tasks
      PROVE  /\ v.tasks[u].session = w.tasks[u].session
             /\ v.tasks[u].parent = w.tasks[u].parent
             /\ v.tasks[u].children = w.tasks[u].children
             /\ v.tasks[u].childTotal = w.tasks[u].childTotal
             /\ v.tasks[u].handle = w.tasks[u].handle
             /\ v.tasks[u].classified = w.tasks[u].classified
             /\ v.tasks[u].state = "queued" => (u = t /\ s = "queued") \/ w.tasks[u].state = "queued"
  <2>1. w.tasks[u] \in Entry
        /\ v.tasks[u] = [w.tasks[u] EXCEPT !.state = v.tasks[u].state]
    BY <1>1 DEF Restated
  <2>2. /\ u = t => v.tasks[u].state = s
        /\ u # t => v.tasks[u].state \in {w.tasks[u].state, "done", "error"}
    BY DEF Restated
  <2> QED  BY <2>1, <2>2 DEF Entry
<1>4. Linked(v)
  <2>1. ASSUME NEW u \in DOMAIN v.tasks
        PROVE  /\ v.tasks[u].children \subseteq u + 1 .. Len(v.tasks)
               /\ v.tasks[u].parent < u
               /\ v.tasks[u].childTotal = Cardinality(v.tasks[u].children)
               /\ v.tasks[u].handle # 0 =>
                    /\ v.slots[v.tasks[u].handle].stage = "work"
                    /\ v.slots[v.tasks[u].handle].task = u
    BY <1>1, <1>2, <1>3 DEF Linked
  <2>2. \A u \in v.entries : \A c \in v.tasks[u].children : v.tasks[c].parent = u
    BY <1>1, <1>2, <1>3 DEF Linked
  <2> QED  BY <1>1, <1>2, <2>1, <2>2 DEF Linked
<1>5. Limited(v)
  <2>1. \A a \in Slots : w.slots[a].stage # "free" => w.slots[a].task \in DOMAIN w.tasks
    BY <1>1 DEF Linked
  <2>2. /\ Running(v) = Running(w) /\ Expanding(v) = Expanding(w)
        /\ \A r : RunningBySession(v, r) = RunningBySession(w, r)
    BY <1>2, <1>3, <2>1, SameCounts
  <2> QED  BY <2>2 DEF Good, Limited
<1>6. v \in Alike(w)
  BY <1>2, <1>3, <1>4, <1>5 DEF Alike, Good
<1> QED  BY <1>3, <1>6 DEF Calmer

LEMMA SetStateAlike ==
    ASSUME NEW w \in Good, NEW t \in DOMAIN w.tasks, NEW s \in States
    PROVE  /\ SetState(w, t, s) \in Restated(w, t, s)
           /\ SetState(w, t, s) \in Alike(w)
           /\ s # "queued" => SetState(w, t, s) \in Calmer(w)
BY GoodFields, SetStateRestates, RestatedAlike

LEMMA SettleGroupCalms ==
    ASSUME NEW w \in Good, NEW t \in DOMAIN w.tasks
    PROVE  SettleGroup(w, t) \in Calmer(w)
<1>1. Outcome(w, t) \in States \ {"queued"}
  BY DEF Outcome, States
<1> QED  BY <1>1, SetStateAlike, AlikeReflexive DEF SettleGroup

------------------------------------------------------------------------------
(* What a command does to one task                                            *)

LEMMA SlotChanged ==
    ASSUME NEW w \in Worlds, NEW a \in Slots, NEW x \in Activity
    PROVE  LET v == [w EXCEPT !.slots[a] = x]
           IN  /\ v \in Worlds /\ v.tasks = w.tasks /\ v.entries = w.entries
               /\ v.expandQueue = w.expandQueue
               /\ v.slots[a] = x /\ \A b \in Slots : b # a => v.slots[b] = w.slots[b]
<1> DEFINE v == [w EXCEPT !.slots[a] = x]
           ss == [w.slots EXCEPT ![a] = x]
<1>1. ss \in [Slots -> Activity] /\ ss[a] = x /\ \A b \in Slots : b # a => ss[b] = w.slots[b]
  BY WorldFields
<1>2. v = [w EXCEPT !.slots = ss]
  OBVIOUS
<1> HIDE DEF ss, v
<1>3. v \in Worlds /\ v.tasks = w.tasks /\ v.entries = w.entries
      /\ v.expandQueue = w.expandQueue /\ v.slots = ss
  BY <1>1, <1>2 DEF Worlds
<1>4. /\ v \in Worlds /\ v.tasks = w.tasks /\ v.entries = w.entries
      /\ v.expandQueue = w.expandQueue
      /\ v.slots[a] = x /\ \A b \in Slots : b # a => v.slots[b] = w.slots[b]
  BY <1>1, <1>3
<1> QED  BY <1>4 DEF v

(* Two worlds that differ in signals only. *)
LEMMA SignalsAlike ==
    ASSUME NEW w \in Good, NEW v \in Worlds,
           v.tasks = w.tasks, v.entries = w.entries, v.expandQueue = w.expandQueue,
           \A a \in Slots : v.slots[a].stage = w.slots[a].stage /\ v.slots[a].task = w.slots[a].task
    PROVE  v \in Calmer(w)
<1>1. w \in Worlds /\ Linked(w) /\ Limited(w)
  BY GoodFields
<1>2. \A t \in DOMAIN w.tasks : w.tasks[t].handle # 0 => w.tasks[t].handle \in Slots
  BY GoodFields DEF Entry
<1>3. Linked(v)
  BY <1>1, <1>2 DEF Linked
<1>4. Limited(v)
  BY <1>1, SameCounts DEF Limited
<1> QED  BY <1>3, <1>4 DEF Good, Alike, Calmer

LEMMA SignalCalms ==
    ASSUME NEW w \in Good, NEW t \in DOMAIN w.tasks, NEW s \in {"pause", "cancel"}
    PROVE  Signal(w, t, s) \in Calmer(w)
<1> DEFINE a == w.tasks[t].handle
<1>1. CASE a = 0 \/ w.slots[a].signal = "cancel"
  BY <1>1, AlikeReflexive DEF Signal
<1>2. CASE ~(a = 0 \/ w.slots[a].signal = "cancel")
  <2> DEFINE x == [w.slots[a] EXCEPT !.signal = s]
             v == [w EXCEPT !.slots[a] = x]
  <2>1. w.tasks[t] \in Entry
    BY GoodFields
  <2>2. a \in Slots
    BY <1>2, <2>1 DEF Entry
  <2>3. w.slots[a] \in Activity /\ w \in Worlds
    BY <2>2, GoodFields, WorldFields
  <2>4. x \in Activity /\ x.stage = w.slots[a].stage /\ x.task = w.slots[a].task
    BY <2>3 DEF Activity
  <2>5. Signal(w, t, s) = v
    BY <1>2 DEF Signal
  <2> HIDE DEF a, x
  <2>6. /\ v \in Worlds /\ v.tasks = w.tasks /\ v.entries = w.entries
        /\ v.expandQueue = w.expandQueue
        /\ v.slots[a] = x /\ \A b \in Slots : b # a => v.slots[b] = w.slots[b]
    BY <2>2, <2>3, <2>4, SlotChanged
  <2> HIDE DEF v
  <2>7. \A b \in Slots : v.slots[b].stage = w.slots[b].stage /\ v.slots[b].task = w.slots[b].task
    BY <2>4, <2>6
  <2> QED  BY <2>5, <2>6, <2>7, SignalsAlike
<1> QED  BY <1>1, <1>2

LEMMA CalmerTransitive ==
    ASSUME NEW w \in Good, NEW v \in Calmer(w), NEW x \in Calmer(v)
    PROVE  x \in Calmer(w)
BY AlikeTransitive DEF Calmer

LEMMA PauseCalms ==
    ASSUME NEW w \in Good, NEW t \in DOMAIN w.tasks
    PROVE  PauseEntry(w, t) \in Calmer(w)
BY SignalCalms, SetStateAlike, AlikeReflexive DEF PauseEntry, States

LEMMA CancelCalms ==
    ASSUME NEW w \in Good, NEW t \in DOMAIN w.tasks
    PROVE  /\ CancelEntry(w, t) \in Calmer(w)
           /\ CancelEntry(w, t).tasks[t].state # "queued"
<1> DEFINE v == Signal(w, t, "cancel")
<1>1. v \in Calmer(w) /\ v \in Good /\ t \in DOMAIN v.tasks
  <2>1. v \in Calmer(w)
    BY SignalCalms
  <2> HIDE DEF v
  <2> QED  BY <2>1, CalmerKeeps
<1>2. ASSUME NEW x \in Good, t \in DOMAIN x.tasks
      PROVE  SetState(x, t, "canceled") \in Calmer(x)
             /\ SetState(x, t, "canceled").tasks[t].state = "canceled"
  <2>1. SetState(x, t, "canceled") \in Calmer(x)
        /\ SetState(x, t, "canceled") \in Restated(x, t, "canceled")
    BY <1>2, SetStateAlike DEF States
  <2> QED  BY <1>2, <2>1 DEF Restated
<1>3. CASE w.tasks[t].state = "running"
  <2>1. CancelEntry(w, t) = SetState(v, t, "canceled")
    BY <1>3 DEF CancelEntry, FinalStates
  <2> HIDE DEF v
  <2> QED  BY <1>1, <1>2, <2>1, CalmerTransitive
<1>4. CASE w.tasks[t].state \in FinalStates
  <2>1. CancelEntry(w, t) = IF w.tasks[t].isGroup THEN SetState(w, t, "canceled") ELSE w
    BY <1>4 DEF CancelEntry, FinalStates
  <2> QED  BY <1>2, <1>4, <2>1, AlikeReflexive DEF FinalStates
<1>5. CASE w.tasks[t].state \notin FinalStates \cup {"running"}
  <2>1. CancelEntry(w, t) = SetState(w, t, "canceled")
    BY <1>5 DEF CancelEntry
  <2> QED  BY <1>2, <2>1
<1> QED  BY <1>3, <1>4, <1>5

Queued(w, t) == [w EXCEPT !.expandQueue = Append(@, t)]

LEMMA AppendToQueue ==
    ASSUME NEW w \in Good, NEW t \in DOMAIN w.tasks, NEW v, v = Queued(w, t)
    PROVE  /\ v \in Good /\ v.tasks = w.tasks /\ v.entries = w.entries /\ v.slots = w.slots
           /\ \E i \in DOMAIN v.expandQueue : v.expandQueue[i] = t
           /\ \A i \in DOMAIN w.expandQueue : i \in DOMAIN v.expandQueue
                                              /\ v.expandQueue[i] = w.expandQueue[i]
<1> DEFINE q == Append(w.expandQueue, t)
<1>1. w \in Worlds /\ w.expandQueue \in Seq(Nat) /\ t \in Nat /\ Linked(w) /\ Limited(w)
  BY GoodFields, WorldFields
<1>2. /\ q \in Seq(Nat) /\ Len(q) = Len(w.expandQueue) + 1 /\ q[Len(q)] = t
      /\ Len(q) \in DOMAIN q
      /\ \A i \in DOMAIN q : i \in DOMAIN w.expandQueue \/ i = Len(q)
      /\ \A i \in DOMAIN w.expandQueue : i \in DOMAIN q /\ q[i] = w.expandQueue[i]
  BY <1>1
<1> HIDE DEF q
<1>3. /\ v \in Worlds /\ v.tasks = w.tasks /\ v.entries = w.entries /\ v.slots = w.slots
      /\ v.expandQueue = q
  BY <1>1, <1>2 DEF Worlds, q, Queued
<1>4. Linked(v)
  <2>1. \A i \in DOMAIN q : q[i] \in DOMAIN w.tasks
    BY <1>1, <1>2 DEF Linked
  <2> QED  BY <1>1, <1>3, <2>1 DEF Linked
<1>5. Limited(v)
  BY <1>1, <1>3 DEF Limited, Running, Expanding, RunningBySession
<1> QED  BY <1>2, <1>3, <1>4, <1>5 DEF Good

(* Resume and retry queue a task that is not classified for that. *)
LEMMA AgainNotices ==
    ASSUME NEW w \in Good, AllNoticed(w), NEW t \in DOMAIN w.tasks
    PROVE  /\ AgainEntry(w, t) \in Good /\ AllNoticed(AgainEntry(w, t))
           /\ DOMAIN AgainEntry(w, t).tasks = DOMAIN w.tasks
<1>1. CASE w.tasks[t].state = "running"
  BY <1>1 DEF AgainEntry
<1>2. CASE w.tasks[t].state # "running" /\ w.tasks[t].isGroup
  <2> DEFINE v == SetState(w, t, "running")
  <2>1. v \in Calmer(w)
    BY SetStateAlike DEF States
  <2>2. AgainEntry(w, t) = SettleGroup(v, t)
    BY <1>2 DEF AgainEntry
  <2> HIDE DEF v
  <2>3. v \in Good /\ t \in DOMAIN v.tasks
    BY <2>1, CalmerKeeps
  <2>4. AgainEntry(w, t) \in Calmer(w)
    BY <2>1, <2>2, <2>3, SettleGroupCalms, CalmerTransitive
  <2> HIDE DEF AllNoticed
  <2>5. \A u \in DOMAIN w.tasks : Noticed(w, u)
    BY DEF AllNoticed
  <2> QED  BY <2>4, <2>5, CalmerKeeps DEF AllNoticed
<1>3. CASE w.tasks[t].state # "running" /\ ~w.tasks[t].isGroup
  <2> DEFINE v == SetState(w, t, "queued")
             x == Queued(v, t)
  <2>1. v \in Alike(w) /\ v \in Restated(w, t, "queued")
    BY SetStateAlike DEF States
  <2>2. AgainEntry(w, t) = IF w.tasks[t].classified THEN v ELSE x
    BY <1>3 DEF AgainEntry, Queued
  <2> HIDE DEF v
  <2>3. /\ v \in Good /\ DOMAIN v.tasks = DOMAIN w.tasks /\ v.entries = w.entries
        /\ v.expandQueue = w.expandQueue /\ v.slots = w.slots
    BY <2>1, GoodFields DEF Alike, Restated
  <2>4. ASSUME NEW u \in DOMAIN w.tasks
        PROVE  /\ v.tasks[u].classified = w.tasks[u].classified
               /\ u # t /\ Waits(v, u) => Waits(w, u)
    BY <2>1, <2>3 DEF Alike, Restated, Waits
  <2>5. CASE w.tasks[t].classified
    <3>1. \A u \in DOMAIN w.tasks : Noticed(v, u)
      BY <2>3, <2>4, <2>5 DEF AllNoticed, Noticed
    <3> QED  BY <2>2, <2>3, <2>5, <3>1 DEF AllNoticed
  <2>6. CASE ~w.tasks[t].classified
    <3>1. /\ x \in Good /\ x.tasks = v.tasks /\ x.entries = v.entries /\ x.slots = v.slots
          /\ \E i \in DOMAIN x.expandQueue : x.expandQueue[i] = t
          /\ \A i \in DOMAIN v.expandQueue : i \in DOMAIN x.expandQueue
                                             /\ x.expandQueue[i] = v.expandQueue[i]
      <4>1. v \in Good /\ t \in DOMAIN v.tasks
        BY <2>3
      <4> QED  BY <4>1, AppendToQueue
    <3> HIDE DEF x
    <3>2. \A u \in DOMAIN w.tasks : Noticed(x, u)
      BY <2>3, <2>4, <2>6, <3>1 DEF AllNoticed, Noticed, Waits
    <3> QED  BY <2>2, <2>3, <2>6, <3>1, <3>2 DEF AllNoticed
  <2> QED  BY <2>5, <2>6
<1> QED  BY <1>1, <1>2, <1>3

Ops == {"pause", "resume", "cancel", "retry"}

LEMMA ApplyOpNotices ==
    ASSUME NEW w \in Good, AllNoticed(w), NEW t \in DOMAIN w.tasks, NEW op \in Ops
    PROVE  /\ ApplyOp(w, t, op) \in Good /\ AllNoticed(ApplyOp(w, t, op))
           /\ DOMAIN ApplyOp(w, t, op).tasks = DOMAIN w.tasks
<1>1. ASSUME NEW v \in Calmer(w)
      PROVE  v \in Good /\ AllNoticed(v) /\ DOMAIN v.tasks = DOMAIN w.tasks
  BY CalmerKeeps DEF AllNoticed
<1> QED  BY <1>1, PauseCalms, CancelCalms, AgainNotices DEF ApplyOp, Ops

LEMMA ApplyOpCalms ==
    ASSUME NEW w \in Good, NEW t \in DOMAIN w.tasks, NEW op \in {"pause", "cancel"}
    PROVE  ApplyOp(w, t, op) \in Calmer(w)
BY PauseCalms, CancelCalms DEF ApplyOp

------------------------------------------------------------------------------
(* The scheduler                                                              *)

LEMMA SlotsFinite ==
    /\ IsFiniteSet(Slots) /\ Cardinality(Slots) = GlobalLimit + ExpandLimit
    /\ Slots \subseteq Nat \ {0}
BY LimitsAreNumbers, FS_Interval DEF Slots

LEMMA CountsAreNumbers ==
    ASSUME NEW w
    PROVE  /\ IsFiniteSet(Running(w)) /\ Cardinality(Running(w)) \in Nat
           /\ IsFiniteSet(Expanding(w)) /\ Cardinality(Expanding(w)) \in Nat
           /\ \A s : IsFiniteSet(RunningBySession(w, s))
                     /\ Cardinality(RunningBySession(w, s)) \in Nat
<1>1. Running(w) \in SUBSET Slots /\ Expanding(w) \in SUBSET Slots
  BY DEF Running, Expanding
<1>2. \A s : RunningBySession(w, s) \in SUBSET Slots
  BY DEF Running, RunningBySession
<1> QED  BY <1>1, <1>2, SlotsFinite, FS_Subset, FS_CardinalityType

(* While a limit is not reached there is a slot for one more. *)
LEMMA FreeSlotExists ==
    ASSUME NEW w \in Good,
           \/ Cardinality(Running(w)) < GlobalLimit
           \/ Cardinality(Expanding(w)) < ExpandLimit
    PROVE  \E a \in Slots : w.slots[a].stage = "free"
<1> SUFFICES ASSUME \A a \in Slots : w.slots[a].stage # "free" PROVE FALSE
  OBVIOUS
<1>1. \A a \in Slots : w.slots[a] \in Activity
  BY GoodFields, WorldFields
<1>2. Slots = Running(w) \cup Expanding(w)
  BY <1>1 DEF Running, Expanding, Activity
<1>3. Running(w) \cap Expanding(w) = {}
  BY DEF Running, Expanding, TransferStages, ExpandStages
<1>4. Cardinality(Slots) = Cardinality(Running(w)) + Cardinality(Expanding(w))
                           - Cardinality(Running(w) \cap Expanding(w))
  BY <1>2, CountsAreNumbers, FS_Union
<1>5. Cardinality(Running(w) \cap Expanding(w)) = 0
  BY <1>3, FS_EmptySet
<1>6. Cardinality(Running(w)) <= GlobalLimit /\ Cardinality(Expanding(w)) <= ExpandLimit
  BY DEF Good, Limited
<1> QED  BY <1>4, <1>5, <1>6, SlotsFinite, CountsAreNumbers, LimitsAreNumbers

Occupied(w, a, t, stage) ==
    [w EXCEPT !.slots[a] = [stage |-> stage, task |-> t, signal |-> "none"]]

LEMMA OccupyTakesFree ==
    ASSUME NEW w \in Good, NEW t, NEW stage,
           \/ Cardinality(Running(w)) < GlobalLimit
           \/ Cardinality(Expanding(w)) < ExpandLimit
    PROVE  \E a \in Slots : /\ w.slots[a].stage = "free"
                            /\ Occupy(w, t, stage) = Occupied(w, a, t, stage)
<1> DEFINE S == {b \in Slots : w.slots[b].stage = "free"}
           a == Min(S)
<1>1. S \subseteq Nat /\ S # {}
  BY SlotsFinite, FreeSlotExists
<1>2. a = CHOOSE x \in S : \A y \in S : x <= y
  BY DEF Min
<1>3. a \in S
  <2> HIDE DEF S
  <2>1. \E x \in S : \A y \in S : x <= y
    BY <1>1, Least
  <2> QED  BY <1>2, <2>1
<1>4. Occupy(w, t, stage) = Occupied(w, a, t, stage)
  BY DEF Occupy, Occupied
<1> HIDE DEF a
<1> QED  BY <1>3, <1>4

LEMMA OccupiedFields ==
    ASSUME NEW w \in Good, NEW a \in Slots, w.slots[a].stage = "free",
           NEW t \in DOMAIN w.tasks, NEW stage \in TransferStages \cup ExpandStages,
           NEW v, v = Occupied(w, a, t, stage)
    PROVE  /\ v \in Worlds /\ v.tasks = w.tasks /\ v.entries = w.entries
           /\ v.expandQueue = w.expandQueue
           /\ v.slots[a].stage = stage /\ v.slots[a].task = t
           /\ \A b \in Slots : b # a => v.slots[b] = w.slots[b]
           /\ Linked(v)
<1> DEFINE x == [stage |-> stage, task |-> t, signal |-> "none"]
<1>1. x \in Activity /\ x.stage = stage /\ x.task = t
  BY GoodFields DEF Activity
<1>2. v = [w EXCEPT !.slots[a] = x]
  BY DEF Occupied
<1> HIDE DEF x
<1>3. /\ v \in Worlds /\ v.tasks = w.tasks /\ v.entries = w.entries
      /\ v.expandQueue = w.expandQueue
      /\ v.slots[a] = x /\ \A b \in Slots : b # a => v.slots[b] = w.slots[b]
  BY <1>1, <1>2, GoodFields, SlotChanged
<1>4. Linked(w) /\ \A u \in DOMAIN w.tasks : w.tasks[u].handle # 0 => w.tasks[u].handle \in Slots
  BY GoodFields DEF Entry
<1>5. \A u \in DOMAIN w.tasks : w.tasks[u].handle # a \/ w.tasks[u].handle = 0
  BY <1>4 DEF Linked
<1>6. Linked(v)
  <2>1. ASSUME NEW u \in DOMAIN w.tasks, w.tasks[u].handle # 0
        PROVE  /\ v.slots[w.tasks[u].handle].stage = "work"
               /\ v.slots[w.tasks[u].handle].task = u
    BY <1>3, <1>4, <1>5, <2>1 DEF Linked
  <2>2. \A b \in Slots : v.slots[b].stage # "free" => v.slots[b].task \in DOMAIN w.tasks
    BY <1>1, <1>3, <1>4 DEF Linked
  <2> QED  BY <1>3, <1>4, <2>1, <2>2 DEF Linked
<1> QED  BY <1>1, <1>3, <1>6

(* The worlds the scheduler leads to: more activities, fewer tasks that wait. *)
Pumped(w) ==
    {v \in Good :
        /\ v.entries = w.entries /\ Len(v.tasks) = Len(w.tasks)
        /\ \A a \in Slots : w.slots[a].stage # "free" =>
              v.slots[a].stage = w.slots[a].stage /\ v.slots[a].task = w.slots[a].task
        /\ \A u \in DOMAIN w.tasks :
              /\ v.tasks[u].session = w.tasks[u].session
              /\ v.tasks[u].classified = w.tasks[u].classified
              /\ v.tasks[u].state = "queued" => w.tasks[u].state = "queued"}

LEMMA PumpedHeld ==
    ASSUME NEW w \in Good, NEW v \in Pumped(w)
    PROVE  /\ v \in Good /\ DOMAIN v.tasks = DOMAIN w.tasks
           /\ \A t \in DOMAIN w.tasks : Held(w, t) => Held(v, t)
<1>1. v \in Good /\ DOMAIN v.tasks = DOMAIN w.tasks /\ v.entries = w.entries
  BY GoodFields DEF Pumped
<1>2. \A a \in Running(w) : a \in Slots /\ w.slots[a].stage # "free"
                            /\ w.slots[a].stage \in TransferStages
                            /\ w.slots[a].task \in DOMAIN w.tasks
  BY GoodFields DEF Running, TransferStages, Linked
<1>3. Running(w) \in SUBSET Running(v)
  BY <1>2 DEF Running, Pumped
<1>4. \A s : RunningBySession(w, s) \in SUBSET RunningBySession(v, s)
  BY <1>2, <1>3 DEF RunningBySession, Pumped
<1>5. /\ Cardinality(Running(w)) <= Cardinality(Running(v))
      /\ \A s : Cardinality(RunningBySession(w, s)) <= Cardinality(RunningBySession(v, s))
  BY <1>3, <1>4, CountsAreNumbers, FS_Subset
<1>6. ASSUME NEW t \in DOMAIN w.tasks, Held(w, t) PROVE Held(v, t)
  <2>1. /\ Waits(v, t) => Waits(w, t)
        /\ v.tasks[t].classified = w.tasks[t].classified
        /\ v.tasks[t].session = w.tasks[t].session
    BY <1>1 DEF Pumped, Waits
  <2>2. /\ Cardinality(Running(w)) >= GlobalLimit => Cardinality(Running(v)) >= GlobalLimit
        /\ \A s : Cardinality(RunningBySession(w, s)) >= SessionLimit =>
                  Cardinality(RunningBySession(v, s)) >= SessionLimit
    BY <1>5, CountsAreNumbers, LimitsAreNumbers
  <2> QED  BY <1>6, <2>1, <2>2 DEF Held
<1> QED  BY <1>1, <1>6

LEMMA PumpedTransitive ==
    ASSUME NEW w \in Good, NEW v \in Pumped(w), NEW x \in Pumped(v)
    PROVE  x \in Pumped(w)
<1>1. v \in Good /\ x \in Good /\ DOMAIN v.tasks = DOMAIN w.tasks
  BY GoodFields DEF Pumped
<1> QED  BY <1>1 DEF Pumped

LEMMA CalmerPumped ==
    ASSUME NEW w \in Good, NEW v \in Calmer(w)
    PROVE  v \in Pumped(w)
BY DEF Calmer, Alike, Pumped

LEMMA TransferOccupies ==
    ASSUME NEW w \in Good, NEW t \in DOMAIN w.tasks, NEW stage \in TransferStages,
           Cardinality(Running(w)) < GlobalLimit,
           Cardinality(RunningBySession(w, w.tasks[t].session)) < SessionLimit,
           NEW v, v = Occupy(w, t, stage)
    PROVE  v \in Pumped(w) /\ v.expandQueue = w.expandQueue /\ Expanding(v) = Expanding(w)
<1>1. PICK a \in Slots : w.slots[a].stage = "free" /\ v = Occupied(w, a, t, stage)
  BY OccupyTakesFree
<1>2. /\ v \in Worlds /\ v.tasks = w.tasks /\ v.entries = w.entries
      /\ v.expandQueue = w.expandQueue
      /\ v.slots[a].stage = stage /\ v.slots[a].task = t
      /\ \A b \in Slots : b # a => v.slots[b] = w.slots[b]
      /\ Linked(v)
  BY <1>1, OccupiedFields
<1>3. stage \notin ExpandStages /\ stage # "free"
      /\ w.slots[a].stage \notin ExpandStages \cup TransferStages
  BY <1>1 DEF TransferStages, ExpandStages
<1>4. Expanding(v) = Expanding(w)
  BY <1>2, <1>3 DEF Expanding
<1>5. Running(v) = Running(w) \cup {a} /\ a \notin Running(w)
  BY <1>2, <1>3 DEF Running
<1>6. ASSUME NEW s
      PROVE  RunningBySession(v, s) =
                IF s = w.tasks[t].session THEN RunningBySession(w, s) \cup {a}
                ELSE RunningBySession(w, s)
  <2>1. \A b \in Running(w) : v.slots[b].task = w.slots[b].task
    BY <1>2, <1>5 DEF Running
  <2> QED  BY <1>2, <1>5, <2>1 DEF RunningBySession
<1>7. \A s : a \notin RunningBySession(w, s)
  BY <1>5 DEF RunningBySession
<1>8. Limited(w)
  BY GoodFields
<1>9. Cardinality(Running(v)) <= GlobalLimit
  <2>1. Cardinality(Running(v)) = Cardinality(Running(w)) + 1
    BY <1>5, CountsAreNumbers, FS_AddElement
  <2> QED  BY <2>1, CountsAreNumbers, LimitsAreNumbers
<1>10. ASSUME NEW s \in Sessions PROVE Cardinality(RunningBySession(v, s)) <= SessionLimit
  <2>1. CASE s = w.tasks[t].session
    <3>1. Cardinality(RunningBySession(v, s)) = Cardinality(RunningBySession(w, s)) + 1
      BY <1>6, <1>7, <2>1, CountsAreNumbers, FS_AddElement
    <3> QED  BY <2>1, <3>1, CountsAreNumbers, LimitsAreNumbers
  <2>2. CASE s # w.tasks[t].session
    BY <1>6, <1>8, <2>2 DEF Limited
  <2> QED  BY <2>1, <2>2
<1>11. v \in Good
  BY <1>2, <1>4, <1>8, <1>9, <1>10 DEF Good, Limited
<1>12. \A b \in Slots : w.slots[b].stage # "free" => b # a
  BY <1>1
<1>13. v \in Pumped(w)
  BY <1>2, <1>11, <1>12 DEF Pumped
<1> QED  BY <1>2, <1>4, <1>13

(* What one turn of pump() does. *)
LEMMA StartIfDuePumps ==
    ASSUME NEW w \in Good, NEW t \in DOMAIN w.tasks, NEW v, v = StartIfDue(w, t)
    PROVE  /\ v \in Pumped(w) /\ v.expandQueue = w.expandQueue /\ Expanding(v) = Expanding(w)
           /\ Held(v, t)
<1> DEFINE Due == /\ t \in w.entries
                  /\ w.tasks[t].state = "queued"
                  /\ w.tasks[t].classified
                  /\ Cardinality(Running(w)) < GlobalLimit
                  /\ Cardinality(RunningBySession(w, w.tasks[t].session)) < SessionLimit
<1>1. CASE ~Due
  <2>1. v = w
    BY <1>1 DEF StartIfDue
  <2>2. Held(w, t)
    BY <1>1, CountsAreNumbers, LimitsAreNumbers DEF Held, Waits
  <2> QED  BY <2>1, <2>2, AlikeReflexive, CalmerPumped
<1>2. CASE Due /\ w.tasks[t].session \in open
  <2> DEFINE x == SetState(w, t, "running")
  <2>1. x \in Calmer(w) /\ x \in Restated(w, t, "running")
    BY SetStateAlike DEF States
  <2>2. v = Occupy(x, t, "acquire")
    BY <1>2 DEF StartIfDue, Start
  <2> HIDE DEF x
  <2>3. /\ x \in Good /\ x \in Alike(w) /\ x.expandQueue = w.expandQueue
        /\ DOMAIN x.tasks = DOMAIN w.tasks /\ x.tasks[t].session = w.tasks[t].session
        /\ x.tasks[t].state = "running"
    BY <2>1, CalmerKeeps DEF Calmer, Alike, Restated
  <2>4. /\ Running(x) = Running(w) /\ Expanding(x) = Expanding(w)
        /\ \A s : RunningBySession(x, s) = RunningBySession(w, s)
    BY <2>3, AlikeCounts
  <2>5. "acquire" \in TransferStages
    BY DEF TransferStages
  <2>6. v \in Pumped(x) /\ v.expandQueue = x.expandQueue /\ Expanding(v) = Expanding(x)
    BY <1>2, <2>2, <2>3, <2>4, <2>5, TransferOccupies
  <2>7. v \in Pumped(w)
    BY <2>1, <2>3, <2>6, CalmerPumped, PumpedTransitive
  <2>8. ~Waits(v, t)
    BY <2>3, <2>6 DEF Waits, Pumped
  <2> QED  BY <2>3, <2>4, <2>6, <2>7, <2>8 DEF Held
<1>3. CASE Due /\ w.tasks[t].session \notin open
  <2>1. v = SetState(w, t, "error")
    BY <1>3 DEF StartIfDue, Start
  <2>2. v \in Calmer(w) /\ v \in Restated(w, t, "error")
    BY <2>1, SetStateAlike DEF States
  <2>3. v \in Alike(w)
    BY <2>2 DEF Calmer
  <2>4. v.expandQueue = w.expandQueue /\ Expanding(v) = Expanding(w)
    BY <2>3, AlikeCounts DEF Alike
  <2>5. v.tasks[t].state = "error"
    BY <2>2 DEF Restated
  <2> QED  BY <2>2, <2>4, <2>5, CalmerPumped DEF Held, Waits
<1> QED  BY <1>1, <1>2, <1>3

LEMMA NumbersFields ==
    ASSUME NEW w \in Worlds
    PROVE  /\ Len(Numbers(w)) = Len(w.tasks)
           /\ \A n \in 1 .. Len(w.tasks) : Numbers(w)[n] = n
<1>1. Len(w.tasks) \in Nat /\ DOMAIN w.tasks = 1 .. Len(w.tasks)
  BY WorldFields
<1>2. Numbers(w) = [t \in 1 .. Len(w.tasks) |-> t]
  BY <1>1 DEF Numbers
<1> QED  BY <1>1, <1>2

(* pump() leaves no task waiting that could run, and puts nothing in the queue *)
(* for classification.                                                         *)
LEMMA PumpHolds ==
    ASSUME NEW w \in Good, NEW v, v = Pump(w)
    PROVE  /\ v \in Pumped(w) /\ v.expandQueue = w.expandQueue /\ Expanding(v) = Expanding(w)
           /\ AllHeld(v)
<1> DEFINE N == Len(w.tasks)
           I == [n \in 0 .. N |->
                    {x \in Pumped(w) :
                        /\ x.expandQueue = w.expandQueue /\ Expanding(x) = Expanding(w)
                        /\ \A u \in 1 .. n : Held(x, u)}]
           loop == [do |-> "start"]
<1>1. N \in Nat /\ DOMAIN w.tasks = 1 .. N /\ w \in Worlds
  BY GoodFields
<1>2. Len(Numbers(w)) = N /\ \A n \in 1 .. N : Numbers(w)[n] = n
  BY <1>1, NumbersFields
<1>3. w \in I[0]
  BY <1>1, AlikeReflexive, CalmerPumped
<1>4. ASSUME NEW n \in 1 .. N, NEW x \in I[n - 1] PROVE Body(x, Numbers(w)[n], loop) \in I[n]
  <2>1. /\ x \in Pumped(w) /\ x.expandQueue = w.expandQueue /\ Expanding(x) = Expanding(w)
        /\ \A u \in 1 .. n - 1 : Held(x, u)
    BY <1>1
  <2>2. x \in Good /\ DOMAIN x.tasks = DOMAIN w.tasks
    BY <2>1, PumpedHeld
  <2> DEFINE y == StartIfDue(x, n)
  <2>3. Body(x, Numbers(w)[n], loop) = y
    BY <1>2 DEF Body
  <2> HIDE DEF y
  <2>4. /\ y \in Pumped(x) /\ y.expandQueue = x.expandQueue /\ Expanding(y) = Expanding(x)
        /\ Held(y, n)
    BY <1>1, <2>2, StartIfDuePumps DEF y
  <2>5. y \in Pumped(w)
    BY <2>1, <2>4, PumpedTransitive
  <2>6. ASSUME NEW u \in 1 .. n PROVE Held(y, u)
    <3>1. CASE u = n
      BY <2>4, <3>1
    <3>2. CASE u # n
      <4>1. u \in 1 .. n - 1 /\ u \in DOMAIN x.tasks
        BY <1>1, <2>2, <3>2
      <4> QED  BY <2>1, <2>2, <2>4, <4>1, PumpedHeld
    <3> QED  BY <3>1, <3>2
  <2> QED  BY <1>1, <2>1, <2>3, <2>4, <2>5, <2>6
<1>5. v = Each(w, Numbers(w), loop)
  BY DEF Pump
<1>6. v \in I[N]
  <2> HIDE DEF I, loop, N
  <2> QED  BY <1>1, <1>2, <1>3, <1>4, <1>5, EachKeeps
<1>7. /\ v \in Pumped(w) /\ v.expandQueue = w.expandQueue /\ Expanding(v) = Expanding(w)
      /\ \A u \in 1 .. N : Held(v, u)
  BY <1>1, <1>6
<1>8. DOMAIN v.tasks = 1 .. N
  BY <1>1, <1>7, PumpedHeld
<1> QED  BY <1>7, <1>8 DEF AllHeld

LEMMA PumpKeeps ==
    ASSUME NEW w \in Good, NEW v, v = Pump(w)
    PROVE  /\ v \in Good /\ DOMAIN v.tasks = DOMAIN w.tasks
           /\ AllHeld(v)
           /\ AllNoticed(w) => AllNoticed(v)
           /\ Full(w) => Full(v)
<1>1. /\ v \in Pumped(w) /\ v.expandQueue = w.expandQueue /\ Expanding(v) = Expanding(w)
      /\ AllHeld(v)
  BY PumpHolds
<1>2. v \in Good /\ DOMAIN v.tasks = DOMAIN w.tasks
  BY <1>1, PumpedHeld
<1>3. ASSUME AllNoticed(w), NEW t \in DOMAIN w.tasks PROVE Noticed(v, t)
  <2>1. Noticed(w, t)
    BY <1>3 DEF AllNoticed
  <2>2. /\ Waits(v, t) => Waits(w, t)
        /\ v.tasks[t].classified = w.tasks[t].classified
    BY <1>1 DEF Pumped, Waits
  <2>3. \A a \in Slots : w.slots[a].task = t /\ w.slots[a].stage = "lstat" =>
                         v.slots[a].task = t /\ v.slots[a].stage = "lstat"
    BY <1>1 DEF Pumped
  <2> QED  BY <1>1, <2>1, <2>2, <2>3 DEF Noticed
<1>4. Full(w) => Full(v)
  BY <1>1 DEF Full
<1> QED  BY <1>1, <1>2, <1>3, <1>4 DEF AllNoticed

LEMMA ExpansionOccupies ==
    ASSUME NEW w \in Good, NEW t \in DOMAIN w.tasks,
           Cardinality(Expanding(w)) < ExpandLimit,
           NEW v, v = Occupy(w, t, "lstat")
    PROVE  /\ v \in Pumped(w) /\ v.expandQueue = w.expandQueue /\ v.tasks = w.tasks
           /\ \E a \in Slots : v.slots[a].task = t /\ v.slots[a].stage = "lstat"
<1>1. PICK a \in Slots : w.slots[a].stage = "free" /\ v = Occupied(w, a, t, "lstat")
  BY OccupyTakesFree
<1>2. /\ v \in Worlds /\ v.tasks = w.tasks /\ v.entries = w.entries
      /\ v.expandQueue = w.expandQueue
      /\ v.slots[a].stage = "lstat" /\ v.slots[a].task = t
      /\ \A b \in Slots : b # a => v.slots[b] = w.slots[b]
      /\ Linked(v)
  BY <1>1, OccupiedFields DEF ExpandStages
<1>3. w.slots[a].stage \notin ExpandStages \cup TransferStages /\ "lstat" \notin TransferStages
      /\ "lstat" \in ExpandStages
  BY <1>1 DEF TransferStages, ExpandStages
<1>4. Running(v) = Running(w)
  BY <1>2, <1>3 DEF Running
<1>5. Expanding(v) = Expanding(w) \cup {a} /\ a \notin Expanding(w)
  BY <1>2, <1>3 DEF Expanding
<1>6. ASSUME NEW s PROVE RunningBySession(v, s) = RunningBySession(w, s)
  <2>1. \A b \in Running(w) : b # a /\ b \in Slots
    BY <1>3 DEF Running
  <2> QED  BY <1>2, <1>4, <2>1 DEF RunningBySession
<1>7. Cardinality(Expanding(v)) <= ExpandLimit
  <2>1. Cardinality(Expanding(v)) = Cardinality(Expanding(w)) + 1
    BY <1>5, CountsAreNumbers, FS_AddElement
  <2> QED  BY <2>1, CountsAreNumbers, LimitsAreNumbers
<1>8. Limited(w)
  BY GoodFields
<1>9. v \in Good
  BY <1>2, <1>4, <1>6, <1>7, <1>8 DEF Good, Limited
<1>10. \A b \in Slots : w.slots[b].stage # "free" => b # a
  BY <1>1
<1>11. v \in Pumped(w)
  BY <1>2, <1>9, <1>10 DEF Pumped
<1> QED  BY <1>2, <1>11

Dequeued(w) == [w EXCEPT !.expandQueue = Tail(@)]

LEMMA DequeuedFields ==
    ASSUME NEW w \in Good, Len(w.expandQueue) > 0, NEW v, v = Dequeued(w)
    PROVE  /\ v \in Good /\ v.tasks = w.tasks /\ v.entries = w.entries /\ v.slots = w.slots
           /\ Len(v.expandQueue) = Len(w.expandQueue) - 1
           /\ \A i \in 1 .. Len(w.expandQueue) - 1 : v.expandQueue[i] = w.expandQueue[i + 1]
<1> DEFINE q == Tail(w.expandQueue)
<1>1. w \in Worlds /\ w.expandQueue \in Seq(Nat) /\ Linked(w) /\ Limited(w)
      /\ Len(w.expandQueue) \in Nat
  BY GoodFields, WorldFields
<1>2. /\ q \in Seq(Nat) /\ Len(q) = Len(w.expandQueue) - 1
      /\ \A i \in 1 .. Len(w.expandQueue) - 1 : q[i] = w.expandQueue[i + 1]
      /\ DOMAIN q = 1 .. Len(w.expandQueue) - 1
  BY <1>1
<1>3. v = [w EXCEPT !.expandQueue = q]
  BY DEF Dequeued
<1> HIDE DEF q
<1>4. /\ v \in Worlds /\ v.tasks = w.tasks /\ v.entries = w.entries /\ v.slots = w.slots
      /\ v.expandQueue = q
  BY <1>1, <1>2, <1>3 DEF Worlds
<1>5. Linked(v)
  <2>1. \A i \in 1 .. Len(w.expandQueue) - 1 : i + 1 \in DOMAIN w.expandQueue
    BY <1>1
  <2>2. \A i \in DOMAIN q : q[i] \in DOMAIN w.tasks
    BY <1>1, <1>2, <2>1 DEF Linked
  <2> QED  BY <1>1, <1>4, <2>2 DEF Linked
<1>6. Limited(v)
  BY <1>1, <1>4 DEF Limited, Running, Expanding, RunningBySession
<1> QED  BY <1>2, <1>4, <1>5, <1>6 DEF Good

(* What one turn of pumpExpand() does with the head of the queue. *)
LEMMA ExpandIfDuePumps ==
    ASSUME NEW w \in Good, AllNoticed(w), Cardinality(Expanding(w)) < ExpandLimit,
           Len(w.expandQueue) > 0, NEW v, v = ExpandIfDue(w, w.expandQueue[1])
    PROVE  /\ v \in Pumped(w) /\ AllNoticed(v) /\ v.tasks = w.tasks
           /\ Len(v.expandQueue) = Len(w.expandQueue) - 1
           /\ \A i \in 1 .. Len(w.expandQueue) - 1 : v.expandQueue[i] = w.expandQueue[i + 1]
<1> DEFINE x == Dequeued(w)
           t == w.expandQueue[1]
<1>1. /\ x \in Good /\ x.tasks = w.tasks /\ x.entries = w.entries /\ x.slots = w.slots
      /\ Len(x.expandQueue) = Len(w.expandQueue) - 1
      /\ \A i \in 1 .. Len(w.expandQueue) - 1 : x.expandQueue[i] = w.expandQueue[i + 1]
  BY DequeuedFields
<1>2. v = IF t \in w.entries /\ w.tasks[t].state = "queued" THEN Occupy(x, t, "lstat") ELSE x
  BY CountsAreNumbers, LimitsAreNumbers DEF ExpandIfDue, Dequeued
<1> HIDE DEF x, t
<1>3. x \in Pumped(w)
  BY <1>1 DEF Pumped
<1>4. Expanding(x) = Expanding(w)
  BY <1>1 DEF Expanding
<1>5. w.expandQueue \in Seq(Nat) /\ Len(w.expandQueue) \in Nat /\ 1 \in DOMAIN w.expandQueue
      /\ x.expandQueue \in Seq(Nat)
  BY <1>1, GoodFields, WorldFields
<1>6. t \in DOMAIN w.tasks
  BY <1>5, GoodFields DEF Linked, t
<1>7. ASSUME NEW u \in DOMAIN w.tasks, Waits(w, u), ~w.tasks[u].classified, u # t
      PROVE  Noticed(x, u)
  <2>1. Noticed(w, u)
    BY DEF AllNoticed
  <2>2. CASE \E a \in Slots : w.slots[a].task = u /\ w.slots[a].stage = "lstat"
    BY <1>1, <2>2 DEF Noticed
  <2>3. CASE \E i \in DOMAIN w.expandQueue : w.expandQueue[i] = u
    <3>1. PICK i \in DOMAIN w.expandQueue : w.expandQueue[i] = u
      BY <2>3
    <3>2. i \in 1 .. Len(w.expandQueue) /\ i # 1
      BY <1>5, <1>7, <3>1 DEF t
    <3>3. i - 1 \in 1 .. Len(w.expandQueue) - 1 /\ (i - 1) + 1 = i
      BY <1>5, <3>2
    <3> DEFINE j == i - 1
    <3>4. j \in 1 .. Len(w.expandQueue) - 1 /\ w.expandQueue[j + 1] = u
      BY <3>1, <3>3
    <3> HIDE DEF j
    <3>5. x.expandQueue[j] = u
      BY <1>1, <3>4
    <3>6. j \in DOMAIN x.expandQueue
      BY <1>1, <1>5, <3>4
    <3> QED  BY <3>5, <3>6 DEF Noticed
  <2> QED  BY <1>7, <2>1, <2>2, <2>3 DEF Noticed
<1>8. CASE ~(t \in w.entries /\ w.tasks[t].state = "queued")
  <2>1. \A u \in DOMAIN x.tasks : Noticed(x, u)
    <3>1. ASSUME NEW u \in DOMAIN x.tasks PROVE Noticed(x, u)
      <4>1. ~Waits(x, t)
        BY <1>1, <1>8 DEF Waits
      <4>2. Waits(x, u) <=> Waits(w, u)
        BY <1>1 DEF Waits
      <4> QED  BY <1>1, <1>7, <4>1, <4>2 DEF Noticed
    <3> QED  BY <3>1
  <2> QED  BY <1>1, <1>2, <1>3, <1>8, <2>1 DEF AllNoticed
<1>9. CASE t \in w.entries /\ w.tasks[t].state = "queued"
  <2>1. v = Occupy(x, t, "lstat")
    BY <1>2, <1>9
  <2>2. /\ v \in Pumped(x) /\ v.expandQueue = x.expandQueue /\ v.tasks = x.tasks
        /\ \E a \in Slots : v.slots[a].task = t /\ v.slots[a].stage = "lstat"
    BY <1>1, <1>4, <1>6, <2>1, ExpansionOccupies
  <2>3. v \in Pumped(w)
    BY <1>3, <2>2, PumpedTransitive
  <2>4. ASSUME NEW u \in DOMAIN w.tasks PROVE Noticed(v, u)
    <3>1. CASE u = t
      BY <2>2, <3>1 DEF Noticed
    <3>2. CASE u # t
      <4>1. v.entries = w.entries /\ v.tasks = w.tasks
        BY <1>1, <2>2, <2>3 DEF Pumped
      <4>2. Waits(v, u) <=> Waits(w, u)
        BY <4>1 DEF Waits
      <4>3. \A a \in Slots : x.slots[a].task = u /\ x.slots[a].stage = "lstat" =>
                             v.slots[a].task = u /\ v.slots[a].stage = "lstat"
        BY <2>2 DEF Pumped
      <4>4. Waits(x, u) <=> Waits(w, u)
        BY <1>1 DEF Waits
      <4> QED  BY <1>1, <1>7, <2>2, <3>2, <4>1, <4>2, <4>3, <4>4 DEF Noticed
    <3> QED  BY <3>1, <3>2
  <2> QED  BY <1>1, <2>2, <2>3, <2>4 DEF AllNoticed
<1> QED  BY <1>8, <1>9

(* pumpExpand() empties the queue for classification, or reaches the limit. *)
LEMMA PumpExpandHolds ==
    ASSUME NEW w \in Good, AllNoticed(w), NEW v, v = PumpExpand(w)
    PROVE  v \in Pumped(w) /\ AllNoticed(v) /\ Full(v) /\ v.tasks = w.tasks
<1> DEFINE q == w.expandQueue
           L == Len(q)
           I == [n \in 0 .. L |->
                    {x \in Pumped(w) :
                        /\ AllNoticed(x) /\ x.tasks = w.tasks
                        /\ \/ Cardinality(Expanding(x)) >= ExpandLimit
                           \/ /\ Len(x.expandQueue) = L - n
                              /\ \A i \in 1 .. L - n : x.expandQueue[i] = q[i + n]}]
           loop == [do |-> "expand"]
<1>1. q \in Seq(Nat) /\ L \in Nat
  BY GoodFields, WorldFields
<1>2. w \in I[0]
  BY <1>1, AlikeReflexive, CalmerPumped
<1>3. ASSUME NEW n \in 1 .. L, NEW x \in I[n - 1] PROVE Body(x, q[n], loop) \in I[n]
  <2>1. /\ x \in Pumped(w) /\ AllNoticed(x) /\ x.tasks = w.tasks
        /\ \/ Cardinality(Expanding(x)) >= ExpandLimit
           \/ /\ Len(x.expandQueue) = L - (n - 1)
              /\ \A i \in 1 .. L - (n - 1) : x.expandQueue[i] = q[i + (n - 1)]
    <3>1. n - 1 \in 0 .. L
      BY <1>1
    <3> DEFINE k == n - 1
    <3> HIDE DEF k
    <3>2. k \in 0 .. L /\ x \in I[k]
      BY <3>1 DEF k
    <3>3. /\ x \in Pumped(w) /\ AllNoticed(x) /\ x.tasks = w.tasks
          /\ \/ Cardinality(Expanding(x)) >= ExpandLimit
             \/ /\ Len(x.expandQueue) = L - k
                /\ \A i \in 1 .. L - k : x.expandQueue[i] = q[i + k]
      <4> HIDE DEF q, L
      <4> QED  BY <3>2
    <3> HIDE DEF q, L, I
    <3> QED  BY <3>3 DEF k
  <2>2. x \in Good
    BY <2>1, PumpedHeld
  <2> DEFINE y == ExpandIfDue(x, q[n])
  <2>3. Body(x, q[n], loop) = y
    BY DEF Body
  <2>4. CASE Cardinality(Expanding(x)) >= ExpandLimit
    <3>1. y = x
      BY <2>4 DEF ExpandIfDue
    <3> QED  BY <1>1, <2>1, <2>3, <2>4, <3>1
  <2>5. CASE ~(Cardinality(Expanding(x)) >= ExpandLimit)
    <3>1. /\ Len(x.expandQueue) = L - (n - 1)
          /\ \A i \in 1 .. L - (n - 1) : x.expandQueue[i] = q[i + (n - 1)]
      BY <2>1, <2>5
    <3>2. x.expandQueue[1] = q[n] /\ Len(x.expandQueue) > 0
      BY <1>1, <3>1
    <3>3. Cardinality(Expanding(x)) < ExpandLimit
      BY <2>5, CountsAreNumbers, LimitsAreNumbers
    <3>4. y = ExpandIfDue(x, x.expandQueue[1])
      BY <3>2
    <3> HIDE DEF y, q, L
    <3>5. /\ y \in Pumped(x) /\ AllNoticed(y) /\ y.tasks = x.tasks
          /\ Len(y.expandQueue) = Len(x.expandQueue) - 1
          /\ \A i \in 1 .. Len(x.expandQueue) - 1 : y.expandQueue[i] = x.expandQueue[i + 1]
      BY <2>1, <2>2, <3>2, <3>3, <3>4, ExpandIfDuePumps
    <3>6. Len(y.expandQueue) = L - n
      BY <1>1, <3>1, <3>5
    <3>7. ASSUME NEW i \in 1 .. L - n PROVE y.expandQueue[i] = q[i + n]
      <4>1. i \in 1 .. Len(x.expandQueue) - 1 /\ i + 1 \in 1 .. L - (n - 1)
            /\ (i + 1) + (n - 1) = i + n
        BY <1>1, <3>1
      <4> QED  BY <3>1, <3>5, <4>1
    <3>8. y \in Pumped(w) /\ y.tasks = w.tasks
      BY <2>1, <3>5, PumpedTransitive
    <3> QED  BY <1>1, <2>3, <3>5, <3>6, <3>7, <3>8
  <2> QED  BY <2>4, <2>5
<1>4. v = Each(w, q, loop)
  BY DEF PumpExpand
<1>5. v \in I[L]
  <2> HIDE DEF I, loop, q
  <2> QED  BY <1>1, <1>2, <1>3, <1>4, EachKeeps
<1>6. /\ v \in Pumped(w) /\ AllNoticed(v) /\ v.tasks = w.tasks
      /\ \/ Cardinality(Expanding(v)) >= ExpandLimit
         \/ Len(v.expandQueue) = L - L
  BY <1>1, <1>5
<1>7. v.expandQueue \in Seq(Nat)
  BY <1>6, PumpedHeld, GoodFields, WorldFields
<1>8. Full(v)
  BY <1>1, <1>6, <1>7 DEF Full
<1> QED  BY <1>6, <1>8

(* Both, in the order every caller has them. *)
LEMMA PumpBothHolds ==
    ASSUME NEW w \in Good, AllNoticed(w), NEW v, v = Pump(PumpExpand(w))
    PROVE  v \in Pumped(w) /\ AllHeld(v) /\ AllNoticed(v) /\ Full(v)
<1> DEFINE x == PumpExpand(w)
<1>1. x \in Pumped(w) /\ AllNoticed(x) /\ Full(x)
  BY PumpExpandHolds
<1>2. v = Pump(x)
  OBVIOUS
<1> HIDE DEF x
<1>3. x \in Good
  BY <1>1, PumpedHeld
<1> QED  BY <1>1, <1>2, <1>3, PumpHolds, PumpKeeps, PumpedTransitive

------------------------------------------------------------------------------
(* enqueue()                                                                  *)

Items ==
    [kind : {"upload", "download"}, shape : Shapes, session : Sessions, parent : Nat,
     skipExisting : BOOLEAN]

(* The worlds a step leads to while it lasts: nothing that is under way ends. *)
Later(w) ==
    {v \in Good :
        /\ Len(w.tasks) <= Len(v.tasks) /\ w.entries \subseteq v.entries
        /\ \A a \in Slots : w.slots[a].stage # "free" =>
              v.slots[a].stage = w.slots[a].stage /\ v.slots[a].task = w.slots[a].task}

LEMMA LaterTransitive ==
    ASSUME NEW w \in Good, NEW v \in Later(w), NEW x \in Later(v)
    PROVE  x \in Later(w)
<1>1. v \in Good /\ x \in Good /\ Len(w.tasks) \in Nat /\ Len(v.tasks) \in Nat /\ Len(x.tasks) \in Nat
  BY GoodFields DEF Later
<1>2. \A a \in Slots : w.slots[a].stage # "free" =>
              x.slots[a].stage = w.slots[a].stage /\ x.slots[a].task = w.slots[a].task
  BY DEF Later
<1> QED  BY <1>1, <1>2 DEF Later

LEMMA PumpedLater ==
    ASSUME NEW w \in Good, NEW v \in Pumped(w)
    PROVE  v \in Later(w)
<1>1. Len(w.tasks) \in Nat /\ v \in Good
  BY GoodFields DEF Pumped
<1> QED  BY <1>1 DEF Pumped, Later

LEMMA ChildrenFinite ==
    ASSUME NEW w \in Good, NEW t \in DOMAIN w.tasks
    PROVE  IsFiniteSet(w.tasks[t].children) /\ Cardinality(w.tasks[t].children) \in Nat
<1>1. t + 1 \in Int /\ Len(w.tasks) \in Int /\ w.tasks[t].children \in SUBSET (t + 1 .. Len(w.tasks))
  BY GoodFields DEF Linked
<1> QED  BY <1>1, FS_Interval, FS_Subset, FS_CardinalityType

LEMMA NewEntryFields ==
    ASSUME NEW item \in Items
    PROVE  LET e == NewEntry(item)
           IN  /\ e \in Entry /\ e.parent = item.parent /\ e.children = {} /\ e.childTotal = 0
               /\ e.handle = 0 /\ e.session = item.session
               /\ (e.classified <=> item.kind = "download")
               /\ (item.skipExisting => e.state = "skipped")
               /\ (~item.skipExisting => e.state = "queued")
<1>1. item.kind \in {"upload", "download"} /\ item.shape \in Shapes /\ item.session \in Sessions
      /\ item.parent \in Nat /\ item.skipExisting \in BOOLEAN
  BY DEF Items
<1>2. (item.kind = "download") \in BOOLEAN
  OBVIOUS
<1>3. (IF item.skipExisting THEN "skipped" ELSE "queued") \in States
  BY DEF States
<1> QED  BY <1>1, <1>2, <1>3 DEF NewEntry, Entry

LEMMA WithChildFields ==
    ASSUME NEW e \in Entry, NEW t \in Nat
    PROVE  LET x == WithChild(e, t)
           IN  /\ x \in Entry /\ x.children = e.children \cup {t} /\ x.childTotal = e.childTotal + 1
               /\ x.parent = e.parent /\ x.handle = e.handle /\ x.session = e.session
               /\ x.classified = e.classified /\ x.state = e.state
               /\ x.isGroup = e.isGroup
<1> DEFINE cs == e.children \cup {t}
           k == e.childTotal + 1
           x == [[e EXCEPT !.children = cs] EXCEPT !.childTotal = k]
<1>1. cs \in SUBSET Nat /\ k \in Nat
  BY DEF Entry
<1>2. WithChild(e, t) = x
  BY DEF WithChild, Entry
<1> HIDE DEF cs, k
<1>3. /\ x \in Entry /\ x.children = cs /\ x.childTotal = k
      /\ x.parent = e.parent /\ x.handle = e.handle /\ x.session = e.session
      /\ x.state = e.state
  BY <1>1 DEF Entry
<1>4. x.classified = e.classified /\ x.isGroup = e.isGroup
  BY <1>1 DEF Entry
<1> HIDE DEF x
<1> QED  BY <1>2, <1>3, <1>4 DEF cs, k

LEMMA ListsAreSequences ==
    ASSUME NEW S, NEW n \in Nat, NEW f \in [1 .. n -> S]
    PROVE  f \in Seq(S) /\ Len(f) = n
OBVIOUS

LEMMA TasksWithFields ==
    ASSUME NEW w \in Good, NEW item \in Items, item.parent \in w.entries \cup {0},
           NEW ts, ts = TasksWith(w, item), NEW t, t = Len(w.tasks) + 1
    PROVE  /\ ts \in Seq(Entry) /\ Len(ts) = t /\ DOMAIN ts = 1 .. t
           /\ ts[t] = NewEntry(item)
           /\ \A u \in DOMAIN w.tasks : u # item.parent => ts[u] = w.tasks[u]
           /\ \A u \in DOMAIN w.tasks : u = item.parent => ts[u] = WithChild(w.tasks[u], t)
<1>1. /\ w.tasks \in Seq(Entry) /\ Len(w.tasks) \in Nat /\ DOMAIN w.tasks = 1 .. Len(w.tasks)
      /\ \A u \in DOMAIN w.tasks : w.tasks[u] \in Entry
      /\ w.entries \subseteq DOMAIN w.tasks
  BY GoodFields, WorldFields
<1>2. NewEntry(item) \in Entry
  BY NewEntryFields
<1> DEFINE as == Append(w.tasks, NewEntry(item))
<1>3. /\ as \in Seq(Entry) /\ Len(as) = t /\ DOMAIN as = 1 .. t /\ as[t] = NewEntry(item)
      /\ \A u \in DOMAIN w.tasks : u \in 1 .. t /\ u # t /\ as[u] = w.tasks[u]
  BY <1>1, <1>2
<1> HIDE DEF as
<1>4. CASE item.parent = 0
  <2>1. ts = as
    BY <1>4 DEF TasksWith, as
  <2>2. \A u \in DOMAIN w.tasks : u # 0
    BY <1>1
  <2> QED  BY <1>3, <1>4, <2>1, <2>2
<1>5. CASE item.parent # 0
  <2> DEFINE p == item.parent
  <2>1. p \in DOMAIN w.tasks
    BY <1>1, <1>5
  <2>2. ts = [as EXCEPT ![p] = WithChild(as[p], t)]
    BY <1>5 DEF TasksWith, as
  <2> HIDE DEF p
  <2>3. p \in 1 .. t /\ p # t /\ as[p] = w.tasks[p]
    BY <1>3, <2>1
  <2>4. w.tasks[p] \in Entry /\ t \in Nat
    BY <1>1, <2>1
  <2> DEFINE e == WithChild(as[p], t)
  <2>5. e \in Entry /\ e = WithChild(w.tasks[p], t)
    BY <2>3, <2>4, WithChildFields
  <2> HIDE DEF e
  <2> DEFINE us == [as EXCEPT ![p] = e]
  <2>6. ts = us
    BY <2>2 DEF e
  <2>7. ts \in Seq(Entry) /\ Len(ts) = t /\ DOMAIN ts = 1 .. t
    <3>1. us \in Seq(Entry) /\ Len(us) = t
      <4>1. as \in Seq(Entry) /\ p \in 1 .. Len(as) /\ e \in Entry /\ Len(as) = t
        BY <1>3, <2>3, <2>5
      <4>2. as \in [1 .. t -> Entry] /\ p \in 1 .. t
        BY ONLY <4>1, LenProperties
      <4>3. us \in [1 .. t -> Entry]
        BY ONLY <4>1, <4>2
      <4> HIDE DEF us
      <4> QED  BY ONLY <2>4, <4>3, ListsAreSequences
    <3>2. DOMAIN us = 1 .. t
      BY <1>3
    <3> HIDE DEF us
    <3> QED  BY <2>6, <3>1, <3>2
  <2>8. ts[t] = NewEntry(item)
    <3>1. t \in 1 .. t /\ t # p
      BY <1>1, <2>3
    <3>2. us[t] = as[t]
      BY <1>3, <3>1
    <3> HIDE DEF us
    <3> QED  BY <1>3, <2>6, <3>2
  <2>9. ts[p] = WithChild(w.tasks[p], t) /\ \A u \in DOMAIN w.tasks : u # p => ts[u] = w.tasks[u]
    BY <1>3, <2>1, <2>3, <2>5, <2>6
  <2> QED  BY <2>7, <2>8, <2>9 DEF p
<1> QED  BY <1>4, <1>5

LEMMA AddTaskFields ==
    ASSUME NEW w \in Good, NEW item \in Items, item.parent \in w.entries \cup {0},
           NEW v, v = AddTask(w, item), NEW t, t = Len(w.tasks) + 1
    PROVE  /\ v \in Worlds /\ v.tasks = TasksWith(w, item) /\ v.entries = w.entries \cup {t}
           /\ v.slots = w.slots
           /\ v.expandQueue = IF item.kind = "download" \/ item.skipExisting THEN w.expandQueue
                              ELSE Append(w.expandQueue, t)
<1> DEFINE q == IF item.kind = "download" \/ item.skipExisting THEN w.expandQueue
                ELSE Append(w.expandQueue, t)
           es == w.entries \cup {t}
           ts == TasksWith(w, item)
<1>1. w \in Worlds /\ w.expandQueue \in Seq(Nat) /\ w.entries \subseteq Nat /\ t \in Nat
  BY GoodFields, WorldFields
<1>2. q \in Seq(Nat) /\ es \in SUBSET Nat
  BY <1>1
<1>3. ts \in Seq(Entry)
  BY TasksWithFields
<1>4. v = [w EXCEPT !.tasks = ts, !.entries = es, !.expandQueue = q]
  BY DEF AddTask
<1> HIDE DEF q, es, ts
<1>5. v \in Worlds /\ v.tasks = ts /\ v.entries = es /\ v.expandQueue = q /\ v.slots = w.slots
  BY <1>1, <1>2, <1>3, <1>4 DEF Worlds
<1> QED  BY <1>5 DEF q, es, ts

LEMMA AddTaskKeeps ==
    ASSUME NEW w \in Good, NEW item \in Items, item.parent \in w.entries \cup {0},
           NEW v, v = AddTask(w, item)
    PROVE  /\ v \in Good /\ v \in Later(w) /\ w.entries \subseteq v.entries
           /\ AllNoticed(w) => AllNoticed(v)
           /\ Len(v.tasks) = Len(w.tasks) + 1
           /\ \A u \in DOMAIN w.tasks : v.tasks[u].state = w.tasks[u].state
<1> DEFINE t == Len(w.tasks) + 1
           p == item.parent
           N == Len(w.tasks)
<1>1. /\ v \in Worlds /\ v.tasks = TasksWith(w, item) /\ v.entries = w.entries \cup {t}
      /\ v.slots = w.slots
      /\ v.expandQueue = IF item.kind = "download" \/ item.skipExisting THEN w.expandQueue
                         ELSE Append(w.expandQueue, t)
  BY AddTaskFields
<1>2. /\ Len(v.tasks) = t /\ DOMAIN v.tasks = 1 .. t
      /\ v.tasks[t] = NewEntry(item)
      /\ \A u \in DOMAIN w.tasks : u # p => v.tasks[u] = w.tasks[u]
      /\ \A u \in DOMAIN w.tasks : u = p => v.tasks[u] = WithChild(w.tasks[u], t)
  BY <1>1, TasksWithFields
<1>3. /\ w \in Worlds /\ Linked(w) /\ Limited(w) /\ DOMAIN w.tasks = 1 .. N /\ N \in Nat
      /\ \A u \in DOMAIN w.tasks : w.tasks[u] \in Entry
      /\ w.entries \subseteq DOMAIN w.tasks /\ w.expandQueue \in Seq(Nat)
  BY GoodFields, WorldFields
<1>4. /\ v.tasks[t].parent = p /\ v.tasks[t].children = {} /\ v.tasks[t].childTotal = 0
      /\ v.tasks[t].handle = 0
      /\ (v.tasks[t].classified <=> item.kind = "download")
      /\ (item.skipExisting => v.tasks[t].state = "skipped")
  BY <1>2, NewEntryFields
<1>5. ASSUME NEW u \in DOMAIN w.tasks
      PROVE  /\ v.tasks[u].parent = w.tasks[u].parent /\ v.tasks[u].handle = w.tasks[u].handle
             /\ v.tasks[u].session = w.tasks[u].session /\ v.tasks[u].state = w.tasks[u].state
             /\ v.tasks[u].classified = w.tasks[u].classified
             /\ v.tasks[u].children = IF u = p THEN w.tasks[u].children \cup {t}
                                      ELSE w.tasks[u].children
             /\ v.tasks[u].childTotal = IF u = p THEN w.tasks[u].childTotal + 1
                                        ELSE w.tasks[u].childTotal
  <2>1. CASE u = p
    <3>1. v.tasks[u] = WithChild(w.tasks[u], t) /\ w.tasks[u] \in Entry /\ t \in Nat
      BY <1>2, <1>3, <2>1
    <3> QED  BY <2>1, <3>1, WithChildFields
  <2>2. CASE u # p
    BY <1>2, <2>2
  <2> QED  BY <2>1, <2>2
<1>6. \A a \in Slots : w.slots[a].stage # "free" => w.slots[a].task \in DOMAIN w.tasks
  BY <1>3 DEF Linked
<1> HIDE DEF t, N, p
<1>7. t = N + 1 /\ DOMAIN v.tasks = DOMAIN w.tasks \cup {t} /\ t \notin DOMAIN w.tasks
      /\ p \in w.entries \cup {0} /\ p < t /\ t \in Nat
  BY <1>2, <1>3 DEF t, N, p
<1>8. Linked(v)
  <2>1. ASSUME NEW u \in DOMAIN w.tasks
        PROVE  /\ v.tasks[u].children \subseteq u + 1 .. t
               /\ v.tasks[u].parent < u
               /\ v.tasks[u].childTotal = Cardinality(v.tasks[u].children)
               /\ v.tasks[u].handle # 0 =>
                    /\ v.slots[v.tasks[u].handle].stage = "work"
                    /\ v.slots[v.tasks[u].handle].task = u
    <3>1. /\ w.tasks[u].children \subseteq u + 1 .. N /\ w.tasks[u].parent < u
          /\ w.tasks[u].childTotal = Cardinality(w.tasks[u].children)
          /\ w.tasks[u].handle # 0 =>
                    /\ w.slots[w.tasks[u].handle].stage = "work"
                    /\ w.slots[w.tasks[u].handle].task = u
      BY <1>3 DEF Linked, N
    <3>2. u \in Nat /\ u < t /\ t \notin w.tasks[u].children
      BY <1>3, <1>7, <3>1
    <3>3. v.tasks[u].children \subseteq u + 1 .. t
      <4>1. u + 1 .. N \subseteq u + 1 .. t /\ t \in u + 1 .. t
        BY <1>3, <1>7, <3>2
      <4>2. v.tasks[u].children \subseteq w.tasks[u].children \cup {t}
        BY <1>5
      <4> QED  BY <3>1, <4>1, <4>2
    <3>4. Cardinality(w.tasks[u].children \cup {t}) = Cardinality(w.tasks[u].children) + 1
      BY <3>2, ChildrenFinite, FS_AddElement
    <3> QED  BY <1>1, <1>5, <3>1, <3>3, <3>4
  <2>2. ASSUME NEW u \in v.entries, NEW c \in v.tasks[u].children
        PROVE  v.tasks[c].parent = u
    <3>1. CASE u = t
      BY <1>4, <3>1
    <3>2. CASE u # t /\ c = t
      <4>1. u \in w.entries /\ u \in DOMAIN w.tasks
        BY <1>1, <1>3, <3>2
      <4>2. w.tasks[u].children \subseteq u + 1 .. N
        BY <1>3, <4>1 DEF Linked, N
      <4>3. u = p
        <5>1. t \notin w.tasks[u].children
          BY <1>3, <1>7, <4>2
        <5>2. t \in v.tasks[u].children
          BY <3>2
        <5> QED  BY <1>5, <4>1, <5>1, <5>2
      <4> QED  BY <1>4, <3>2, <4>3
    <3>3. CASE u # t /\ c # t
      <4>1. u \in w.entries /\ u \in DOMAIN w.tasks
        BY <1>1, <1>3, <3>3
      <4>2. c \in w.tasks[u].children
        BY <1>5, <3>3, <4>1
      <4>3. c \in DOMAIN w.tasks /\ w.tasks[c].parent = u
        BY <1>3, <4>1, <4>2 DEF Linked, N
      <4> QED  BY <1>5, <4>3
    <3> QED  BY <3>1, <3>2, <3>3
  <2>3. \A i \in DOMAIN v.expandQueue : v.expandQueue[i] \in DOMAIN v.tasks
    <3>1. \A i \in DOMAIN w.expandQueue : w.expandQueue[i] \in DOMAIN w.tasks
      BY <1>3 DEF Linked
    <3>2. CASE v.expandQueue = w.expandQueue
      BY <1>7, <3>1, <3>2
    <3>3. CASE v.expandQueue = Append(w.expandQueue, t)
      <4>1. \A i \in DOMAIN v.expandQueue :
                \/ v.expandQueue[i] = t
                \/ i \in DOMAIN w.expandQueue /\ v.expandQueue[i] = w.expandQueue[i]
        <5> DEFINE q == w.expandQueue
        <5>1. q \in Seq(Nat) /\ t \in Nat
          BY <1>3, <1>7
        <5> HIDE DEF q
        <5>2. \A i \in DOMAIN Append(q, t) :
                Append(q, t)[i] = t \/ (i \in DOMAIN q /\ Append(q, t)[i] = q[i])
          BY <5>1
        <5> QED  BY <3>3, <5>2 DEF q
      <4> QED  BY <1>7, <3>1, <4>1
    <3> QED  BY <1>1, <3>2, <3>3
  <2>4. /\ v.tasks[t].children \subseteq t + 1 .. t /\ v.tasks[t].parent < t
        /\ v.tasks[t].childTotal = Cardinality(v.tasks[t].children) /\ v.tasks[t].handle = 0
    BY <1>4, <1>7, FS_EmptySet
  <2>5. Len(v.tasks) = t
    BY <1>2 DEF t
  <2>6. v.entries \subseteq DOMAIN v.tasks
    BY <1>1, <1>3, <1>7 DEF t
  <2>7. \A a \in Slots : v.slots[a].stage # "free" => v.slots[a].task \in DOMAIN v.tasks
    BY <1>1, <1>6, <1>7
  <2>8. ASSUME NEW u \in DOMAIN v.tasks
        PROVE  /\ v.tasks[u].children \subseteq u + 1 .. Len(v.tasks)
               /\ v.tasks[u].parent < u
               /\ v.tasks[u].childTotal = Cardinality(v.tasks[u].children)
               /\ v.tasks[u].handle # 0 =>
                    /\ v.slots[v.tasks[u].handle].stage = "work"
                    /\ v.slots[v.tasks[u].handle].task = u
    BY <1>7, <2>1, <2>4, <2>5
  <2> QED  BY <2>2, <2>3, <2>6, <2>7, <2>8 DEF Linked
<1>9. Limited(v)
  <2>1. /\ Running(v) = Running(w) /\ Expanding(v) = Expanding(w)
        /\ \A s : RunningBySession(v, s) = RunningBySession(w, s)
    <3>1. \A a \in Slots : w.slots[a].stage # "free" =>
                v.tasks[w.slots[a].task].session = w.tasks[w.slots[a].task].session
      BY <1>5, <1>6
    <3>2. \A a \in Slots : v.slots[a].stage = w.slots[a].stage /\ v.slots[a].task = w.slots[a].task
      BY <1>1
    <3> QED  BY <3>1, <3>2, SameCounts
  <2> QED  BY <1>3, <2>1 DEF Limited
<1>10. v \in Good
  BY <1>1, <1>8, <1>9 DEF Good
<1>11. v \in Later(w)
  BY <1>1, <1>2, <1>3, <1>10 DEF Later, t
<1>12. ASSUME AllNoticed(w), NEW u \in DOMAIN v.tasks PROVE Noticed(v, u)
  <2>1. CASE u = t
    <3>1. CASE item.kind = "download" \/ item.skipExisting
      BY <1>4, <2>1, <3>1 DEF Noticed, Waits
    <3>2. CASE ~(item.kind = "download" \/ item.skipExisting)
      <4>1. v.expandQueue = Append(w.expandQueue, t)
        BY <1>1, <3>2 DEF t
      <4>2. Len(v.expandQueue) \in DOMAIN v.expandQueue /\ v.expandQueue[Len(v.expandQueue)] = t
        BY <1>3, <1>7, <4>1
      <4> QED  BY <2>1, <4>2 DEF Noticed
    <3> QED  BY <3>1, <3>2
  <2>2. CASE u # t
    <3>1. u \in DOMAIN w.tasks /\ Noticed(w, u)
      BY <1>7, <1>12, <2>2 DEF AllNoticed
    <3>2. Waits(v, u) <=> Waits(w, u)
      BY <1>1, <1>5, <2>2, <3>1 DEF Waits, t
    <3>3. v.tasks[u].classified = w.tasks[u].classified
      BY <1>5, <3>1
    <3>4. \A i \in DOMAIN w.expandQueue : i \in DOMAIN v.expandQueue
                                           /\ v.expandQueue[i] = w.expandQueue[i]
      BY <1>1, <1>3
    <3> QED  BY <1>1, <3>1, <3>2, <3>3, <3>4 DEF Noticed
  <2> QED  BY <2>1, <2>2
<1>13. Len(v.tasks) = Len(w.tasks) + 1
  BY <1>2 DEF t
<1> QED  BY <1>1, <1>5, <1>10, <1>11, <1>12, <1>13 DEF AllNoticed

(* The worlds after some of the items have been added. *)
Added(w) ==
    {x \in Later(w) :
        /\ AllNoticed(w) => AllNoticed(x)
        /\ \A u \in DOMAIN w.tasks : x.tasks[u].state = w.tasks[u].state}

LEMMA AddAllKeeps ==
    ASSUME NEW w \in Good, NEW items \in Seq(Items),
           \A i \in DOMAIN items : items[i].parent \in w.entries \cup {0},
           NEW v, v = Each(w, items, [do |-> "add"])
    PROVE  v \in Added(w) /\ v \in Good
<1> DEFINE N == Len(items)
           I == [n \in 0 .. N |-> Added(w)]
           loop == [do |-> "add"]
<1>1. N \in Nat /\ DOMAIN items = 1 .. N /\ \A n \in 1 .. N : items[n] \in Items
  BY ElementOfSeq, LenProperties
<1>2. w \in I[0]
  <2>1. w \in Later(w)
    BY AlikeReflexive, CalmerPumped, PumpedLater
  <2> QED  BY <1>1, <2>1 DEF Added
<1>3. ASSUME NEW n \in 1 .. N, NEW y \in I[n - 1] PROVE Body(y, items[n], loop) \in I[n]
  <2>1. y \in Added(w) /\ y \in Later(w)
    BY <1>1 DEF Added
  <2>2. y \in Good /\ items[n].parent \in y.entries \cup {0} /\ items[n] \in Items
    BY <1>1, <2>1 DEF Later
  <2> DEFINE z == AddTask(y, items[n])
  <2>3. Body(y, items[n], loop) = z
    BY DEF Body
  <2> HIDE DEF z
  <2>4. /\ z \in Later(y) /\ (AllNoticed(y) => AllNoticed(z))
        /\ \A u \in DOMAIN y.tasks : z.tasks[u].state = y.tasks[u].state
    BY <2>1, <2>2, AddTaskKeeps DEF z
  <2>5. z \in Later(w)
    BY <2>1, <2>4, LaterTransitive
  <2>6. DOMAIN w.tasks \subseteq DOMAIN y.tasks
    <3>1. /\ DOMAIN w.tasks = 1 .. Len(w.tasks) /\ DOMAIN y.tasks = 1 .. Len(y.tasks)
          /\ Len(w.tasks) \in Nat /\ Len(y.tasks) \in Nat /\ Len(w.tasks) <= Len(y.tasks)
      BY <2>1, <2>2, GoodFields DEF Later
    <3> QED  BY <3>1
  <2>7. z \in Added(w)
    BY <2>1, <2>4, <2>5, <2>6 DEF Added
  <2> QED  BY <1>1, <2>3, <2>7
<1>4. Each(w, items, loop) \in I[N]
  <2> HIDE DEF I, loop
  <2> QED  BY <1>1, <1>2, <1>3, EachKeeps
<1>5. v \in Added(w)
  BY <1>1, <1>4
<1> QED  BY <1>5 DEF Added, Later

LEMMA EnqueueHolds ==
    ASSUME NEW w \in Good, AllNoticed(w), NEW items \in Seq(Items),
           \A i \in DOMAIN items : items[i].parent \in w.entries \cup {0},
           NEW v, v = Enqueue(w, items)
    PROVE  v \in Later(w) /\ AllHeld(v) /\ AllNoticed(v) /\ Full(v)
<1> DEFINE x == Each(w, items, [do |-> "add"])
<1>1. x \in Added(w) /\ x \in Good
  BY AddAllKeeps
<1>2. v = Pump(PumpExpand(x))
  BY DEF Enqueue
<1> HIDE DEF x
<1>3. x \in Later(w) /\ AllNoticed(x)
  BY <1>1 DEF Added
<1>4. v \in Pumped(x) /\ AllHeld(v) /\ AllNoticed(v) /\ Full(v)
  BY <1>1, <1>2, <1>3, PumpBothHolds
<1>5. v \in Later(w)
  BY <1>1, <1>3, <1>4, PumpedLater, LaterTransitive
<1> QED  BY <1>4, <1>5

------------------------------------------------------------------------------
(* Commands on several tasks                                                  *)

LEMMA InsertAtType ==
    ASSUME NEW S, NEW q \in Seq(S), NEW i \in 1 .. Len(q), NEW x \in S
    PROVE  InsertAt(q, i, x) \in Seq(S)
<1>1. SubSeq(q, 1, i - 1) \in Seq(S) /\ SubSeq(q, i, Len(q)) \in Seq(S) /\ <<x>> \in Seq(S)
  OBVIOUS
<1> QED  BY <1>1 DEF InsertAt

(* The order of a command is one of tasks there are. *)
LEMMA LeavesFirstType ==
    ASSUME NEW w \in Good, NEW roots
    PROVE  LeavesFirst(w, roots) \in Seq(1 .. Len(w.tasks))
<1> DEFINE N == Len(w.tasks)
           T == 1 .. N
           I == [n \in 0 .. N |-> Seq(T)]
           loop == [do |-> "visit", roots |-> roots, world |-> w]
<1>1. N \in Nat /\ w \in Worlds
  BY GoodFields
<1>2. Len(Numbers(w)) = N /\ \A n \in 1 .. N : Numbers(w)[n] = n
  BY <1>1, NumbersFields
<1>3. <<>> \in I[0]
  BY <1>1
<1>4. ASSUME NEW n \in 1 .. N, NEW q \in I[n - 1] PROVE Body(q, Numbers(w)[n], loop) \in I[n]
  <2>1. q \in Seq(T) /\ n \in T /\ Len(q) \in Nat /\ DOMAIN q = 1 .. Len(q)
    BY <1>1
  <2>2. Body(q, Numbers(w)[n], loop) = Visit(q, n, roots, w)
    BY <1>2 DEF Body
  <2> DEFINE above == {i \in DOMAIN q : n \in w.tasks[q[i]].children}
  <2>3. CASE n \in roots \/ above = {}
    <3>1. Visit(q, n, roots, w) = IF n \in roots THEN Append(q, n) ELSE q
      BY <2>3 DEF Visit
    <3> HIDE DEF T, loop
    <3>2. Append(q, n) \in Seq(T)
      BY <2>1, AppendProperties
    <3>3. Visit(q, n, roots, w) \in Seq(T)
      BY ONLY <2>1, <3>1, <3>2
    <3>4. Body(q, Numbers(w)[n], loop) \in Seq(T)
      BY ONLY <2>2, <3>3
    <3>5. I[n] = Seq(T)
      BY <1>1
    <3> QED  BY ONLY <3>4, <3>5
  <2>4. CASE ~(n \in roots \/ above = {})
    <3> DEFINE i == Min(above)
    <3>1. Visit(q, n, roots, w) = InsertAt(q, i, n)
      BY <2>4 DEF Visit
    <3>2. i \in 1 .. Len(q)
      <4>1. above \subseteq 1 .. Len(q) /\ above # {}
        BY <2>1, <2>4
      <4>2. i = CHOOSE x \in above : \A y \in above : x <= y
        BY DEF Min
      <4> HIDE DEF above, i
      <4>3. \E x \in above : \A y \in above : x <= y
        <5>1. above \subseteq Nat
          BY <2>1, <4>1
        <5> QED  BY <4>1, <5>1, Least
      <4> QED  BY <4>1, <4>2, <4>3
    <3> HIDE DEF i, T
    <3>3. InsertAt(q, i, n) \in Seq(T)
      BY <2>1, <3>2, InsertAtType
    <3> QED  BY <1>1, <2>2, <3>1, <3>3
  <2> QED  BY <2>3, <2>4
<1>5. LeavesFirst(w, roots) = Each(<<>>, Numbers(w), loop)
  BY DEF LeavesFirst
<1>6. LeavesFirst(w, roots) \in I[N]
  <2> HIDE DEF I, loop, N
  <2> QED  BY <1>1, <1>2, <1>3, <1>4, <1>5, EachKeeps
<1> QED  BY <1>1, <1>6

(* The worlds the loops of commands stay in. *)
Attended(w) == {v \in Good : AllNoticed(v) /\ DOMAIN v.tasks = DOMAIN w.tasks}

(* A command leaves no unclassified task unnoticed; without resume and retry, *)
(* nothing waits that did not wait.                                           *)
LEMMA CommandNotices ==
    ASSUME NEW w \in Good, AllNoticed(w),
           NEW q, Len(q) \in Nat, \A n \in 1 .. Len(q) : q[n] \in DOMAIN w.tasks,
           NEW op \in Ops, NEW loop, \A y, t : Body(y, t, loop) \in {y, ApplyOp(y, t, op)},
           NEW v, v = Each(w, q, loop)
    PROVE  /\ v \in Good /\ AllNoticed(v)
           /\ op \in {"pause", "cancel"} => v \in Calmer(w)
<1>1. v \in Attended(w)
  <2> DEFINE I == [n \in 0 .. Len(q) |-> Attended(w)]
  <2>1. w \in Attended(w)
    BY DEF Attended
  <2>2. ASSUME NEW y \in Attended(w), NEW t \in DOMAIN w.tasks
        PROVE  Body(y, t, loop) \in Attended(w)
    <3>1. y \in Good /\ AllNoticed(y) /\ DOMAIN y.tasks = DOMAIN w.tasks
      BY <2>2 DEF Attended
    <3>2. PICK z : z = ApplyOp(y, t, op)
      OBVIOUS
    <3>3. z \in Good /\ AllNoticed(z) /\ DOMAIN z.tasks = DOMAIN y.tasks
      BY <2>2, <3>1, <3>2, ApplyOpNotices
    <3>4. z \in Attended(w)
      BY <3>1, <3>3 DEF Attended
    <3>5. Body(y, t, loop) \in {y, z}
      BY <3>2
    <3> QED  BY ONLY <2>2, <3>4, <3>5
  <2>3. w \in I[0]
    BY <2>1
  <2>4. \A n \in 1 .. Len(q) : \A y \in I[n - 1] : Body(y, q[n], loop) \in I[n]
    <3> SUFFICES ASSUME NEW n \in 1 .. Len(q), NEW y \in I[n - 1] PROVE Body(y, q[n], loop) \in I[n]
      OBVIOUS
    <3>1. q[n] \in DOMAIN w.tasks
      OBVIOUS
    <3>2. I[n - 1] = Attended(w) /\ I[n] = Attended(w)
      OBVIOUS
    <3> HIDE DEF I
    <3> QED  BY <2>2, <3>1, <3>2
  <2>5. I[Len(q)] = Attended(w)
    OBVIOUS
  <2>6. Each(w, q, loop) \in I[Len(q)]
    <3> HIDE DEF I
    <3> QED  BY <2>3, <2>4, EachKeeps
  <2> QED  BY <2>5, <2>6
<1>2. ASSUME op \in {"pause", "cancel"} PROVE v \in Calmer(w)
  <2> DEFINE I == [n \in 0 .. Len(q) |-> Calmer(w)]
  <2>1. w \in Calmer(w)
    BY AlikeReflexive
  <2>2. ASSUME NEW y \in Calmer(w), NEW t \in DOMAIN w.tasks
        PROVE  Body(y, t, loop) \in Calmer(w)
    <3>1. y \in Good /\ t \in DOMAIN y.tasks
      BY <2>2, CalmerKeeps
    <3>2. PICK z : z = ApplyOp(y, t, op)
      OBVIOUS
    <3>3. z \in Calmer(w)
      BY <1>2, <2>2, <3>1, <3>2, ApplyOpCalms, CalmerTransitive
    <3>4. Body(y, t, loop) \in {y, z}
      BY <3>2
    <3> QED  BY ONLY <2>2, <3>3, <3>4
  <2>3. w \in I[0]
    BY <2>1
  <2>4. \A n \in 1 .. Len(q) : \A y \in I[n - 1] : Body(y, q[n], loop) \in I[n]
    <3> SUFFICES ASSUME NEW n \in 1 .. Len(q), NEW y \in I[n - 1] PROVE Body(y, q[n], loop) \in I[n]
      OBVIOUS
    <3>1. q[n] \in DOMAIN w.tasks
      OBVIOUS
    <3>2. I[n - 1] = Calmer(w) /\ I[n] = Calmer(w)
      OBVIOUS
    <3> HIDE DEF I
    <3> QED  BY <2>2, <3>1, <3>2
  <2>5. I[Len(q)] = Calmer(w)
    OBVIOUS
  <2>6. Each(w, q, loop) \in I[Len(q)]
    <3> HIDE DEF I
    <3> QED  BY <2>3, <2>4, EachKeeps
  <2> QED  BY <2>5, <2>6
<1> QED  BY <1>1, <1>2 DEF Attended

(* Closing a session and quitting: of the tasks they are about, none waits. *)
LEMMA CancelEntriesCalms ==
    ASSUME NEW w \in Good, NEW S, NEW v, v = CancelEntries(w, S)
    PROVE  /\ v \in Calmer(w)
           /\ \A t \in DOMAIN w.tasks : t \in S => v.tasks[t].state # "queued"
<1> DEFINE N == Len(w.tasks)
           loop == [do |-> "cancel", of |-> S]
           I == [n \in 0 .. N |->
                   {x \in Calmer(w) : \A t \in 1 .. n : t \in S => x.tasks[t].state # "queued"}]
<1>1. N \in Nat /\ DOMAIN w.tasks = 1 .. N /\ w \in Worlds
  BY GoodFields
<1>2. Len(Numbers(w)) = N /\ \A n \in 1 .. N : Numbers(w)[n] = n
  BY <1>1, NumbersFields
<1>3. w \in I[0]
  BY <1>1, AlikeReflexive
<1>4. ASSUME NEW n \in 1 .. N, NEW y \in I[n - 1] PROVE Body(y, Numbers(w)[n], loop) \in I[n]
  <2>1. y \in Calmer(w) /\ \A t \in 1 .. n - 1 : t \in S => y.tasks[t].state # "queued"
    BY <1>1
  <2>2. y \in Good /\ DOMAIN y.tasks = DOMAIN w.tasks
    BY <2>1, CalmerKeeps
  <2> DEFINE z == CancelEntry(y, n)
  <2>3. Body(y, Numbers(w)[n], loop) = IF n \in S THEN z ELSE y
    BY <1>2 DEF Body
  <2>4. z \in Calmer(y) /\ z.tasks[n].state # "queued"
    BY <1>1, <2>2, CancelCalms
  <2> HIDE DEF z
  <2>5. z \in Calmer(w)
    BY <2>1, <2>2, <2>4, CalmerTransitive
  <2>6. CASE n \in S
    <3>1. ASSUME NEW t \in 1 .. n, t \in S PROVE z.tasks[t].state # "queued"
      <4>1. CASE t = n
        BY <2>4, <4>1
      <4>2. CASE t # n
        <5>1. t \in 1 .. n - 1 /\ t \in DOMAIN y.tasks
          BY <1>1, <2>2, <4>2
        <5> QED  BY <2>1, <2>4, <3>1, <5>1 DEF Calmer
      <4> QED  BY <4>1, <4>2
    <3> QED  BY <1>1, <2>3, <2>5, <2>6, <3>1
  <2>7. CASE n \notin S
    <3>1. \A t \in 1 .. n : t \in S => t \in 1 .. n - 1
      BY <1>1, <2>7
    <3> QED  BY <1>1, <2>1, <2>3, <2>7, <3>1
  <2> QED  BY <2>6, <2>7
<1>5. v = Each(w, Numbers(w), loop)
  BY DEF CancelEntries
<1>6. v \in I[N]
  <2> HIDE DEF I, loop, N
  <2> QED  BY <1>1, <1>2, <1>3, <1>4, <1>5, EachKeeps
<1> QED  BY <1>1, <1>6

------------------------------------------------------------------------------
(* The commands                                                               *)

LEMMA WorldBecomes ==
    ASSUME NEW w \in Worlds, Becomes(w)
    PROVE  World' = w
<1>1. /\ tasks' = w.tasks /\ entries' = w.entries
      /\ expandQueue' = w.expandQueue /\ slots' = w.slots
  BY DEF Becomes
<1>2. w = [tasks |-> w.tasks, entries |-> w.entries, expandQueue |-> w.expandQueue,
           slots |-> w.slots]
  BY DEF Worlds
<1> QED  BY <1>1, <1>2 DEF World

LEMMA StepKeeps ==
    ASSUME NEW w \in Good, AllHeld(w), AllNoticed(w), Full(w), Becomes(w),
           open' \subseteq Sessions
    PROVE  QueueInv'
<1>1. World' = w
  BY GoodFields, WorldBecomes
<1> QED  BY <1>1 DEF QueueInv

LEMMA EnqueueFilesKeeps ==
    ASSUME QueueInv, EnqueueFiles
    PROVE  QueueInv'
<1>1. World \in Good /\ AllNoticed(World) /\ open \subseteq Sessions /\ open' = open
  BY DEF QueueInv, EnqueueFiles
<1>2. PICK k \in Kinds, shape \in Shapes, s \in open, skip \in BOOLEAN :
        Becomes(Enqueue(World, <<[kind |-> k, shape |-> shape, session |-> s, parent |-> 0,
                                  skipExisting |-> skip]>>))
  BY DEF EnqueueFiles
<1> DEFINE item == [kind |-> k, shape |-> shape, session |-> s, parent |-> 0,
                    skipExisting |-> skip]
<1>3. item \in Items /\ item.parent = 0
  BY <1>1, QueueAssumption DEF Items, QueueAssumption
<1> HIDE DEF item
<1>4. <<item>> \in Seq(Items) /\ \A i \in DOMAIN <<item>> : <<item>>[i] = item
  BY <1>3
<1> DEFINE w == Enqueue(World, <<item>>)
<1>5. Becomes(w)
  BY <1>2 DEF item
<1>6. \A i \in DOMAIN <<item>> : <<item>>[i].parent \in World.entries \cup {0}
  BY <1>3, <1>4
<1>7. w \in Later(World) /\ AllHeld(w) /\ AllNoticed(w) /\ Full(w)
  BY <1>1, <1>4, <1>6, EnqueueHolds
<1> HIDE DEF w
<1>8. w \in Good
  BY <1>7 DEF Later
<1> QED  BY <1>1, <1>5, <1>7, <1>8, StepKeeps

(* A command and the scheduling after it. *)
LEMMA CommandKeeps ==
    ASSUME QueueInv, NEW roots, NEW op \in Ops, NEW loop,
           \A y, t : Body(y, t, loop) \in {y, ApplyOp(y, t, op)},
           NEW v, v = Each(World, LeavesFirst(World, roots), loop),
           NEW x, \/ x = Pump(PumpExpand(v))
                  \/ op \in {"pause", "cancel"} /\ x = Pump(v)
    PROVE  x \in Good /\ AllHeld(x) /\ AllNoticed(x) /\ Full(x)
<1>1. World \in Good /\ AllNoticed(World) /\ Full(World)
  BY DEF QueueInv
<1> DEFINE q == LeavesFirst(World, roots)
<1>2. q \in Seq(1 .. Len(World.tasks))
  BY <1>1, LeavesFirstType
<1>3. DOMAIN World.tasks = 1 .. Len(World.tasks)
  BY <1>1, GoodFields
<1> HIDE DEF q
<1>4. Len(q) \in Nat /\ \A n \in 1 .. Len(q) : q[n] \in DOMAIN World.tasks
  BY <1>2, <1>3, ElementOfSeq, LenProperties
<1>5. v = Each(World, q, loop)
  BY DEF q
<1>6. v \in Good /\ AllNoticed(v) /\ (op \in {"pause", "cancel"} => v \in Calmer(World))
  BY <1>1, <1>4, <1>5, CommandNotices
<1>7. CASE x = Pump(PumpExpand(v))
  <2>1. x \in Pumped(v) /\ AllHeld(x) /\ AllNoticed(x) /\ Full(x)
    BY <1>6, <1>7, PumpBothHolds
  <2> QED  BY <1>6, <2>1, PumpedHeld
<1>8. CASE op \in {"pause", "cancel"} /\ x = Pump(v)
  <2>1. Full(v)
    BY <1>1, <1>6, <1>8, CalmerKeeps
  <2> QED  BY <1>6, <1>8, <2>1, PumpKeeps
<1> QED  BY <1>7, <1>8

LEMMA ControlKeeps ==
    ASSUME QueueInv, NEW t, NEW op \in Ops, Control(t, op)
    PROVE  QueueInv'
<1> DEFINE loop == [do |-> "apply", op |-> op]
           v == Each(World, LeavesFirst(World, {t}), loop)
           x == Pump(IF op \in {"resume", "retry"} THEN PumpExpand(v) ELSE v)
<1>1. Becomes(x) /\ open' = open /\ open \subseteq Sessions
  BY DEF Control, QueueInv
<1>2. \A y, u : Body(y, u, loop) \in {y, ApplyOp(y, u, op)}
  BY DEF Body
<1> HIDE DEF loop
<1>3. \/ x = Pump(PumpExpand(v))
      \/ op \in {"pause", "cancel"} /\ x = Pump(v)
  BY DEF Ops
<1> HIDE DEF v, x
<1>4. v = Each(World, LeavesFirst(World, {t}), loop)
  BY DEF v
<1>5. x \in Good /\ AllHeld(x) /\ AllNoticed(x) /\ Full(x)
  BY <1>2, <1>3, <1>4, CommandKeeps
<1> QED  BY <1>1, <1>5, StepKeeps

LEMMA ControlAllKeeps ==
    ASSUME QueueInv, NEW op \in {"pause", "resume", "cancel"}, ControlAll(op)
    PROVE  QueueInv'
<1> DEFINE roots == {t \in entries : tasks[t].parent = 0}
           loop == [do |-> "unless final", op |-> op]
           v == Each(World, LeavesFirst(World, roots), loop)
           x == Pump(IF op # "cancel" THEN PumpExpand(v) ELSE v)
<1>1. Becomes(x) /\ open' = open /\ open \subseteq Sessions
  BY DEF ControlAll, QueueInv
<1>2. \A y, u : Body(y, u, loop) \in {y, ApplyOp(y, u, op)}
  BY DEF Body
<1> HIDE DEF loop, roots
<1>3. \/ x = Pump(PumpExpand(v))
      \/ op \in {"pause", "cancel"} /\ x = Pump(v)
  OBVIOUS
<1> HIDE DEF v, x
<1>4. v = Each(World, LeavesFirst(World, roots), loop) /\ op \in Ops
  BY DEF v, Ops
<1>5. x \in Good /\ AllHeld(x) /\ AllNoticed(x) /\ Full(x)
  BY <1>2, <1>3, <1>4, CommandKeeps
<1> QED  BY <1>1, <1>5, StepKeeps

LEMMA CloseSessionKeeps ==
    ASSUME QueueInv, NEW s, CloseSession(s)
    PROVE  QueueInv'
<1> DEFINE w == CancelEntries(World, {t \in entries : tasks[t].session = s})
<1>1. Becomes(w) /\ open' \subseteq Sessions
  BY DEF CloseSession, QueueInv
<1>2. World \in Good /\ AllHeld(World) /\ AllNoticed(World) /\ Full(World)
  BY DEF QueueInv
<1>3. w \in Calmer(World)
  BY <1>2, CancelEntriesCalms
<1> HIDE DEF w
<1>4. w \in Good /\ AllHeld(w) /\ AllNoticed(w) /\ Full(w)
  BY <1>2, <1>3, CalmerKeeps DEF AllHeld, AllNoticed
<1> QED  BY <1>1, <1>4, StepKeeps

LEMMA CancelAllKeeps ==
    ASSUME QueueInv, CancelAll
    PROVE  QueueInv'
<1> DEFINE w == CancelEntries(World, entries)
           v == [w EXCEPT !.expandQueue = <<>>]
<1>1. Becomes(v) /\ open' \subseteq Sessions
  BY DEF CancelAll, QueueInv
<1>2. World \in Good /\ AllHeld(World)
  BY DEF QueueInv
<1>3. w \in Calmer(World) /\ \A t \in DOMAIN World.tasks : t \in entries => w.tasks[t].state # "queued"
  BY <1>2, CancelEntriesCalms
<1>4. w \in Good /\ DOMAIN w.tasks = DOMAIN World.tasks /\ AllHeld(w)
  BY <1>2, <1>3, CalmerKeeps DEF AllHeld
<1>5. w.entries = entries
  BY <1>3 DEF Calmer, Alike, World
<1> HIDE DEF w
<1>6. w \in Worlds /\ Linked(w) /\ Limited(w)
  BY <1>4, GoodFields
<1>7. v \in Worlds /\ v.tasks = w.tasks /\ v.entries = w.entries /\ v.slots = w.slots
      /\ v.expandQueue = <<>>
  <2> DEFINE q == <<>>
  <2>1. q \in Seq(Nat) /\ v = [w EXCEPT !.expandQueue = q]
    OBVIOUS
  <2> HIDE DEF q, v
  <2>2. v \in Worlds /\ v.tasks = w.tasks /\ v.entries = w.entries /\ v.slots = w.slots
        /\ v.expandQueue = q
    BY <1>6, <2>1 DEF Worlds
  <2> QED  BY <2>2 DEF q
<1> HIDE DEF v
<1>8. Linked(v)
  BY <1>6, <1>7 DEF Linked
<1>9. Running(v) = Running(w) /\ Expanding(v) = Expanding(w)
      /\ \A s : RunningBySession(v, s) = RunningBySession(w, s)
  BY <1>7 DEF Running, Expanding, RunningBySession
<1>10. v \in Good
  BY <1>6, <1>7, <1>8, <1>9 DEF Good, Limited
<1>11. \A t \in DOMAIN v.tasks : ~Waits(v, t)
  BY <1>3, <1>4, <1>5, <1>7 DEF Waits
<1>12. AllHeld(v) /\ AllNoticed(v) /\ Full(v)
  BY <1>7, <1>11 DEF AllHeld, AllNoticed, Held, Noticed, Full
<1> QED  BY <1>1, <1>10, <1>12, StepKeeps

(* Without the finished tasks: each total is still the number of children. *)
LEMMA ClearFinishedKeeps ==
    ASSUME QueueInv, ClearFinished
    PROVE  QueueInv'
<1> DEFINE gone == {t \in entries : tasks[t].state \in FinalStates}
           cut(t) == IF t \in entries \ gone THEN tasks[t].children \cap gone ELSE {}
           kept(t) == [tasks[t] EXCEPT
                        !.children = @ \ cut(t),
                        !.childTotal = @ - Cardinality(cut(t)),
                        !.parent = IF @ \in gone THEN 0 ELSE @]
           w == World
           v == World'
<1>1. /\ entries' = entries \ gone
      /\ tasks' = [t \in DOMAIN tasks |-> kept(t)]
      /\ expandQueue' = expandQueue /\ slots' = slots /\ open' = open
  BY DEF ClearFinished
<1>2. /\ w.tasks = tasks /\ w.entries = entries /\ w.expandQueue = expandQueue /\ w.slots = slots
      /\ v.tasks = tasks' /\ v.entries = entries' /\ v.expandQueue = expandQueue'
      /\ v.slots = slots'
  BY DEF World
<1>3. /\ w \in Good /\ Linked(w) /\ Limited(w) /\ AllHeld(w) /\ AllNoticed(w) /\ Full(w)
      /\ open \subseteq Sessions /\ w \in Worlds
  BY GoodFields DEF QueueInv
<1>4. /\ tasks \in Seq(Entry) /\ DOMAIN tasks = 1 .. Len(tasks) /\ Len(tasks) \in Nat
      /\ \A t \in DOMAIN tasks : t \in Nat \ {0} /\ tasks[t] \in Entry
  BY <1>2, <1>3, GoodFields, WorldFields
<1>5. ASSUME NEW t \in DOMAIN tasks
      PROVE  /\ tasks[t].childTotal - Cardinality(cut(t)) \in Nat
             /\ tasks[t].childTotal - Cardinality(cut(t))
                    = Cardinality(tasks[t].children \ cut(t))
  <2>1. IsFiniteSet(tasks[t].children) /\ tasks[t].childTotal = Cardinality(tasks[t].children)
    BY <1>2, <1>3, ChildrenFinite DEF Linked
  <2>4. tasks[t].children \cap cut(t) = cut(t)
    OBVIOUS
  <2> HIDE DEF gone, cut
  <2>2. /\ Cardinality(tasks[t].children \ cut(t))
             = Cardinality(tasks[t].children) - Cardinality(cut(t))
        /\ IsFiniteSet(tasks[t].children \ cut(t))
    <3> DEFINE k == cut(t)
               cs == tasks[t].children
    <3>1. IsFiniteSet(cs) /\ cs \cap k = k
      BY <2>1, <2>4
    <3> HIDE DEF k, cs
    <3>2. IsFiniteSet(cs \ k) /\ Cardinality(cs \ k) = Cardinality(cs) - Cardinality(cs \cap k)
      BY <3>1, FS_Difference
    <3> QED  BY <3>1, <3>2 DEF k, cs
  <2>3. Cardinality(tasks[t].children \ cut(t)) \in Nat
    BY <2>2, FS_CardinalityType
  <2> QED  BY <2>1, <2>2, <2>3
<1>6. ASSUME NEW t \in DOMAIN tasks
      PROVE  /\ tasks'[t] \in Entry
             /\ tasks'[t].children = tasks[t].children \ cut(t)
             /\ tasks'[t].childTotal = Cardinality(tasks[t].children \ cut(t))
             /\ tasks'[t].parent = IF tasks[t].parent \in gone THEN 0 ELSE tasks[t].parent
             /\ tasks'[t].handle = tasks[t].handle /\ tasks'[t].session = tasks[t].session
             /\ tasks'[t].state = tasks[t].state /\ tasks'[t].classified = tasks[t].classified
  <2> DEFINE n == tasks[t].childTotal - Cardinality(cut(t))
             c == tasks[t].children \ cut(t)
             p == IF tasks[t].parent \in gone THEN 0 ELSE tasks[t].parent
             e == tasks[t]
  <2>1. tasks'[t] = [e EXCEPT !.children = c, !.childTotal = n, !.parent = p]
    <3>1. tasks'[t] = kept(t)
      BY <1>1
    <3> QED  BY <3>1
  <2>2. n \in Nat /\ n = Cardinality(c) /\ e \in Entry
    BY <1>4, <1>5
  <2>3. c \in SUBSET Nat /\ p \in Nat
    BY <2>2 DEF Entry
  <2> HIDE DEF n, c, p, e
  <2>4. [e EXCEPT !.children = c, !.childTotal = n, !.parent = p] \in Entry
    BY <2>2, <2>3 DEF Entry
  <2>5. LET x == [e EXCEPT !.children = c, !.childTotal = n, !.parent = p]
        IN  /\ x.children = c /\ x.childTotal = n /\ x.parent = p
            /\ x.handle = e.handle /\ x.session = e.session
            /\ x.state = e.state /\ x.classified = e.classified
    BY <2>2 DEF Entry
  <2>6. /\ tasks'[t] \in Entry /\ tasks'[t].children = c /\ tasks'[t].childTotal = n
        /\ tasks'[t].parent = p /\ tasks'[t].handle = e.handle
        /\ tasks'[t].session = e.session /\ tasks'[t].state = e.state
        /\ tasks'[t].classified = e.classified
    BY <2>1, <2>4, <2>5
  <2> QED  BY <2>2, <2>6 DEF n, c, p, e
<1>7. tasks' \in Seq(Entry) /\ DOMAIN tasks' = DOMAIN tasks /\ Len(tasks') = Len(tasks)
  <2>1. DOMAIN tasks' = 1 .. Len(tasks)
    BY <1>1, <1>4
  <2>2. \A t \in 1 .. Len(tasks) : tasks'[t] \in Entry
    BY <1>4, <1>6
  <2>3. tasks' = [t \in 1 .. Len(tasks) |-> tasks'[t]]
    BY <1>1, <1>4
  <2>4. tasks' \in Seq(Entry)
    BY <1>4, <2>2, <2>3, IsASeq
  <2> QED  BY <1>4, <2>1, <2>4
<1> HIDE DEF gone, cut, kept, w, v
<1>8. v \in Worlds
  <2>1. w.entries \subseteq Nat /\ w.expandQueue \in Seq(Nat) /\ w.slots \in [Slots -> Activity]
    BY <1>3, WorldFields
  <2>2. World' = [tasks |-> tasks', entries |-> entries', expandQueue |-> expandQueue',
                  slots |-> slots']
    BY DEF World
  <2> QED  BY <1>1, <1>2, <1>7, <2>1, <2>2 DEF Worlds, v
<1>9. Linked(v)
  <2>1. ASSUME NEW t \in DOMAIN tasks
        PROVE  /\ tasks'[t].children \subseteq t + 1 .. Len(tasks)
               /\ tasks'[t].parent < t
               /\ tasks'[t].childTotal = Cardinality(tasks'[t].children)
               /\ tasks'[t].handle # 0 =>
                    /\ slots[tasks'[t].handle].stage = "work"
                    /\ slots[tasks'[t].handle].task = t
    <3>1. /\ tasks[t].children \subseteq t + 1 .. Len(tasks) /\ tasks[t].parent < t
          /\ tasks[t].handle # 0 =>
               slots[tasks[t].handle].stage = "work" /\ slots[tasks[t].handle].task = t
      BY <1>2, <1>3 DEF Linked
    <3>2. tasks'[t].parent \in {0, tasks[t].parent} /\ t \in Nat \ {0}
      BY <1>4, <1>6
    <3>3. tasks'[t].parent < t
      BY <3>1, <3>2
    <3>4. tasks'[t].children = tasks[t].children \ cut(t)
      BY <1>6
    <3>5. tasks'[t].childTotal = Cardinality(tasks[t].children \ cut(t))
      BY <1>6
    <3>6. tasks'[t].handle = tasks[t].handle
      BY <1>6
    <3> QED  BY <3>1, <3>3, <3>4, <3>5, <3>6
  <2>2. ASSUME NEW t \in entries \ gone, NEW c \in tasks'[t].children
        PROVE  tasks'[c].parent = t
    <3>1. t \in DOMAIN tasks /\ tasks[t].children \subseteq t + 1 .. Len(tasks)
          /\ \A d \in tasks[t].children : tasks[d].parent = t
      BY <1>2, <1>3 DEF Linked
    <3>2. c \in tasks[t].children
      BY <1>6, <3>1
    <3>3. c \in DOMAIN tasks
      BY <1>4, <3>1, <3>2
    <3>4. tasks'[c].parent = IF tasks[c].parent \in gone THEN 0 ELSE tasks[c].parent
      BY <1>6, <3>3
    <3>5. tasks[c].parent = t /\ t \notin gone
      BY <3>1, <3>2
    <3> QED  BY <3>4, <3>5
  <2>3. /\ entries \subseteq DOMAIN tasks
        /\ \A i \in DOMAIN expandQueue : expandQueue[i] \in DOMAIN tasks
        /\ \A a \in Slots : slots[a].stage # "free" => slots[a].task \in DOMAIN tasks
    BY <1>2, <1>3 DEF Linked
  <2>4. /\ v.entries = entries \ gone /\ v.expandQueue = expandQueue /\ v.slots = slots
        /\ v.tasks = tasks' /\ Len(v.tasks) = Len(tasks) /\ DOMAIN v.tasks = DOMAIN tasks
    BY <1>1, <1>2, <1>7
  <2>5. v.entries \subseteq DOMAIN v.tasks
    BY <2>3, <2>4
  <2> QED  BY <2>1, <2>2, <2>3, <2>4, <2>5 DEF Linked
<1>10. /\ Running(v) = Running(w) /\ Expanding(v) = Expanding(w)
       /\ \A s : RunningBySession(v, s) = RunningBySession(w, s)
  <2>1. \A a \in Slots : v.slots[a].stage = w.slots[a].stage /\ v.slots[a].task = w.slots[a].task
    BY <1>1, <1>2
  <2>2. \A a \in Slots : w.slots[a].stage # "free" =>
            v.tasks[w.slots[a].task].session = w.tasks[w.slots[a].task].session
    BY <1>2, <1>3, <1>6 DEF Linked
  <2> QED  BY <2>1, <2>2, SameCounts
<1>11. v \in Good
  BY <1>3, <1>8, <1>9, <1>10 DEF Good, Limited
<1>12. \A t \in DOMAIN tasks : Waits(v, t) => Waits(w, t)
  BY <1>1, <1>2, <1>6 DEF Waits
<1>13. AllHeld(v) /\ AllNoticed(v) /\ Full(v)
  <2>1. ASSUME NEW t \in DOMAIN v.tasks PROVE Held(v, t) /\ Noticed(v, t)
    <3>1. t \in DOMAIN tasks /\ Held(w, t) /\ Noticed(w, t)
      BY <1>2, <1>3, <1>7 DEF AllHeld, AllNoticed
    <3>2. /\ v.tasks[t].classified = w.tasks[t].classified
          /\ v.tasks[t].session = w.tasks[t].session
      BY <1>2, <1>6, <3>1
    <3>3. Waits(v, t) => Waits(w, t)
      BY <1>12, <3>1
    <3>4. Held(v, t)
      BY <1>10, <3>1, <3>2, <3>3 DEF Held
    <3>5. v.slots = w.slots /\ v.expandQueue = w.expandQueue
      BY <1>1, <1>2
    <3>6. Noticed(v, t)
      BY <3>1, <3>2, <3>3, <3>5 DEF Noticed
    <3> QED  BY <3>4, <3>6
  <2>2. Full(v)
    BY <1>1, <1>2, <1>3, <1>10 DEF Full
  <2> QED  BY <2>1, <2>2 DEF AllHeld, AllNoticed
<1> QED  BY <1>1, <1>3, <1>11, <1>13 DEF QueueInv, v

------------------------------------------------------------------------------
(* One task and one slot at a time                                            *)

WithTask(w, t, e) == [w EXCEPT !.tasks = [w.tasks EXCEPT ![t] = e]]

WithSlot(w, a, x) == [w EXCEPT !.slots = [w.slots EXCEPT ![a] = x]]

LEMMA WithTaskFields ==
    ASSUME NEW w \in Worlds, NEW t \in DOMAIN w.tasks, NEW e \in Entry,
           NEW v, v = WithTask(w, t, e)
    PROVE  /\ v \in Worlds /\ v.entries = w.entries /\ v.expandQueue = w.expandQueue
           /\ v.slots = w.slots /\ Len(v.tasks) = Len(w.tasks) /\ DOMAIN v.tasks = DOMAIN w.tasks
           /\ v.tasks[t] = e /\ \A u \in DOMAIN w.tasks : u # t => v.tasks[u] = w.tasks[u]
<1> DEFINE ts == [w.tasks EXCEPT ![t] = e]
<1>1. w.tasks \in Seq(Entry) /\ DOMAIN w.tasks = 1 .. Len(w.tasks)
  BY WorldFields
<1>2. ts \in Seq(Entry) /\ Len(ts) = Len(w.tasks) /\ DOMAIN ts = DOMAIN w.tasks
  BY <1>1
<1>3. v = [w EXCEPT !.tasks = ts]
  BY DEF WithTask
<1>4. ts[t] = e /\ \A u \in DOMAIN w.tasks : u # t => ts[u] = w.tasks[u]
  OBVIOUS
<1> HIDE DEF ts
<1>5. v \in Worlds /\ v.tasks = ts /\ v.entries = w.entries /\ v.expandQueue = w.expandQueue
      /\ v.slots = w.slots
  BY <1>2, <1>3 DEF Worlds
<1> QED  BY <1>2, <1>4, <1>5

LEMMA WithSlotFields ==
    ASSUME NEW w \in Worlds, NEW a \in Slots, NEW x \in Activity, NEW v, v = WithSlot(w, a, x)
    PROVE  /\ v \in Worlds /\ v.tasks = w.tasks /\ v.entries = w.entries
           /\ v.expandQueue = w.expandQueue
           /\ v.slots[a] = x /\ \A b \in Slots : b # a => v.slots[b] = w.slots[b]
<1> DEFINE ss == [w.slots EXCEPT ![a] = x]
<1>1. w.slots \in [Slots -> Activity]
  BY WorldFields
<1>2. ss \in [Slots -> Activity] /\ ss[a] = x /\ \A b \in Slots : b # a => ss[b] = w.slots[b]
  BY <1>1
<1>3. v = [w EXCEPT !.slots = ss]
  BY DEF WithSlot
<1> HIDE DEF ss
<1>4. v \in Worlds /\ v.tasks = w.tasks /\ v.entries = w.entries
      /\ v.expandQueue = w.expandQueue /\ v.slots = ss
  BY <1>2, <1>3 DEF Worlds
<1> QED  BY <1>2, <1>4

(* What keeps a world good: the same tree of tasks, and no slot that was free or *)
(* at something else.                                                            *)
Reworked(w) ==
    {v \in Worlds :
        /\ v.entries = w.entries /\ v.expandQueue = w.expandQueue
        /\ Len(v.tasks) = Len(w.tasks)
        /\ \A u \in DOMAIN w.tasks :
            /\ v.tasks[u].parent = w.tasks[u].parent
            /\ v.tasks[u].children = w.tasks[u].children
            /\ v.tasks[u].childTotal = w.tasks[u].childTotal
            /\ v.tasks[u].session = w.tasks[u].session
            /\ v.tasks[u].handle # 0 =>
                v.slots[v.tasks[u].handle].stage = "work" /\ v.slots[v.tasks[u].handle].task = u
        /\ \A a \in Slots : v.slots[a].stage # "free" =>
            /\ v.slots[a].task = w.slots[a].task
            /\ \/ v.slots[a].stage \in TransferStages /\ w.slots[a].stage \in TransferStages
               \/ v.slots[a].stage \in ExpandStages /\ w.slots[a].stage \in ExpandStages}

LEMMA StagesDiffer ==
    /\ "free" \notin TransferStages \cup ExpandStages
    /\ TransferStages \cap ExpandStages = {}
    /\ {"acquire", "inspect", "listing", "resolve", "work"} \subseteq TransferStages
    /\ {"lstat", "readdir", "mkdir"} \subseteq ExpandStages
BY DEF TransferStages, ExpandStages

LEMMA ReworkedGood ==
    ASSUME NEW w \in Good, NEW v \in Reworked(w)
    PROVE  /\ v \in Good /\ DOMAIN v.tasks = DOMAIN w.tasks
           /\ Running(v) \subseteq Running(w) /\ Expanding(v) \subseteq Expanding(w)
           /\ \A s : RunningBySession(v, s) \subseteq RunningBySession(w, s)
<1>1. /\ w \in Worlds /\ Linked(w) /\ Limited(w) /\ v \in Worlds
      /\ DOMAIN w.tasks = 1 .. Len(w.tasks) /\ DOMAIN v.tasks = 1 .. Len(v.tasks)
      /\ v.entries = w.entries /\ v.expandQueue = w.expandQueue
      /\ Len(v.tasks) = Len(w.tasks)
  BY GoodFields, WorldFields DEF Reworked
<1>2. /\ DOMAIN v.tasks = DOMAIN w.tasks
      /\ \A u \in DOMAIN w.tasks :
            /\ v.tasks[u].parent = w.tasks[u].parent
            /\ v.tasks[u].children = w.tasks[u].children
            /\ v.tasks[u].childTotal = w.tasks[u].childTotal
            /\ v.tasks[u].session = w.tasks[u].session
            /\ v.tasks[u].handle # 0 =>
                v.slots[v.tasks[u].handle].stage = "work" /\ v.slots[v.tasks[u].handle].task = u
  BY <1>1 DEF Reworked
<1>3. \A a \in Slots : v.slots[a].stage # "free" =>
            /\ v.slots[a].task = w.slots[a].task
            /\ \/ v.slots[a].stage \in TransferStages /\ w.slots[a].stage \in TransferStages
               \/ v.slots[a].stage \in ExpandStages /\ w.slots[a].stage \in ExpandStages
  BY DEF Reworked
<1>4. \A a \in Slots : v.slots[a].stage # "free" =>
            w.slots[a].stage # "free" /\ v.slots[a].task \in DOMAIN w.tasks
  BY <1>1, <1>3, StagesDiffer DEF Linked
<1>5. Linked(v)
  <2>1. \A t \in DOMAIN w.tasks : w.tasks[t].children \subseteq DOMAIN w.tasks
    BY <1>1 DEF Linked
  <2>2. w.entries \subseteq DOMAIN w.tasks
    BY <1>1 DEF Linked
  <2>3. \A t \in v.entries : \A c \in v.tasks[t].children : v.tasks[c].parent = t
    BY <1>1, <1>2, <2>1, <2>2 DEF Linked
  <2>4. \A t \in DOMAIN v.tasks :
            /\ v.tasks[t].children \subseteq t + 1 .. Len(v.tasks)
            /\ v.tasks[t].parent < t
            /\ v.tasks[t].childTotal = Cardinality(v.tasks[t].children)
    BY <1>1, <1>2 DEF Linked
  <2>5. \A i \in DOMAIN v.expandQueue : v.expandQueue[i] \in DOMAIN v.tasks
    BY <1>1, <1>2 DEF Linked
  <2> QED  BY <1>1, <1>2, <1>4, <2>2, <2>3, <2>4, <2>5 DEF Linked
<1>6. Running(v) \subseteq Running(w) /\ Expanding(v) \subseteq Expanding(w)
  BY <1>3, StagesDiffer DEF Running, Expanding
<1>7. \A s : RunningBySession(v, s) \subseteq RunningBySession(w, s)
  <2> TAKE s
  <2> SUFFICES ASSUME NEW a \in RunningBySession(v, s) PROVE a \in RunningBySession(w, s)
    OBVIOUS
  <2>1. a \in Running(v) /\ v.tasks[v.slots[a].task].session = s
    BY DEF RunningBySession
  <2>2. a \in Slots /\ v.slots[a].stage # "free" /\ a \in Running(w)
    BY <1>6, <2>1, StagesDiffer DEF Running
  <2>3. w.tasks[w.slots[a].task].session = s
    BY <1>2, <1>3, <1>4, <2>1, <2>2
  <2> QED  BY <2>2, <2>3 DEF RunningBySession
<1>8. Limited(v)
  <2>1. Cardinality(Running(v)) <= Cardinality(Running(w))
    BY <1>6, CountsAreNumbers, FS_Subset
  <2>2. Cardinality(Expanding(v)) <= Cardinality(Expanding(w))
    BY <1>6, CountsAreNumbers, FS_Subset
  <2>3. \A s : Cardinality(RunningBySession(v, s)) <= Cardinality(RunningBySession(w, s))
    BY <1>7, CountsAreNumbers, FS_Subset
  <2> QED  BY <1>1, <2>1, <2>2, <2>3, CountsAreNumbers, LimitsAreNumbers DEF Limited
<1> QED  BY <1>1, <1>2, <1>5, <1>6, <1>7, <1>8 DEF Good

LEMMA SameKindCounts ==
    ASSUME NEW w \in Good, NEW v \in Reworked(w),
           \A a \in Slots : w.slots[a].stage # "free" =>
                \/ v.slots[a].stage \in TransferStages /\ w.slots[a].stage \in TransferStages
                \/ v.slots[a].stage \in ExpandStages /\ w.slots[a].stage \in ExpandStages
    PROVE  /\ Running(v) = Running(w) /\ Expanding(v) = Expanding(w)
           /\ \A s : RunningBySession(v, s) = RunningBySession(w, s)
<1>1. Running(v) = Running(w) /\ Expanding(v) = Expanding(w)
  <2>1. Running(w) \subseteq Running(v) /\ Expanding(w) \subseteq Expanding(v)
    BY StagesDiffer DEF Running, Expanding
  <2> QED  BY <2>1, ReworkedGood
<1>2. ASSUME NEW s, NEW a \in RunningBySession(w, s) PROVE a \in RunningBySession(v, s)
  <2>1. a \in Running(w) /\ w.tasks[w.slots[a].task].session = s
    BY <1>2 DEF RunningBySession
  <2>2. a \in Slots /\ a \in Running(v) /\ v.slots[a].stage # "free" /\ w.slots[a].stage # "free"
    BY <1>1, <2>1, StagesDiffer DEF Running
  <2>3. v.slots[a].task = w.slots[a].task /\ w.slots[a].task \in DOMAIN w.tasks
    BY <2>2, GoodFields DEF Reworked, Linked
  <2>4. v.tasks[v.slots[a].task].session = s
    BY <2>1, <2>3 DEF Reworked
  <2> QED  BY <2>2, <2>4 DEF RunningBySession
<1>3. \A s : RunningBySession(v, s) \subseteq RunningBySession(w, s)
  BY ReworkedGood
<1> QED  BY <1>1, <1>2, <1>3

(* What every step leaves. *)
Settled(w) == w \in Good /\ AllHeld(w) /\ AllNoticed(w) /\ Full(w)

(* A slot keeps its kind, and no task waits that did not. *)
LEMMA ReworkedSettled ==
    ASSUME NEW w \in Good, AllNoticed(w), Full(w), NEW v \in Reworked(w),
           \A a \in Slots : w.slots[a].stage # "free" =>
                \/ v.slots[a].stage \in TransferStages /\ w.slots[a].stage \in TransferStages
                \/ v.slots[a].stage \in ExpandStages /\ w.slots[a].stage \in ExpandStages,
           \A a \in Slots : w.slots[a].stage = "lstat" =>
                \/ v.slots[a].stage = "lstat"
                \/ v.tasks[w.slots[a].task].state # "queued",
           \A u \in DOMAIN w.tasks : Waits(v, u) =>
                /\ Waits(w, u)
                /\ v.tasks[u].classified = w.tasks[u].classified
                /\ Held(w, u)
    PROVE  Settled(v)
<1>1. /\ v \in Good /\ DOMAIN v.tasks = DOMAIN w.tasks
      /\ Running(v) = Running(w) /\ Expanding(v) = Expanding(w)
      /\ \A s : RunningBySession(v, s) = RunningBySession(w, s)
  BY ReworkedGood, SameKindCounts
<1>2. /\ v.expandQueue = w.expandQueue
      /\ \A u \in DOMAIN w.tasks : v.tasks[u].session = w.tasks[u].session
      /\ \A a \in Slots : v.slots[a].stage # "free" => v.slots[a].task = w.slots[a].task
  BY DEF Reworked
<1>3. ASSUME NEW u \in DOMAIN v.tasks, Waits(v, u) PROVE Held(v, u) /\ Noticed(v, u)
  <2>1. u \in DOMAIN w.tasks /\ Waits(w, u) /\ v.tasks[u].classified = w.tasks[u].classified
        /\ Held(w, u) /\ Noticed(w, u)
    BY <1>1, <1>3 DEF AllNoticed
  <2>2. Held(v, u)
    BY <1>1, <1>2, <2>1 DEF Held
  <2>3. CASE \E a \in Slots : w.slots[a].task = u /\ w.slots[a].stage = "lstat"
    <3>1. PICK a \in Slots : w.slots[a].task = u /\ w.slots[a].stage = "lstat"
      BY <2>3
    <3>2. v.slots[a].stage = "lstat"
      BY <1>3, <3>1 DEF Waits
    <3>3. v.slots[a].task = u
      BY <1>2, <3>1, <3>2
    <3> QED  BY <2>2, <3>2, <3>3 DEF Noticed
  <2>4. CASE \E i \in DOMAIN w.expandQueue : w.expandQueue[i] = u
    BY <1>2, <2>2, <2>4 DEF Noticed
  <2>5. CASE w.tasks[u].classified
    BY <2>1, <2>2, <2>5 DEF Noticed
  <2> QED  BY <2>1, <2>3, <2>4, <2>5 DEF Noticed
<1>4. \A u \in DOMAIN v.tasks : Held(v, u) /\ Noticed(v, u)
  BY <1>3 DEF Held, Noticed
<1>5. Full(v)
  BY <1>1, <1>2 DEF Full
<1> QED  BY <1>1, <1>4, <1>5 DEF Settled, AllHeld, AllNoticed

(* No task's handle is the slot of another task, or one that is at something else. *)
LEMMA HandlesElsewhere ==
    ASSUME NEW w \in Good, NEW a \in Slots, NEW u \in DOMAIN w.tasks, w.tasks[u].handle # 0
    PROVE  /\ w.slots[w.tasks[u].handle].stage = "work" /\ w.slots[w.tasks[u].handle].task = u
           /\ w.tasks[u].handle \in Slots
           /\ u # w.slots[a].task => w.tasks[u].handle # a
           /\ w.slots[a].stage # "work" => w.tasks[u].handle # a
<1>1. w.slots[w.tasks[u].handle].stage = "work" /\ w.slots[w.tasks[u].handle].task = u
  BY GoodFields DEF Linked
<1>2. w.tasks[u].handle \in Slots
  BY GoodFields DEF Entry
<1> QED  BY <1>1, <1>2

(* A transfer ends: its slot is free, and its task has no handle. *)
LEMMA FinishFrees ==
    ASSUME NEW w \in Good, NEW a \in Slots,
           w.slots[a].stage \in TransferStages, NEW v, v = Finish(w, a)
    PROVE  \E x \in Reworked(w) :
            /\ v = Pump(x) /\ x \in Good /\ DOMAIN x.tasks = DOMAIN w.tasks
            /\ x.entries = w.entries /\ x.expandQueue = w.expandQueue
            /\ x.slots[a].stage = "free" /\ \A b \in Slots : b # a => x.slots[b] = w.slots[b]
            /\ \A u \in DOMAIN w.tasks :
                /\ x.tasks[u].children = w.tasks[u].children
                /\ x.tasks[u].isGroup = w.tasks[u].isGroup
                /\ x.tasks[u].state = w.tasks[u].state
                /\ x.tasks[u].classified = w.tasks[u].classified
<1> DEFINE t == w.slots[a].task
           e == [w.tasks[t] EXCEPT !.handle = 0]
           y == WithTask(w, t, e)
           x == WithSlot(y, a, FreeSlot)
<1>1. /\ w \in Worlds /\ t \in DOMAIN w.tasks /\ w.tasks[t] \in Entry
      /\ DOMAIN w.tasks = 1 .. Len(w.tasks)
  BY GoodFields, StagesDiffer DEF Linked
<1>2. v = Pump(x)
  <2>1. [w EXCEPT !.slots[a] = FreeSlot, !.tasks[w.slots[a].task].handle = 0] = x
    BY DEF WithTask, WithSlot
  <2> QED  BY <2>1 DEF Finish
<1>3. /\ e \in Entry /\ e.parent = w.tasks[t].parent /\ e.children = w.tasks[t].children
      /\ e.childTotal = w.tasks[t].childTotal /\ e.session = w.tasks[t].session /\ e.handle = 0
      /\ e.state = w.tasks[t].state /\ e.classified = w.tasks[t].classified
      /\ e.isGroup = w.tasks[t].isGroup
  BY <1>1 DEF Entry
<1>4. FreeSlot \in Activity /\ FreeSlot.stage = "free"
  BY DEF FreeSlot, Activity
<1> HIDE DEF e, y, t
<1>5. /\ y \in Worlds /\ y.entries = w.entries /\ y.expandQueue = w.expandQueue
      /\ y.slots = w.slots /\ Len(y.tasks) = Len(w.tasks) /\ DOMAIN y.tasks = DOMAIN w.tasks
      /\ y.tasks[t] = e /\ \A u \in DOMAIN w.tasks : u # t => y.tasks[u] = w.tasks[u]
  BY <1>1, <1>3, WithTaskFields DEF y
<1> HIDE DEF x
<1>6. /\ x \in Worlds /\ x.tasks = y.tasks /\ x.entries = w.entries
      /\ x.expandQueue = w.expandQueue
      /\ x.slots[a].stage = "free" /\ \A b \in Slots : b # a => x.slots[b] = w.slots[b]
  BY <1>4, <1>5, WithSlotFields DEF x
<1>7. ASSUME NEW u \in DOMAIN w.tasks
      PROVE  /\ x.tasks[u].parent = w.tasks[u].parent
             /\ x.tasks[u].children = w.tasks[u].children
             /\ x.tasks[u].childTotal = w.tasks[u].childTotal
             /\ x.tasks[u].session = w.tasks[u].session
             /\ x.tasks[u].handle # 0 =>
                 x.slots[x.tasks[u].handle].stage = "work" /\ x.slots[x.tasks[u].handle].task = u
             /\ x.tasks[u].state = w.tasks[u].state
             /\ x.tasks[u].classified = w.tasks[u].classified
             /\ x.tasks[u].isGroup = w.tasks[u].isGroup
  <2>1. CASE u = t
    BY <1>3, <1>5, <1>6, <2>1
  <2>2. CASE u # t
    <3>1. x.tasks[u] = w.tasks[u]
      BY <1>5, <1>6, <2>2
    <3>2. w.tasks[u].handle # 0 =>
            x.slots[w.tasks[u].handle].stage = "work" /\ x.slots[w.tasks[u].handle].task = u
      BY <1>6, <2>2, HandlesElsewhere DEF t
    <3> QED  BY <3>1, <3>2
  <2> QED  BY <2>1, <2>2
<1>8. x \in Reworked(w)
  <2>1. \A b \in Slots : x.slots[b].stage # "free" =>
            /\ x.slots[b].task = w.slots[b].task
            /\ \/ x.slots[b].stage \in TransferStages /\ w.slots[b].stage \in TransferStages
               \/ x.slots[b].stage \in ExpandStages /\ w.slots[b].stage \in ExpandStages
    <3>1. w.slots \in [Slots -> Activity]
      BY <1>1, WorldFields
    <3>2. \A b \in Slots : w.slots[b].stage \in TransferStages \cup ExpandStages \cup {"free"}
      BY <3>1 DEF Activity
    <3> QED  BY <1>6, <3>2
  <2> QED  BY <1>5, <1>6, <1>7, <2>1 DEF Reworked
<1>9. x \in Good /\ DOMAIN x.tasks = DOMAIN w.tasks
  BY <1>8, ReworkedGood
<1> QED  BY <1>2, <1>6, <1>7, <1>8, <1>9

LEMMA FinishSettles ==
    ASSUME NEW w \in Good, AllNoticed(w), Full(w), NEW a \in Slots,
           w.slots[a].stage \in TransferStages, NEW v, v = Finish(w, a)
    PROVE  Settled(v)
<1>1. PICK x \in Reworked(w) :
            /\ v = Pump(x) /\ x \in Good /\ DOMAIN x.tasks = DOMAIN w.tasks
            /\ x.entries = w.entries /\ x.expandQueue = w.expandQueue
            /\ x.slots[a].stage = "free" /\ \A b \in Slots : b # a => x.slots[b] = w.slots[b]
            /\ \A u \in DOMAIN w.tasks :
                /\ x.tasks[u].state = w.tasks[u].state
                /\ x.tasks[u].classified = w.tasks[u].classified
  BY FinishFrees
<1>2. \A b \in Slots : w.slots[b].stage = "lstat" => b # a
  BY StagesDiffer
<1>3. \A u \in DOMAIN w.tasks : Noticed(x, u)
  <2> TAKE u \in DOMAIN w.tasks
  <2>1. Noticed(w, u) /\ (Waits(x, u) <=> Waits(w, u))
    BY <1>1 DEF AllNoticed, Waits
  <2> QED  BY <1>1, <1>2, <2>1 DEF Noticed
<1>4. Full(x)
  <2>1. Expanding(x) = Expanding(w)
    BY <1>1, StagesDiffer DEF Expanding
  <2> QED  BY <1>1, <2>1 DEF Full
<1>5. AllNoticed(x)
  BY <1>1, <1>3 DEF AllNoticed
<1> QED  BY <1>1, <1>4, <1>5, PumpKeeps DEF Settled

(* The classification of a task ends: it is classified by then, or does not wait. *)
LEMMA ExpansionFrees ==
    ASSUME NEW w \in Good, AllNoticed(w), NEW a \in Slots, w.slots[a].stage \in ExpandStages,
           w.slots[a].stage = "lstat" =>
                \/ w.tasks[w.slots[a].task].state # "queued"
                \/ w.tasks[w.slots[a].task].classified,
           NEW v, v = EndExpansion(w, a)
    PROVE  \E x \in Good : /\ v = Pump(PumpExpand(x)) /\ AllNoticed(x)
                          /\ x.tasks = w.tasks /\ x.entries = w.entries
<1> DEFINE x == WithSlot(w, a, FreeSlot)
<1>1. v = Pump(PumpExpand(x))
  BY DEF EndExpansion, WithSlot
<1>2. FreeSlot \in Activity /\ FreeSlot.stage = "free" /\ w \in Worlds
      /\ w.slots \in [Slots -> Activity]
  BY GoodFields, WorldFields DEF FreeSlot, Activity
<1> HIDE DEF x
<1>3. /\ x \in Worlds /\ x.tasks = w.tasks /\ x.entries = w.entries
      /\ x.expandQueue = w.expandQueue
      /\ x.slots[a].stage = "free" /\ \A b \in Slots : b # a => x.slots[b] = w.slots[b]
  BY <1>2, WithSlotFields DEF x
<1>4. x \in Reworked(w)
  <2>1. \A b \in Slots : x.slots[b].stage # "free" =>
            /\ x.slots[b].task = w.slots[b].task
            /\ \/ x.slots[b].stage \in TransferStages /\ w.slots[b].stage \in TransferStages
               \/ x.slots[b].stage \in ExpandStages /\ w.slots[b].stage \in ExpandStages
    <3>1. \A b \in Slots : w.slots[b].stage \in TransferStages \cup ExpandStages \cup {"free"}
      BY <1>2 DEF Activity
    <3> QED  BY <1>3, <3>1
  <2>2. \A u \in DOMAIN w.tasks : w.tasks[u].handle # 0 =>
            x.slots[w.tasks[u].handle].stage = "work" /\ x.slots[w.tasks[u].handle].task = u
    BY <1>3, HandlesElsewhere, StagesDiffer
  <2> QED  BY <1>3, <2>1, <2>2 DEF Reworked
<1>5. x \in Good
  BY <1>4, ReworkedGood
<1>6. ASSUME NEW u \in DOMAIN w.tasks, Waits(w, u), ~w.tasks[u].classified
      PROVE  \/ \E b \in Slots : x.slots[b].task = u /\ x.slots[b].stage = "lstat"
             \/ \E i \in DOMAIN x.expandQueue : x.expandQueue[i] = u
  <2>1. CASE \E b \in Slots : w.slots[b].task = u /\ w.slots[b].stage = "lstat"
    <3>1. PICK b \in Slots : w.slots[b].task = u /\ w.slots[b].stage = "lstat"
      BY <2>1
    <3>2. b # a
      BY <1>6, <3>1 DEF Waits
    <3> QED  BY <1>3, <3>1, <3>2
  <2>2. CASE \E i \in DOMAIN w.expandQueue : w.expandQueue[i] = u
    BY <1>3, <2>2
  <2> QED  BY <1>6, <2>1, <2>2 DEF AllNoticed, Noticed
<1>7. AllNoticed(x)
  BY <1>3, <1>6 DEF AllNoticed, Noticed, Waits
<1> QED  BY <1>1, <1>3, <1>5, <1>7

LEMMA EndExpansionSettles ==
    ASSUME NEW w \in Good, AllNoticed(w), NEW a \in Slots, w.slots[a].stage \in ExpandStages,
           w.slots[a].stage = "lstat" =>
                \/ w.tasks[w.slots[a].task].state # "queued"
                \/ w.tasks[w.slots[a].task].classified,
           NEW v, v = EndExpansion(w, a)
    PROVE  Settled(v)
<1>1. PICK x \in Good : v = Pump(PumpExpand(x)) /\ AllNoticed(x)
  BY ExpansionFrees
<1> QED  BY <1>1, PumpBothHolds DEF Settled, Pumped

LEMMA GoesFields ==
    ASSUME NEW w \in Worlds, NEW a \in Slots, NEW stage \in TransferStages \cup ExpandStages,
           NEW v, v = Goes(w, a, stage)
    PROVE  /\ v \in Worlds /\ v.tasks = w.tasks /\ v.entries = w.entries
           /\ v.expandQueue = w.expandQueue
           /\ v.slots[a].stage = stage /\ v.slots[a].task = w.slots[a].task
           /\ v.slots[a].signal = w.slots[a].signal
           /\ \A b \in Slots : b # a => v.slots[b] = w.slots[b]
<1> DEFINE x == [w.slots[a] EXCEPT !.stage = stage]
<1>1. w.slots \in [Slots -> Activity]
  BY WorldFields
<1>2. w.slots[a] \in Activity
  BY <1>1
<1>3. x \in Activity /\ x.stage = stage /\ x.task = w.slots[a].task /\ x.signal = w.slots[a].signal
  BY <1>2 DEF Activity
<1>4. v = WithSlot(w, a, x)
  BY DEF Goes, WithSlot
<1> HIDE DEF x
<1> QED  BY <1>3, <1>4, WithSlotFields

LEMMA GoesReworks ==
    ASSUME NEW w \in Good, NEW a \in Slots, NEW stage,
           \/ {w.slots[a].stage, stage} \subseteq TransferStages \ {"work"}
           \/ {w.slots[a].stage, stage} \subseteq ExpandStages,
           NEW v, v = Goes(w, a, stage)
    PROVE  /\ v \in Reworked(w) /\ v.tasks = w.tasks /\ v.entries = w.entries
           /\ v.slots[a].stage = stage /\ \A b \in Slots : b # a => v.slots[b] = w.slots[b]
           /\ \A b \in Slots : w.slots[b].stage # "free" =>
                \/ v.slots[b].stage \in TransferStages /\ w.slots[b].stage \in TransferStages
                \/ v.slots[b].stage \in ExpandStages /\ w.slots[b].stage \in ExpandStages
<1>1. w \in Worlds /\ w.slots \in [Slots -> Activity]
  BY GoodFields, WorldFields
<1>2. /\ v \in Worlds /\ v.tasks = w.tasks /\ v.entries = w.entries
      /\ v.expandQueue = w.expandQueue
      /\ v.slots[a].stage = stage /\ v.slots[a].task = w.slots[a].task
      /\ \A b \in Slots : b # a => v.slots[b] = w.slots[b]
  BY <1>1, GoesFields
<1>3. \A b \in Slots : w.slots[b].stage \in TransferStages \cup ExpandStages \cup {"free"}
  BY <1>1 DEF Activity
<1>4. \A b \in Slots :
        /\ v.slots[b].task = w.slots[b].task
        /\ (v.slots[b].stage # "free" <=> w.slots[b].stage # "free")
        /\ v.slots[b].stage # "free" =>
            \/ v.slots[b].stage \in TransferStages /\ w.slots[b].stage \in TransferStages
            \/ v.slots[b].stage \in ExpandStages /\ w.slots[b].stage \in ExpandStages
  <2> TAKE b \in Slots
  <2>1. CASE b = a
    BY <1>2, <2>1, StagesDiffer
  <2>2. CASE b # a
    BY <1>2, <1>3, <2>2
  <2> QED  BY <2>1, <2>2
<1>5. \A u \in DOMAIN w.tasks : w.tasks[u].handle # 0 =>
        v.slots[w.tasks[u].handle].stage = "work" /\ v.slots[w.tasks[u].handle].task = u
  <2> SUFFICES ASSUME NEW u \in DOMAIN w.tasks, w.tasks[u].handle # 0
               PROVE  v.slots[w.tasks[u].handle].stage = "work"
                      /\ v.slots[w.tasks[u].handle].task = u
    OBVIOUS
  <2>1. w.slots[a].stage # "work"
    BY StagesDiffer
  <2> QED  BY <1>1, <1>2, <2>1, HandlesElsewhere
<1>6. v \in Reworked(w)
  BY <1>2, <1>4, <1>5 DEF Reworked
<1> QED  BY <1>2, <1>4, <1>6

LEMMA GoesSettles ==
    ASSUME NEW w, Settled(w), NEW a \in Slots, NEW stage,
           \/ {w.slots[a].stage, stage} \subseteq TransferStages \ {"work"}
           \/ {w.slots[a].stage, stage} \subseteq ExpandStages \ {"lstat"},
           NEW v, v = Goes(w, a, stage)
    PROVE  Settled(v)
<1>1. w \in Good /\ AllNoticed(w) /\ AllHeld(w) /\ Full(w)
  BY DEF Settled
<1>2. /\ v \in Reworked(w) /\ v.tasks = w.tasks /\ v.entries = w.entries
      /\ v.slots[a].stage = stage /\ \A b \in Slots : b # a => v.slots[b] = w.slots[b]
      /\ \A b \in Slots : w.slots[b].stage # "free" =>
           \/ v.slots[b].stage \in TransferStages /\ w.slots[b].stage \in TransferStages
           \/ v.slots[b].stage \in ExpandStages /\ w.slots[b].stage \in ExpandStages
  BY <1>1, GoesReworks
<1>3. \A b \in Slots : w.slots[b].stage = "lstat" => v.slots[b].stage = "lstat"
  BY <1>2, StagesDiffer
<1>4. \A u \in DOMAIN w.tasks : Waits(v, u) =>
        Waits(w, u) /\ v.tasks[u].classified = w.tasks[u].classified /\ Held(w, u)
  BY <1>1, <1>2 DEF Waits, AllHeld
<1> QED  BY <1>1, <1>2, <1>3, <1>4, ReworkedSettled

LEMMA BeginWorkFields ==
    ASSUME NEW w \in Good, NEW a \in Slots, w.slots[a].stage \in TransferStages,
           NEW v, v = BeginWork(w, a), NEW t, t = w.slots[a].task
    PROVE  /\ v \in Worlds /\ v.entries = w.entries /\ v.expandQueue = w.expandQueue
           /\ Len(v.tasks) = Len(w.tasks) /\ DOMAIN v.tasks = DOMAIN w.tasks
           /\ t \in DOMAIN w.tasks
           /\ \A u \in DOMAIN w.tasks : u # t => v.tasks[u] = w.tasks[u]
           /\ v.tasks[t].parent = w.tasks[t].parent /\ v.tasks[t].children = w.tasks[t].children
           /\ v.tasks[t].childTotal = w.tasks[t].childTotal
           /\ v.tasks[t].session = w.tasks[t].session /\ v.tasks[t].handle = a
           /\ v.tasks[t].state = w.tasks[t].state /\ v.tasks[t].classified = w.tasks[t].classified
           /\ v.tasks[t].isGroup = w.tasks[t].isGroup
           /\ v.slots[a].stage = "work" /\ v.slots[a].task = t
           /\ \A b \in Slots : b # a => v.slots[b] = w.slots[b]
<1> DEFINE e == [w.tasks[t] EXCEPT !.handle = a, !.attempted = TRUE]
           x == Goes(w, a, "work")
<1>1. /\ w \in Worlds /\ t \in DOMAIN w.tasks /\ w.tasks[t] \in Entry
      /\ "work" \in TransferStages \cup ExpandStages
  BY GoodFields, StagesDiffer DEF Linked
<1>2. e \in Entry
  BY <1>1 DEF Entry
<1> HIDE DEF x
<1>3. /\ x \in Worlds /\ x.tasks = w.tasks /\ x.entries = w.entries
      /\ x.expandQueue = w.expandQueue
      /\ x.slots[a].stage = "work" /\ x.slots[a].task = t
      /\ \A b \in Slots : b # a => x.slots[b] = w.slots[b]
  BY <1>1, GoesFields DEF x
<1>4. v = WithTask(x, t, e)
  <2>1. v = [x EXCEPT !.tasks[t].handle = a, !.tasks[t].attempted = TRUE]
    BY DEF BeginWork, x
  <2>2. WithTask(x, t, [x.tasks[t] EXCEPT !.handle = a, !.attempted = TRUE])
          = [x EXCEPT !.tasks[t].handle = a, !.tasks[t].attempted = TRUE]
    BY <1>1, <1>3 DEF WithTask
  <2>3. e = [x.tasks[t] EXCEPT !.handle = a, !.attempted = TRUE]
    BY <1>3
  <2> HIDE DEF e
  <2> QED  BY <2>1, <2>2, <2>3
<1> HIDE DEF e
<1>5. /\ v \in Worlds /\ v.entries = x.entries /\ v.expandQueue = x.expandQueue
      /\ v.slots = x.slots /\ Len(v.tasks) = Len(x.tasks) /\ DOMAIN v.tasks = DOMAIN x.tasks
      /\ v.tasks[t] = e /\ \A u \in DOMAIN x.tasks : u # t => v.tasks[u] = x.tasks[u]
  BY <1>1, <1>2, <1>3, <1>4, WithTaskFields
<1>6. /\ v.tasks[t].parent = w.tasks[t].parent /\ v.tasks[t].children = w.tasks[t].children
      /\ v.tasks[t].childTotal = w.tasks[t].childTotal
      /\ v.tasks[t].session = w.tasks[t].session /\ v.tasks[t].handle = a
      /\ v.tasks[t].state = w.tasks[t].state /\ v.tasks[t].classified = w.tasks[t].classified
      /\ v.tasks[t].isGroup = w.tasks[t].isGroup
  <2>1. /\ e.parent = w.tasks[t].parent /\ e.children = w.tasks[t].children
        /\ e.childTotal = w.tasks[t].childTotal /\ e.session = w.tasks[t].session
        /\ e.handle = a /\ e.state = w.tasks[t].state
        /\ e.classified = w.tasks[t].classified /\ e.isGroup = w.tasks[t].isGroup
    BY <1>1 DEF e, Entry
  <2> QED  BY <1>5, <2>1
<1> QED  BY <1>1, <1>3, <1>5, <1>6

LEMMA BeginWorkSettles ==
    ASSUME NEW w, Settled(w), NEW a \in Slots, w.slots[a].stage \in TransferStages,
           NEW v, v = BeginWork(w, a)
    PROVE  Settled(v)
<1> DEFINE t == w.slots[a].task
<1>1. w \in Good /\ AllNoticed(w) /\ AllHeld(w) /\ Full(w) /\ w \in Worlds
      /\ w.slots \in [Slots -> Activity] /\ DOMAIN w.tasks = 1 .. Len(w.tasks)
  BY GoodFields, WorldFields DEF Settled
<1>10. t = w.slots[a].task
  OBVIOUS
<1> HIDE DEF t
<1>2. /\ v \in Worlds /\ v.entries = w.entries /\ v.expandQueue = w.expandQueue
      /\ Len(v.tasks) = Len(w.tasks) /\ DOMAIN v.tasks = DOMAIN w.tasks
      /\ t \in DOMAIN w.tasks
      /\ \A u \in DOMAIN w.tasks : u # t => v.tasks[u] = w.tasks[u]
      /\ v.tasks[t].parent = w.tasks[t].parent /\ v.tasks[t].children = w.tasks[t].children
      /\ v.tasks[t].childTotal = w.tasks[t].childTotal
      /\ v.tasks[t].session = w.tasks[t].session /\ v.tasks[t].handle = a
      /\ v.tasks[t].state = w.tasks[t].state /\ v.tasks[t].classified = w.tasks[t].classified
      /\ v.tasks[t].isGroup = w.tasks[t].isGroup
      /\ v.slots[a].stage = "work" /\ v.slots[a].task = t
      /\ \A b \in Slots : b # a => v.slots[b] = w.slots[b]
  BY <1>1, <1>10, BeginWorkFields
<1>3. \A b \in Slots : w.slots[b].stage \in TransferStages \cup ExpandStages \cup {"free"}
  BY <1>1 DEF Activity
<1>4. \A b \in Slots :
        /\ v.slots[b].task = w.slots[b].task
        /\ (v.slots[b].stage # "free" <=> w.slots[b].stage # "free")
        /\ v.slots[b].stage # "free" =>
            \/ v.slots[b].stage \in TransferStages /\ w.slots[b].stage \in TransferStages
            \/ v.slots[b].stage \in ExpandStages /\ w.slots[b].stage \in ExpandStages
  <2> TAKE b \in Slots
  <2>1. CASE b = a
    BY <1>2, <2>1, StagesDiffer DEF t
  <2>2. CASE b # a
    BY <1>2, <1>3, <2>2
  <2> QED  BY <2>1, <2>2
<1>6. ASSUME NEW u \in DOMAIN w.tasks
      PROVE  /\ v.tasks[u].parent = w.tasks[u].parent
             /\ v.tasks[u].children = w.tasks[u].children
             /\ v.tasks[u].childTotal = w.tasks[u].childTotal
             /\ v.tasks[u].session = w.tasks[u].session
             /\ v.tasks[u].handle # 0 =>
                 v.slots[v.tasks[u].handle].stage = "work" /\ v.slots[v.tasks[u].handle].task = u
             /\ v.tasks[u].state = w.tasks[u].state
             /\ v.tasks[u].classified = w.tasks[u].classified
  <2>1. CASE u = t
    BY <1>2, <2>1
  <2>2. CASE u # t
    <3>1. v.tasks[u] = w.tasks[u]
      BY <1>2, <2>2
    <3>2. w.tasks[u].handle # 0 =>
            v.slots[w.tasks[u].handle].stage = "work" /\ v.slots[w.tasks[u].handle].task = u
      <4> SUFFICES ASSUME w.tasks[u].handle # 0
                   PROVE  v.slots[w.tasks[u].handle].stage = "work"
                          /\ v.slots[w.tasks[u].handle].task = u
        OBVIOUS
      <4>1. /\ w.slots[w.tasks[u].handle].stage = "work"
            /\ w.slots[w.tasks[u].handle].task = u
            /\ w.tasks[u].handle \in Slots /\ w.tasks[u].handle # a
        BY <1>1, <1>10, <2>2, HandlesElsewhere
      <4> QED  BY <1>2, <4>1
    <3> QED  BY <3>1, <3>2
  <2> QED  BY <2>1, <2>2
<1>7. v \in Reworked(w)
  BY <1>2, <1>4, <1>6 DEF Reworked
<1>8. \A b \in Slots : w.slots[b].stage = "lstat" => v.slots[b].stage = "lstat"
  BY <1>2, StagesDiffer
<1>9. \A u \in DOMAIN w.tasks : Waits(v, u) =>
        Waits(w, u) /\ v.tasks[u].classified = w.tasks[u].classified /\ Held(w, u)
  BY <1>1, <1>2, <1>6 DEF Waits, AllHeld
<1> QED  BY <1>1, <1>4, <1>7, <1>8, <1>9, ReworkedSettled

LEMMA BeginWorkUnlessCanceledSettles ==
    ASSUME NEW w, Settled(w), NEW a \in Slots, w.slots[a].stage \in TransferStages,
           NEW v, v = BeginWorkUnlessCanceled(w, a)
    PROVE  Settled(v)
BY FinishSettles, BeginWorkSettles DEF BeginWorkUnlessCanceled, Settled

LEMMA ResolveResumeSettles ==
    ASSUME NEW w, Settled(w), NEW a \in Slots, w.slots[a].stage \in TransferStages \ {"work"},
           NEW v, v = ResolveResume(w, a)
    PROVE  Settled(v)
<1>1. {w.slots[a].stage, "resolve"} \subseteq TransferStages \ {"work"}
  BY StagesDiffer
<1>2. v = Goes(w, a, "resolve") \/ v = BeginWorkUnlessCanceled(w, a)
  BY DEF ResolveResume
<1> QED  BY <1>1, <1>2, GoesSettles, BeginWorkUnlessCanceledSettles

------------------------------------------------------------------------------
(* The steps of a transfer                                                    *)

LEMMA SettledStep ==
    ASSUME QueueInv, NEW w, Settled(w), Becomes(w), open' = open
    PROVE  QueueInv'
BY StepKeeps DEF Settled, QueueInv

LEMMA WorldSettled ==
    ASSUME QueueInv
    PROVE  /\ Settled(World) /\ World \in Good /\ AllNoticed(World) /\ Full(World)
           /\ open \subseteq Sessions
           /\ World.slots = slots /\ World.tasks = tasks /\ World.entries = entries
           /\ tasks \in Seq(Entry) /\ slots \in [Slots -> Activity]
           /\ \A a \in Slots : slots[a].stage # "free" =>
                slots[a].task \in DOMAIN tasks /\ tasks[slots[a].task] \in Entry
<1>1. Settled(World) /\ World \in Good /\ AllNoticed(World) /\ Full(World)
      /\ open \subseteq Sessions
  BY DEF QueueInv, Settled
<1>2. World.slots = slots /\ World.tasks = tasks /\ World.entries = entries
  BY DEF World
<1>3. World \in Worlds /\ Linked(World)
      /\ \A t \in DOMAIN World.tasks : World.tasks[t] \in Entry
  BY <1>1, GoodFields
<1>4. World.tasks \in Seq(Entry) /\ World.slots \in [Slots -> Activity]
  BY <1>3, WorldFields
<1> QED  BY <1>1, <1>2, <1>3, <1>4 DEF Linked

(* A state is set, and the activity ends. *)
LEMMA StateAndFinishSettle ==
    ASSUME NEW w \in Good, AllNoticed(w), Full(w), NEW a \in Slots,
           w.slots[a].stage \in TransferStages, NEW s \in States, s # "queued",
           NEW v, v = Finish(SetState(w, w.slots[a].task, s), a)
    PROVE  Settled(v)
<1>1. w.slots[a].task \in DOMAIN w.tasks
  BY GoodFields, StagesDiffer DEF Linked
<1> DEFINE x == SetState(w, w.slots[a].task, s)
<1>2. x \in Calmer(w)
  BY <1>1, SetStateAlike
<1> HIDE DEF x
<1>3. x \in Good /\ AllNoticed(x) /\ Full(x)
  BY <1>2, CalmerKeeps DEF AllNoticed
<1>4. x.slots[a].stage = w.slots[a].stage
  BY <1>2 DEF Calmer, Alike
<1>5. v = Finish(x, a)
  BY DEF x
<1> QED  BY <1>3, <1>4, <1>5, FinishSettles

LEMMA ChildItemsType ==
    ASSUME QueueInv, NEW t \in DOMAIN tasks, NEW shapes \in Seq(Shapes),
           NEW items, items = ChildItems(World, t, shapes)
    PROVE  items \in Seq(Items) /\ \A i \in DOMAIN items : items[i].parent \in entries \cup {0}
<1> DEFINE n == Len(shapes)
<1>1. n \in Nat /\ shapes \in [1 .. n -> Shapes]
  BY LenProperties
<1> HIDE DEF n
<1>2. n \in Nat /\ DOMAIN shapes = 1 .. n
  BY <1>1
<1>3. World.tasks = tasks /\ World.entries = entries /\ tasks[t] \in Entry /\ t \in Nat
  BY WorldSettled
<1>4. tasks[t].kind \in {"upload", "download"} /\ tasks[t].session \in Sessions
  BY <1>3 DEF Entry
<1> DEFINE item(i) ==
        [kind |-> World.tasks[t].kind, shape |-> shapes[i], session |-> World.tasks[t].session,
         parent |-> IF t \in World.entries THEN t ELSE 0, skipExisting |-> FALSE]
<1>5. items = [i \in 1 .. n |-> item(i)]
  BY <1>2 DEF ChildItems
<1>6. ASSUME NEW i \in 1 .. n PROVE item(i) \in Items /\ item(i).parent \in entries \cup {0}
  <2>1. shapes[i] \in Shapes
    BY <1>1
  <2> QED  BY <1>3, <1>4, <2>1 DEF Items
<1> HIDE DEF item
<1>7. items \in Seq(Items)
  BY <1>2, <1>5, <1>6, IsASeq
<1> QED  BY <1>5, <1>6, <1>7

(* The entries of a directory are enqueued, and the directory is settled if they are *)
(* all final at once.                                                                *)
LEMMA ChildrenEnqueued ==
    ASSUME QueueInv, NEW a \in Slots, slots[a].stage # "free", NEW shapes \in Seq(Shapes),
           NEW v, v = SettleGroup(Enqueue(World, ChildItems(World, slots[a].task, shapes)),
                                  slots[a].task)
    PROVE  /\ v \in Good /\ AllNoticed(v) /\ Full(v)
           /\ v.slots[a].stage = slots[a].stage /\ v.slots[a].task = slots[a].task
<1> DEFINE t == slots[a].task
           items == ChildItems(World, t, shapes)
           x == Enqueue(World, items)
<1>1. t \in DOMAIN tasks /\ World \in Good /\ AllNoticed(World) /\ World.slots = slots
      /\ World.tasks = tasks /\ World.entries = entries
  BY WorldSettled
<1> HIDE DEF items, t
<1>2. items \in Seq(Items) /\ \A i \in DOMAIN items : items[i].parent \in World.entries \cup {0}
  BY <1>1, ChildItemsType DEF items
<1>3. x \in Later(World) /\ AllNoticed(x) /\ Full(x)
  BY <1>1, <1>2, EnqueueHolds
<1>4. v = SettleGroup(x, t)
  BY DEF items, t
<1> HIDE DEF x
<1>5. /\ x \in Good /\ t \in DOMAIN x.tasks
      /\ x.slots[a].stage = slots[a].stage /\ x.slots[a].task = slots[a].task
  <2>1. x \in Good /\ Len(World.tasks) <= Len(x.tasks)
        /\ x.slots[a].stage = slots[a].stage /\ x.slots[a].task = slots[a].task
    BY <1>1, <1>3 DEF Later
  <2>2. /\ DOMAIN x.tasks = 1 .. Len(x.tasks) /\ Len(x.tasks) \in Nat
        /\ DOMAIN World.tasks = 1 .. Len(World.tasks) /\ Len(World.tasks) \in Nat
    BY <1>1, <2>1, GoodFields
  <2> QED  BY <1>1, <2>1, <2>2
<1>6. v \in Calmer(x)
  BY <1>4, <1>5, SettleGroupCalms
<1>7. v \in Good /\ AllNoticed(v) /\ Full(v)
  BY <1>3, <1>5, <1>6, CalmerKeeps DEF AllNoticed
<1>8. v.slots[a].stage = x.slots[a].stage /\ v.slots[a].task = x.slots[a].task
  BY <1>6 DEF Calmer, Alike
<1> QED  BY <1>5, <1>7, <1>8

(* A task becomes a group, and may be classified by that; nothing else changes. *)
LEMMA RemarkedTask ==
    ASSUME NEW w \in Good, NEW t \in DOMAIN w.tasks, NEW e \in Entry,
           e.parent = w.tasks[t].parent, e.children = w.tasks[t].children,
           e.childTotal = w.tasks[t].childTotal, e.session = w.tasks[t].session,
           e.handle = w.tasks[t].handle, e.state = w.tasks[t].state,
           NEW v, v = WithTask(w, t, e)
    PROVE  /\ v \in Reworked(w) /\ v \in Good /\ DOMAIN v.tasks = DOMAIN w.tasks
           /\ v.slots = w.slots /\ v.entries = w.entries
           /\ v.expandQueue = w.expandQueue
           /\ v.tasks[t] = e /\ \A u \in DOMAIN w.tasks : u # t => v.tasks[u] = w.tasks[u]
           /\ \A u \in DOMAIN w.tasks : Waits(v, u) => Waits(w, u)
           /\ Running(v) = Running(w) /\ Expanding(v) = Expanding(w)
           /\ \A s : RunningBySession(v, s) = RunningBySession(w, s)
<1>1. w \in Worlds /\ w.slots \in [Slots -> Activity]
  BY GoodFields, WorldFields
<1>2. /\ v \in Worlds /\ v.entries = w.entries /\ v.expandQueue = w.expandQueue
      /\ v.slots = w.slots /\ Len(v.tasks) = Len(w.tasks) /\ DOMAIN v.tasks = DOMAIN w.tasks
      /\ v.tasks[t] = e /\ \A u \in DOMAIN w.tasks : u # t => v.tasks[u] = w.tasks[u]
  BY <1>1, WithTaskFields
<1>3. ASSUME NEW u \in DOMAIN w.tasks
      PROVE  /\ v.tasks[u].parent = w.tasks[u].parent
             /\ v.tasks[u].children = w.tasks[u].children
             /\ v.tasks[u].childTotal = w.tasks[u].childTotal
             /\ v.tasks[u].session = w.tasks[u].session
             /\ v.tasks[u].handle = w.tasks[u].handle
             /\ v.tasks[u].state = w.tasks[u].state
  BY <1>2
<1>4. \A u \in DOMAIN w.tasks : w.tasks[u].handle # 0 =>
        w.slots[w.tasks[u].handle].stage = "work" /\ w.slots[w.tasks[u].handle].task = u
  BY GoodFields DEF Linked
<1>5. \A b \in Slots : w.slots[b].stage # "free" =>
        \/ w.slots[b].stage \in TransferStages
        \/ w.slots[b].stage \in ExpandStages
  BY <1>1 DEF Activity
<1>6. v \in Reworked(w)
  BY <1>2, <1>3, <1>4, <1>5 DEF Reworked
<1>7. \A u \in DOMAIN w.tasks : Waits(v, u) => Waits(w, u)
  BY <1>2, <1>3 DEF Waits
<1>8. /\ Running(v) = Running(w) /\ Expanding(v) = Expanding(w)
      /\ \A s : RunningBySession(v, s) = RunningBySession(w, s)
  BY <1>2, <1>5, <1>6, SameKindCounts
<1> QED  BY <1>2, <1>6, <1>7, <1>8, ReworkedGood

LEMMA GroupedSettles ==
    ASSUME NEW w, Settled(w), NEW t \in DOMAIN w.tasks,
           NEW e \in Entry,
           e.parent = w.tasks[t].parent, e.children = w.tasks[t].children,
           e.childTotal = w.tasks[t].childTotal, e.session = w.tasks[t].session,
           e.handle = w.tasks[t].handle, e.state = w.tasks[t].state,
           e.classified = w.tasks[t].classified,
           NEW v, v = WithTask(w, t, e)
    PROVE  Settled(v)
<1>1. w \in Good /\ AllHeld(w) /\ AllNoticed(w) /\ Full(w) /\ w.tasks[t] \in Entry
      /\ w.slots \in [Slots -> Activity]
  BY GoodFields, WorldFields DEF Settled
<1>3. /\ v \in Reworked(w) /\ v.slots = w.slots
      /\ v.tasks[t] = e /\ \A u \in DOMAIN w.tasks : u # t => v.tasks[u] = w.tasks[u]
      /\ \A u \in DOMAIN w.tasks : Waits(v, u) => Waits(w, u)
  BY <1>1, RemarkedTask
<1>4. \A u \in DOMAIN w.tasks : Waits(v, u) =>
        Waits(w, u) /\ v.tasks[u].classified = w.tasks[u].classified /\ Held(w, u)
  BY <1>1, <1>3 DEF AllHeld
<1>5. \A b \in Slots : w.slots[b].stage # "free" =>
        \/ w.slots[b].stage \in TransferStages
        \/ w.slots[b].stage \in ExpandStages
  BY <1>1 DEF Activity
<1> QED  BY <1>1, <1>3, <1>4, <1>5, ReworkedSettled

LEMMA ListingsAreLists == Listings \subseteq Seq(Shapes)
<1> SUFFICES ASSUME NEW shapes \in Listings PROVE shapes \in Seq(Shapes)
  OBVIOUS
<1>1. PICK n \in 0 .. MaxChildren : shapes \in [1 .. n -> Shapes]
  BY DEF Listings
<1>2. n \in Nat
  BY <1>1, LimitsAreNumbers
<1> QED  BY <1>1, <1>2

LEMMA TransferStepKeeps ==
    ASSUME QueueInv, NEW a \in Slots, TransferStep(a), open' = open
    PROVE  QueueInv'
<1>1. /\ Settled(World) /\ World \in Good /\ AllNoticed(World) /\ Full(World)
      /\ World.slots = slots /\ World.tasks = tasks /\ World.entries = entries
  BY WorldSettled
<1>2. CASE Acquired(a)
  <2> DEFINE w == IF Canceled(World, a) THEN Finish(World, a)
                  ELSE IF tasks[TaskOf(a)].kind = "download" THEN Goes(World, a, "inspect")
                  ELSE ResolveResume(World, a)
  <2>1. Becomes(w) /\ World.slots[a].stage = "acquire"
    BY <1>1, <1>2 DEF Acquired
  <2>2. {World.slots[a].stage, "inspect"} \subseteq TransferStages \ {"work"}
    BY <2>1, StagesDiffer
  <2>3. w = Finish(World, a) \/ w = Goes(World, a, "inspect") \/ w = ResolveResume(World, a)
    OBVIOUS
  <2> HIDE DEF w
  <2>4. Settled(w)
    BY <1>1, <2>2, <2>3, FinishSettles, GoesSettles, ResolveResumeSettles
  <2> QED  BY <2>1, <2>4, SettledStep
<1>3. CASE InspectedFile(a)
  <2> DEFINE w == ResolveResume(World, a)
  <2>1. Becomes(w) /\ World.slots[a].stage = "inspect"
    BY <1>1, <1>3 DEF InspectedFile
  <2> HIDE DEF w
  <2>2. Settled(w)
    BY <1>1, <2>1, ResolveResumeSettles, StagesDiffer DEF w
  <2> QED  BY <2>1, <2>2, SettledStep
<1>4. CASE InspectedDir(a)
  <2> DEFINE t == slots[a].task
             x == Goes(World, a, "listing")
             e == [tasks[t] EXCEPT !.isGroup = TRUE]
             w == [x EXCEPT !.tasks[t].isGroup = TRUE]
  <2>1. Becomes(w) /\ World.slots[a].stage = "inspect" /\ slots[a].stage # "free"
    BY <1>1, <1>4, StagesDiffer DEF InspectedDir, TaskOf
  <2>2. {World.slots[a].stage, "listing"} \subseteq TransferStages \ {"work"}
    BY <2>1, StagesDiffer
  <2> HIDE DEF x
  <2>3. Settled(x) /\ x.tasks = tasks
    <3>1. Settled(x)
      BY <1>1, <2>2, GoesSettles DEF x
    <3>2. x.tasks = tasks
      BY <1>1, <2>2, GoesReworks DEF x
    <3> QED  BY <3>1, <3>2
  <2>4. t \in DOMAIN tasks /\ tasks[t] \in Entry
    BY <2>1, WorldSettled
  <2>5. w = WithTask(x, t, e)
    <3>1. WithTask(x, t, [x.tasks[t] EXCEPT !.isGroup = TRUE]) = w
      BY DEF WithTask
    <3> HIDE DEF w
    <3> QED  BY <2>3, <3>1
  <2>6. /\ e \in Entry /\ e.parent = tasks[t].parent /\ e.children = tasks[t].children
        /\ e.childTotal = tasks[t].childTotal /\ e.session = tasks[t].session
        /\ e.handle = tasks[t].handle /\ e.state = tasks[t].state
        /\ e.classified = tasks[t].classified
    BY <2>4 DEF Entry
  <2> HIDE DEF w, e
  <2>7. Settled(w)
    BY <2>3, <2>4, <2>5, <2>6, GroupedSettles
  <2> QED  BY <2>1, <2>7, SettledStep
<1>5. CASE Packed(a)
  <2> DEFINE x == BeginWork(World, a)
             s == IF Canceled(World, a) THEN "cancel" ELSE "none"
             w == [x EXCEPT !.slots[a].signal = s]
             y == [x.slots[a] EXCEPT !.signal = s]
  <2>1. Becomes(w) /\ World.slots[a].stage = "inspect"
    BY <1>1, <1>5 DEF Packed
  <2>2. s \in {"none", "pause", "cancel"}
    OBVIOUS
  <2> HIDE DEF x, s
  <2>3. Settled(x)
    BY <1>1, <2>1, BeginWorkSettles, StagesDiffer DEF x
  <2>4. x \in Good /\ x \in Worlds /\ x.slots[a] \in Activity
    BY <2>3, GoodFields, WorldFields DEF Settled
  <2>5. y \in Activity /\ y.stage = x.slots[a].stage /\ y.task = x.slots[a].task
    BY <2>2, <2>4 DEF Activity
  <2>6. w = WithSlot(x, a, y)
    BY DEF WithSlot
  <2> HIDE DEF w, y
  <2>7. /\ w \in Worlds /\ w.tasks = x.tasks /\ w.entries = x.entries
        /\ w.expandQueue = x.expandQueue
        /\ w.slots[a] = y /\ \A b \in Slots : b # a => w.slots[b] = x.slots[b]
    BY <2>4, <2>5, <2>6, WithSlotFields
  <2>8. w \in Calmer(x)
    BY <2>4, <2>5, <2>7, SignalsAlike
  <2>9. Settled(w)
    BY <2>3, <2>8, CalmerKeeps DEF Settled, AllHeld, AllNoticed
  <2> QED  BY <2>1, <2>9, SettledStep
<1>6. CASE Listed(a)
  <2>1. World.slots[a].stage = "listing" /\ slots[a].stage # "free"
    BY <1>1, <1>6, StagesDiffer DEF Listed
  <2>2. PICK shapes \in Listings :
        Becomes(Finish(SettleGroup(Enqueue(World, ChildItems(World, TaskOf(a), shapes)),
                                   TaskOf(a)), a))
    BY <1>6 DEF Listed
  <2> DEFINE x == SettleGroup(Enqueue(World, ChildItems(World, slots[a].task, shapes)),
                              slots[a].task)
             w == Finish(x, a)
  <2>3. Becomes(w)
    BY <2>2 DEF TaskOf
  <2> HIDE DEF x
  <2>4. x \in Good /\ AllNoticed(x) /\ Full(x) /\ x.slots[a].stage = "listing"
    BY <1>1, <2>1, ChildrenEnqueued, ListingsAreLists DEF x
  <2> HIDE DEF w
  <2>5. Settled(w)
    BY <2>4, FinishSettles, StagesDiffer DEF w
  <2> QED  BY <2>3, <2>5, SettledStep
<1>7. CASE ResumeResolved(a)
  <2> DEFINE w == BeginWorkUnlessCanceled(World, a)
  <2>1. Becomes(w) /\ World.slots[a].stage = "resolve"
    BY <1>1, <1>7 DEF ResumeResolved
  <2> HIDE DEF w
  <2>2. Settled(w)
    BY <1>1, <2>1, BeginWorkUnlessCanceledSettles, StagesDiffer DEF w
  <2> QED  BY <2>1, <2>2, SettledStep
<1>8. ASSUME slots[a].stage \in TransferStages, NEW s \in States, s # "queued",
             Becomes(Finish(SetState(World, TaskOf(a), s), a))
      PROVE  QueueInv'
  <2> DEFINE w == Finish(SetState(World, World.slots[a].task, s), a)
  <2>1. Becomes(w)
    BY <1>1, <1>8 DEF TaskOf
  <2> HIDE DEF w
  <2>2. Settled(w)
    BY <1>1, <1>8, StateAndFinishSettle DEF w
  <2> QED  BY <2>1, <2>2, SettledStep
<1>9. {"done", "paused", "canceled", "skipped", "error"} \subseteq States \ {"queued"}
  BY DEF States
<1>10. CASE WorkDone(a)
  <2>1. CASE Canceled(World, a)
    <3> DEFINE w == Finish(World, a)
    <3>1. Becomes(w) /\ World.slots[a].stage = "work"
      BY <1>1, <1>10, <2>1 DEF WorkDone
    <3> HIDE DEF w
    <3>2. Settled(w)
      BY <1>1, <3>1, FinishSettles, StagesDiffer DEF w
    <3> QED  BY <3>1, <3>2, SettledStep
  <2>2. CASE ~Canceled(World, a)
    <3>1. /\ slots[a].stage \in TransferStages
          /\ Becomes(Finish(SetState(World, TaskOf(a), "done"), a))
      BY <1>10, <2>2, StagesDiffer DEF WorkDone
    <3> QED  BY <1>8, <1>9, <3>1
  <2> QED  BY <2>1, <2>2
<1>11. CASE WorkAborted(a)
  <2>1. /\ slots[a].stage \in TransferStages
        /\ \/ Becomes(Finish(SetState(World, TaskOf(a), "paused"), a))
           \/ Becomes(Finish(SetState(World, TaskOf(a), "canceled"), a))
    BY <1>11, StagesDiffer DEF WorkAborted
  <2> QED  BY <1>8, <1>9, <2>1
<1>12. CASE WorkSkipped(a)
  BY <1>8, <1>9, <1>12, StagesDiffer DEF WorkSkipped
<1>13. CASE Fails(a)
  BY <1>8, <1>9, <1>13, StagesDiffer DEF Fails
<1> QED  BY <1>2, <1>3, <1>4, <1>5, <1>6, <1>7, <1>10, <1>11, <1>12, <1>13 DEF TransferStep

------------------------------------------------------------------------------
(* The steps of an expansion                                                  *)

(* The task of slot a becomes classified: of the others, each is held as before. *)
ClassedFile(w, t) == WithTask(w, t, [w.tasks[t] EXCEPT !.classified = TRUE])

ClassedDir(w, t) == WithTask(w, t, [w.tasks[t] EXCEPT !.isGroup = TRUE, !.classified = TRUE])

LEMMA ClassedKeeps ==
    ASSUME NEW w, Settled(w), NEW a \in Slots, w.slots[a].stage \in ExpandStages,
           NEW t, t = w.slots[a].task,
           NEW v, v = ClassedFile(w, t) \/ v = ClassedDir(w, t)
    PROVE  /\ v \in Good /\ AllNoticed(v) /\ Full(v) /\ v.slots = w.slots
           /\ DOMAIN v.tasks = DOMAIN w.tasks /\ t \in DOMAIN w.tasks /\ v.tasks[t].classified
           /\ \A u \in DOMAIN w.tasks : u # t => Held(v, u)
           /\ v.entries = w.entries
           /\ \A u \in DOMAIN w.tasks : v.tasks[u].state = w.tasks[u].state
<1>1. w \in Good /\ AllHeld(w) /\ AllNoticed(w) /\ Full(w)
  BY DEF Settled
<1>2. t \in DOMAIN w.tasks /\ w.tasks[t] \in Entry
  BY <1>1, GoodFields, StagesDiffer DEF Linked
<1>3. PICK e \in Entry :
        /\ e.parent = w.tasks[t].parent /\ e.children = w.tasks[t].children
        /\ e.childTotal = w.tasks[t].childTotal /\ e.session = w.tasks[t].session
        /\ e.handle = w.tasks[t].handle /\ e.state = w.tasks[t].state /\ e.classified
        /\ v = WithTask(w, t, e)
  <2> DEFINE f == w.tasks[t]
             g == [f EXCEPT !.classified = TRUE]
             d == [f EXCEPT !.isGroup = TRUE, !.classified = TRUE]
  <2>1. v = WithTask(w, t, g) \/ v = WithTask(w, t, d)
    BY DEF ClassedFile, ClassedDir
  <2>2. /\ g \in Entry /\ g.parent = f.parent /\ g.children = f.children
        /\ g.childTotal = f.childTotal /\ g.session = f.session
        /\ g.handle = f.handle /\ g.state = f.state /\ g.classified
    BY <1>2 DEF Entry
  <2>3. /\ d \in Entry /\ d.parent = f.parent /\ d.children = f.children
        /\ d.childTotal = f.childTotal /\ d.session = f.session
        /\ d.handle = f.handle /\ d.state = f.state /\ d.classified
    BY <1>2 DEF Entry
  <2> HIDE DEF g, d
  <2> QED  BY <2>1, <2>2, <2>3
<1>5. /\ v \in Good /\ DOMAIN v.tasks = DOMAIN w.tasks
      /\ v.slots = w.slots /\ v.entries = w.entries /\ v.expandQueue = w.expandQueue
      /\ v.tasks[t] = e /\ \A u \in DOMAIN w.tasks : u # t => v.tasks[u] = w.tasks[u]
      /\ \A u \in DOMAIN w.tasks : Waits(v, u) => Waits(w, u)
      /\ Running(v) = Running(w) /\ Expanding(v) = Expanding(w)
      /\ \A s : RunningBySession(v, s) = RunningBySession(w, s)
  BY <1>1, <1>2, <1>3, RemarkedTask
<1>6. v.tasks[t].classified
  BY <1>3, <1>5
<1>7. Full(v)
  BY <1>1, <1>5 DEF Full
<1>8. ASSUME NEW u \in DOMAIN w.tasks, u # t PROVE Held(v, u)
  <2>1. v.tasks[u] = w.tasks[u] /\ (Waits(v, u) => Waits(w, u)) /\ Held(w, u)
    BY <1>1, <1>5, <1>8 DEF AllHeld
  <2> QED  BY <1>5, <2>1 DEF Held
<1>9. ASSUME NEW u \in DOMAIN v.tasks PROVE Noticed(v, u)
  <2>1. CASE u = t
    BY <1>6, <2>1 DEF Noticed
  <2>2. CASE u # t
    <3>1. v.tasks[u] = w.tasks[u] /\ (Waits(v, u) => Waits(w, u)) /\ Noticed(w, u)
      BY <1>1, <1>5, <2>2 DEF AllNoticed
    <3> QED  BY <1>5, <3>1 DEF Noticed
  <2> QED  BY <2>1, <2>2
<1>10. \A u \in DOMAIN w.tasks : v.tasks[u].state = w.tasks[u].state
  BY <1>3, <1>5
<1> QED  BY <1>2, <1>5, <1>6, <1>7, <1>8, <1>9, <1>10 DEF AllNoticed

(* A state is set, and the expansion ends. *)
LEMMA StateAndEndSettle ==
    ASSUME NEW w \in Good, AllNoticed(w), NEW a \in Slots, w.slots[a].stage \in ExpandStages,
           NEW s \in States, s # "queued",
           NEW v, v = EndExpansion(SetState(w, w.slots[a].task, s), a)
    PROVE  Settled(v)
<1> DEFINE t == w.slots[a].task
           x == SetState(w, t, s)
<1>1. t \in DOMAIN w.tasks
  BY GoodFields, StagesDiffer DEF Linked
<1>2. x \in Calmer(w) /\ x \in Restated(w, t, s)
  BY <1>1, SetStateAlike
<1> HIDE DEF x
<1>3. x \in Good /\ AllNoticed(x)
  BY <1>2, CalmerKeeps DEF AllNoticed
<1>4. x.slots[a].stage = w.slots[a].stage /\ x.slots[a].task = t
  BY <1>2 DEF Calmer, Alike
<1>5. x.tasks[t].state = s
  BY <1>1, <1>2 DEF Restated
<1>6. v = EndExpansion(x, a)
  BY DEF x
<1> QED  BY <1>3, <1>4, <1>5, <1>6, EndExpansionSettles

(* A directory: it is running from here on, and its slot goes on to list it. *)
LEMMA LstatDirSettles ==
    ASSUME NEW w, Settled(w), NEW a \in Slots, w.slots[a].stage = "lstat",
           NEW t, t = w.slots[a].task, NEW x, x = ClassedDir(w, t),
           NEW y, y = SetState(x, t, "running"), NEW v, v = Goes(y, a, "readdir")
    PROVE  Settled(v)
<1>12. w.slots[a].stage \in ExpandStages
  BY StagesDiffer
<1>1. /\ x \in Good /\ AllNoticed(x) /\ Full(x) /\ x.slots = w.slots
      /\ DOMAIN x.tasks = DOMAIN w.tasks /\ t \in DOMAIN w.tasks
      /\ \A u \in DOMAIN w.tasks : u # t => Held(x, u)
  BY <1>12, ClassedKeeps
<1>2. y \in Calmer(x) /\ y \in Restated(x, t, "running")
  <2>1. "running" \in States /\ "running" # "queued"
    BY DEF States
  <2> QED  BY <1>1, <2>1, SetStateAlike
<1>3. /\ y \in Good /\ DOMAIN y.tasks = DOMAIN w.tasks /\ AllNoticed(y) /\ Full(y)
      /\ \A u \in DOMAIN w.tasks : u # t => Held(y, u)
  BY <1>1, <1>2, CalmerKeeps DEF AllNoticed
<1>11. x.slots[a].stage = "lstat" /\ x.slots[a].task = t
  BY <1>1
<1>4. y.slots[a].stage = "lstat" /\ y.slots[a].task = t
  BY ONLY <1>2, <1>11, a \in Slots DEF Calmer, Alike
<1>5. y.tasks[t].state = "running"
  BY <1>1, <1>2 DEF Restated
<1>6. {y.slots[a].stage, "readdir"} \subseteq ExpandStages
  BY <1>4, StagesDiffer
<1>7. /\ v \in Reworked(y) /\ v.tasks = y.tasks /\ v.entries = y.entries
      /\ \A b \in Slots : b # a => v.slots[b] = y.slots[b]
      /\ \A b \in Slots : y.slots[b].stage # "free" =>
           \/ v.slots[b].stage \in TransferStages /\ y.slots[b].stage \in TransferStages
           \/ v.slots[b].stage \in ExpandStages /\ y.slots[b].stage \in ExpandStages
  <2>1. y \in Good
    BY <1>3
  <2> QED  BY ONLY <1>6, <2>1, a \in Slots, v = Goes(y, a, "readdir"), GoesReworks
<1>8. \A b \in Slots : y.slots[b].stage = "lstat" =>
        v.slots[b].stage = "lstat" \/ v.tasks[y.slots[b].task].state # "queued"
  <2>1. ASSUME NEW b \in Slots, b # a PROVE v.slots[b].stage = y.slots[b].stage
    BY <1>7, <2>1
  <2>2. v.tasks[y.slots[a].task].state # "queued"
    BY ONLY <1>4, <1>5, <1>7
  <2> QED  BY ONLY <2>1, <2>2
<1>9. \A u \in DOMAIN y.tasks : Waits(v, u) =>
        Waits(y, u) /\ v.tasks[u].classified = y.tasks[u].classified /\ Held(y, u)
  <2> SUFFICES ASSUME NEW u \in DOMAIN y.tasks, Waits(v, u)
               PROVE  Waits(y, u) /\ v.tasks[u].classified = y.tasks[u].classified /\ Held(y, u)
    OBVIOUS
  <2>1. Waits(y, u) /\ v.tasks[u] = y.tasks[u]
    BY ONLY <1>7, Waits(v, u) DEF Waits
  <2>2. u # t
    BY ONLY <1>5, <2>1 DEF Waits
  <2> QED  BY <1>3, <2>1, <2>2
<1>10. y \in Good /\ AllNoticed(y) /\ Full(y) /\ v \in Reworked(y)
  BY <1>3, <1>7
<1> QED  BY ONLY <1>7, <1>8, <1>9, <1>10, ReworkedSettled

LEMMA ExpandStepKeeps ==
    ASSUME QueueInv, NEW a \in Slots, ExpandStep(a), open' = open
    PROVE  QueueInv'
<1> DEFINE t == slots[a].task
<1>1. /\ Settled(World) /\ World \in Good /\ AllNoticed(World)
      /\ World.slots = slots /\ World.tasks = tasks /\ TaskOf(a) = t
  BY WorldSettled DEF TaskOf
<1>2. slots[a].stage \in ExpandStages /\ slots[a].stage # "free"
  BY StagesDiffer DEF ExpandStep, LstatEnds, LstatTooDeep, LstatFile, LstatDir,
        ExpansionFails, ReaddirDone, MkdirDone
<1>3. t \in DOMAIN tasks /\ tasks[t] \in Entry
  BY <1>2, WorldSettled
<1>4. {"done", "error"} \subseteq States \ {"queued"}
  BY DEF States
<1> HIDE DEF t
<1>5. t = World.slots[a].task
  BY <1>1 DEF t
<1>6. ASSUME NEW s \in {"done", "error"}, Becomes(EndExpansion(SetState(World, t, s), a))
      PROVE  QueueInv'
  <2> DEFINE w == EndExpansion(SetState(World, t, s), a)
  <2>1. Becomes(w)
    BY <1>6
  <2> HIDE DEF w
  <2>2. Settled(w)
    BY <1>1, <1>2, <1>4, <1>5, StateAndEndSettle DEF w
  <2> QED  BY <2>1, <2>2, SettledStep
<1>7. CASE LstatEnds(a)
  BY <1>1, <1>6, <1>7 DEF LstatEnds
<1>8. CASE ExpansionFails(a)
  BY <1>1, <1>6, <1>8 DEF ExpansionFails
<1> DEFINE dir == [World EXCEPT !.tasks[t].isGroup = TRUE, !.tasks[t].classified = TRUE]
           file == [World EXCEPT !.tasks[t].classified = TRUE]
<1>9. dir = ClassedDir(World, t)
  BY DEF ClassedDir, WithTask
<1>10. file = ClassedFile(World, t)
  BY DEF ClassedFile, WithTask
<1> HIDE DEF dir, file
<1>12. CASE LstatTooDeep(a)
  <2> DEFINE w == EndExpansion(SetState(dir, t, "error"), a)
  <2>1. Becomes(w)
    BY <1>1, <1>12 DEF LstatTooDeep, dir
  <2>2. dir \in Good /\ AllNoticed(dir) /\ dir.slots = slots
    BY <1>1, <1>2, <1>5, <1>9, ClassedKeeps
  <2> HIDE DEF w
  <2>3. w = EndExpansion(SetState(dir, dir.slots[a].task, "error"), a)
    BY <1>1, <1>5, <2>2 DEF w
  <2>4. Settled(w)
    BY <1>2, <1>4, <2>2, <2>3, StateAndEndSettle
  <2> QED  BY <2>1, <2>4, SettledStep
<1>13. CASE LstatFile(a)
  <2> DEFINE w == EndExpansion(file, a)
  <2>1. Becomes(w)
    BY <1>1, <1>13 DEF LstatFile, file
  <2>2. file \in Good /\ AllNoticed(file) /\ file.slots = slots /\ file.tasks[t].classified
    BY <1>1, <1>2, <1>5, <1>10, ClassedKeeps
  <2> HIDE DEF w
  <2>3. Settled(w)
    BY <1>1, <1>2, <1>5, <2>2, EndExpansionSettles DEF w
  <2> QED  BY <2>1, <2>3, SettledStep
<1>14. CASE LstatDir(a)
  <2> DEFINE y == SetState(dir, t, "running")
             w == Goes(y, a, "readdir")
  <2>1. Becomes(w) /\ World.slots[a].stage = "lstat"
    BY <1>1, <1>14 DEF LstatDir, dir
  <2> HIDE DEF w, y
  <2>2. Settled(w)
    BY <1>1, <1>5, <1>9, <2>1, LstatDirSettles DEF w, y
  <2> QED  BY <2>1, <2>2, SettledStep
<1>15. ASSUME slots[a].stage \in {"readdir", "mkdir"}, NEW shapes \in Seq(Shapes),
              Becomes(Expand(World, a, shapes))
       PROVE  QueueInv'
  <2> DEFINE x == SettleGroup(Enqueue(World, ChildItems(World, slots[a].task, shapes)),
                              slots[a].task)
             w == EndExpansion(x, a)
  <2>1. Becomes(w)
    BY <1>1, <1>15 DEF Expand
  <2> HIDE DEF x
  <2>2. x \in Good /\ AllNoticed(x) /\ x.slots[a].stage = slots[a].stage
    BY <1>2, ChildrenEnqueued DEF x
  <2> HIDE DEF w
  <2>3. Settled(w)
    BY <1>2, <1>15, <2>2, EndExpansionSettles DEF w
  <2> QED  BY <2>1, <2>3, SettledStep
<1>16. CASE ReaddirDone(a)
  <2>1. PICK shapes \in Listings :
        Becomes(IF Canceled(World, a) THEN EndExpansion(World, a)
                ELSE IF shapes = <<>> THEN Goes(World, a, "mkdir")
                ELSE Expand(World, a, shapes))
    BY <1>16 DEF ReaddirDone
  <2>2. World.slots[a].stage = "readdir"
    BY <1>1, <1>16 DEF ReaddirDone
  <2>3. CASE Canceled(World, a)
    <3> DEFINE w == EndExpansion(World, a)
    <3>1. Becomes(w)
      BY <2>1, <2>3
    <3> HIDE DEF w
    <3>2. Settled(w)
      BY <1>1, <1>2, <2>2, EndExpansionSettles DEF w
    <3> QED  BY <3>1, <3>2, SettledStep
  <2>4. CASE ~Canceled(World, a) /\ shapes = <<>>
    <3> DEFINE w == Goes(World, a, "mkdir")
    <3>1. Becomes(w)
      BY <2>1, <2>4
    <3>2. {World.slots[a].stage, "mkdir"} \subseteq ExpandStages \ {"lstat"}
      BY <2>2, StagesDiffer
    <3> HIDE DEF w
    <3>3. Settled(w)
      BY <1>1, <3>2, GoesSettles DEF w
    <3> QED  BY <3>1, <3>3, SettledStep
  <2>5. CASE ~Canceled(World, a) /\ shapes # <<>>
    <3>1. Becomes(Expand(World, a, shapes))
      BY <2>1, <2>5
    <3> QED  BY <1>1, <1>15, <2>2, <3>1, ListingsAreLists
  <2> QED  BY <2>3, <2>4, <2>5
<1>17. CASE MkdirDone(a)
  <2>1. Becomes(Expand(World, a, <<>>)) /\ slots[a].stage \in {"readdir", "mkdir"}
    BY <1>17 DEF MkdirDone
  <2>2. <<>> \in Seq(Shapes)
    OBVIOUS
  <2> QED  BY <1>15, <2>1, <2>2
<1> QED  BY <1>7, <1>8, <1>12, <1>13, <1>14, <1>16, <1>17 DEF ExpandStep

------------------------------------------------------------------------------
(* The specification                                                          *)

LEMMA InitGood ==
    ASSUME Init
    PROVE  QueueInv
<1>1. /\ World.tasks = <<>> /\ World.entries = {} /\ World.expandQueue = <<>>
      /\ World.slots = [a \in Slots |-> FreeSlot] /\ open = Sessions
  BY DEF Init, World
<1>2. FreeSlot \in Activity /\ FreeSlot.stage = "free"
  BY DEF FreeSlot, Activity
<1>3. \A a \in Slots : World.slots[a].stage = "free"
  BY <1>1, <1>2
<1>4. World.slots \in [Slots -> Activity]
  BY <1>1, <1>2
<1>5. <<>> \in Seq(Entry) /\ <<>> \in Seq(Nat) /\ {} \in SUBSET Nat
  OBVIOUS
<1>6. World \in Worlds
  <2>1. World = [tasks |-> World.tasks, entries |-> World.entries,
                 expandQueue |-> World.expandQueue, slots |-> World.slots]
    BY DEF World
  <2> QED  BY <1>1, <1>4, <1>5, <2>1 DEF Worlds
<1>7. Linked(World)
  BY <1>1, <1>3 DEF Linked
<1>8. Running(World) = {} /\ Expanding(World) = {} /\ \A s : RunningBySession(World, s) = {}
  BY <1>3, StagesDiffer DEF Running, Expanding, RunningBySession
<1>9. Limited(World)
  BY <1>8, FS_EmptySet, LimitsAreNumbers DEF Limited
<1>10. AllHeld(World) /\ AllNoticed(World) /\ Full(World)
  BY <1>1 DEF AllHeld, AllNoticed, Full
<1> QED  BY <1>1, <1>6, <1>7, <1>9, <1>10 DEF QueueInv, Good

LEMMA NextKeepsQueue ==
    ASSUME QueueInv, [Next]_vars
    PROVE  QueueInv'
<1>1. CASE UNCHANGED vars
  <2>1. World' = World /\ open' = open
    BY <1>1 DEF World, vars
  <2> QED  BY <2>1 DEF QueueInv
<1>2. CASE UserStep
  <2>1. {"pause", "resume", "cancel", "retry"} = Ops
    BY DEF Ops
  <2> QED  BY <1>2, <2>1, EnqueueFilesKeeps, ClearFinishedKeeps, CancelAllKeeps, ControlKeeps,
              ControlAllKeeps, CloseSessionKeeps DEF UserStep
<1>3. ASSUME NEW a \in Slots, SlotStep(a) PROVE QueueInv'
  <2>1. open' = open /\ (TransferStep(a) \/ ExpandStep(a))
    BY <1>3 DEF SlotStep
  <2> QED  BY <2>1, TransferStepKeeps, ExpandStepKeeps
<1> QED  BY <1>1, <1>2, <1>3 DEF Next

(* The inductive invariant. *)
THEOREM QueueInvariant == Spec => []QueueInv
<1>1. Init => QueueInv
  BY InitGood
<1>2. QueueInv /\ [Next]_vars => QueueInv'
  BY NextKeepsQueue
<1> QED  BY <1>1, <1>2, PTL DEF Spec

LEMMA CommandsCounted == Spec => [](commands \in 0 .. MaxCommands)
<1>1. Init => commands \in 0 .. MaxCommands
  BY QueueAssumption DEF Init, QueueAssumption
<1>2. commands \in 0 .. MaxCommands /\ [Next]_vars => (commands \in 0 .. MaxCommands)'
  <2> SUFFICES ASSUME commands \in 0 .. MaxCommands, [Next]_vars
               PROVE  (commands \in 0 .. MaxCommands)'
    OBVIOUS
  <2>1. CASE UserStep
    <3>1. Command
      BY <2>1 DEF UserStep, EnqueueFiles, ClearFinished, CancelAll, Control, ControlAll,
                  CloseSession
    <3> QED  BY <3>1, QueueAssumption DEF Command, QueueAssumption
  <2>2. CASE UNCHANGED commands
    BY <2>2
  <2> QED  BY <2>1, <2>2 DEF Next, SlotStep, vars
<1> QED  BY <1>1, <1>2, PTL DEF Spec

LEMMA QueueInvTypes ==
    ASSUME QueueInv, commands \in 0 .. MaxCommands
    PROVE  TypeOK
<1>1. World \in Good /\ open \subseteq Sessions
  BY DEF QueueInv
<1>2. /\ World.tasks = tasks /\ World.entries = entries /\ World.expandQueue = expandQueue
      /\ World.slots = slots
  BY DEF World
<1>3. World \in Worlds /\ Linked(World)
  BY <1>1, GoodFields
<1>4. tasks \in Seq(Entry) /\ slots \in [Slots -> Activity] /\ expandQueue \in Seq(Nat)
  BY <1>2, <1>3, WorldFields
<1>5. expandQueue \in Seq(DOMAIN tasks)
  <2>1. \A i \in DOMAIN expandQueue : expandQueue[i] \in DOMAIN tasks
    BY <1>2, <1>3 DEF Linked
  <2>2. DOMAIN expandQueue = 1 .. Len(expandQueue) /\ Len(expandQueue) \in Nat
        /\ expandQueue = [i \in 1 .. Len(expandQueue) |-> expandQueue[i]]
    BY <1>4
  <2> QED  BY <2>1, <2>2, IsASeq
<1>6. /\ entries \subseteq DOMAIN tasks
      /\ \A t \in DOMAIN tasks :
            /\ tasks[t].children \subseteq t + 1 .. Len(tasks)
            /\ tasks[t].parent < t
            /\ tasks[t].handle # 0 =>
                slots[tasks[t].handle].stage = "work" /\ slots[tasks[t].handle].task = t
      /\ \A a \in Slots : slots[a].stage # "free" => slots[a].task \in DOMAIN tasks
  BY <1>2, <1>3 DEF Linked
<1> QED  BY <1>1, <1>4, <1>5, <1>6 DEF TypeOK

(* Every task keeps its type, the links between tasks, the queue and the slots *)
(* stay within what exists.                                                    *)
THEOREM QueueTypeCorrect == Spec => []TypeOK
<1>1. QueueInv /\ commands \in 0 .. MaxCommands => TypeOK
  BY QueueInvTypes
<1> QED  BY <1>1, QueueInvariant, CommandsCounted, PTL

LEMMA QueueInvStrandsNone ==
    ASSUME QueueInv
    PROVE  NeverStranded
<1>1. /\ World \in Good /\ AllHeld(World) /\ AllNoticed(World) /\ Full(World)
      /\ World.tasks = tasks /\ World.entries = entries /\ World.expandQueue = expandQueue
      /\ World.slots = slots
  BY DEF QueueInv, World
<1>2. Limited(World) /\ entries \subseteq DOMAIN tasks
      /\ \A t \in DOMAIN tasks : tasks[t] \in Entry
  BY <1>1, GoodFields
<1> SUFFICES ASSUME NEW t \in entries, tasks[t].state = "queued"
             PROVE  IF tasks[t].classified
                    THEN \/ Cardinality(Running(World)) = GlobalLimit
                         \/ Cardinality(RunningBySession(World, tasks[t].session)) = SessionLimit
                    ELSE \/ \E a \in Slots : slots[a].task = t /\ slots[a].stage = "lstat"
                         \/ /\ Contains(expandQueue, t)
                            /\ Cardinality(Expanding(World)) = ExpandLimit
  BY DEF NeverStranded
<1>3. t \in DOMAIN tasks /\ tasks[t].session \in Sessions /\ Waits(World, t)
      /\ Held(World, t) /\ Noticed(World, t)
  BY <1>1, <1>2 DEF Entry, Waits, AllHeld, AllNoticed
<1>4. CASE tasks[t].classified
  <2>1. \/ Cardinality(Running(World)) >= GlobalLimit
        \/ Cardinality(RunningBySession(World, tasks[t].session)) >= SessionLimit
    BY <1>1, <1>3, <1>4 DEF Held
  <2>2. /\ Cardinality(Running(World)) <= GlobalLimit
        /\ Cardinality(RunningBySession(World, tasks[t].session)) <= SessionLimit
    BY <1>2, <1>3 DEF Limited
  <2> QED  BY <1>4, <2>1, <2>2, CountsAreNumbers, LimitsAreNumbers
<1>5. CASE ~tasks[t].classified
  <2>1. \/ \E a \in Slots : slots[a].task = t /\ slots[a].stage = "lstat"
        \/ \E i \in DOMAIN expandQueue : expandQueue[i] = t
    BY <1>1, <1>3, <1>5 DEF Noticed
  <2>2. CASE \E i \in DOMAIN expandQueue : expandQueue[i] = t
    <3>1. expandQueue # <<>>
      BY <2>2
    <3>2. Cardinality(Expanding(World)) >= ExpandLimit
      BY <1>1, <3>1 DEF Full
    <3>3. Cardinality(Expanding(World)) <= ExpandLimit
      BY <1>2 DEF Limited
    <3>4. Cardinality(Expanding(World)) = ExpandLimit
      BY <3>2, <3>3, CountsAreNumbers, LimitsAreNumbers
    <3>5. Contains(expandQueue, t)
      <4>1. DOMAIN expandQueue = 1 .. Len(expandQueue)
        BY <1>1, GoodFields, WorldFields
      <4> QED  BY <2>2, <4>1 DEF Contains
    <3> QED  BY <1>5, <3>4, <3>5
  <2> QED  BY <1>5, <2>1, <2>2
<1> QED  BY <1>4, <1>5

(* No queued task is forgotten: a task that waits is held back by a limit that is *)
(* reached, or is being classified, or is in the queue for it.                    *)
THEOREM NeverStrandedHolds == Spec => []NeverStranded
<1>1. QueueInv => NeverStranded
  BY QueueInvStrandsNone
<1> QED  BY <1>1, QueueInvariant, PTL

------------------------------------------------------------------------------
(* Groups are closed after their children                                     *)

(* The tasks of S that are done are groups all of whose children have ended, with *)
(* no error unless the group is p, which is looked at next.                       *)
ClosedBut(S, w, p) ==
    \A u \in S : w.tasks[u].state = "done" =>
        /\ w.tasks[u].isGroup
        /\ \A c \in w.tasks[u].children :
            w.tasks[c].state \in FinalStates /\ (u # p => w.tasks[c].state # "error")

Closed(S, w) ==
    \A u \in S : w.tasks[u].state = "done" =>
        /\ w.tasks[u].isGroup
        /\ \A c \in w.tasks[u].children : w.tasks[c].state \in FinalStates \ {"error"}

NoneDone(S, w) == \A u \in S : w.tasks[u].state # "done"

LEMMA ClosedAtNone ==
    ASSUME NEW S, NEW w, 0 \notin S
    PROVE  ClosedBut(S, w, 0) => Closed(S, w)
BY DEF ClosedBut, Closed

(* The same tasks, in other states. *)
SameTree(w) ==
    {v \in Worlds :
        /\ v.entries = w.entries /\ Len(v.tasks) = Len(w.tasks)
        /\ \A u \in DOMAIN w.tasks :
            /\ v.tasks[u].parent = w.tasks[u].parent
            /\ v.tasks[u].children = w.tasks[u].children
            /\ v.tasks[u].childTotal = w.tasks[u].childTotal
            /\ v.tasks[u].isGroup = w.tasks[u].isGroup}

LEMMA PutFields ==
    ASSUME NEW w \in Good, NEW x \in SameTree(w), NEW t \in DOMAIN w.tasks, NEW s \in States
    PROVE  /\ Put(x, t, s).world \in SameTree(w)
           /\ Put(x, t, s).above = IF s \in FinalStates THEN w.tasks[t].parent ELSE 0
           /\ Put(x, t, s).world.tasks[t].state = s
           /\ \A u \in DOMAIN w.tasks : u # t => Put(x, t, s).world.tasks[u] = x.tasks[u]
<1> DEFINE v == WithState(x, t, s)
<1>1. /\ x \in Worlds /\ x.entries = w.entries /\ Len(x.tasks) = Len(w.tasks)
      /\ \A u \in DOMAIN w.tasks :
            /\ x.tasks[u].parent = w.tasks[u].parent
            /\ x.tasks[u].children = w.tasks[u].children
            /\ x.tasks[u].childTotal = w.tasks[u].childTotal
            /\ x.tasks[u].isGroup = w.tasks[u].isGroup
  BY DEF SameTree
<1>2. /\ DOMAIN x.tasks = DOMAIN w.tasks
      /\ \A u \in DOMAIN w.tasks : x.tasks[u] \in Entry
  BY <1>1, GoodFields, WorldFields
<1>3. /\ v \in Worlds
      /\ v.entries = x.entries /\ v.expandQueue = x.expandQueue /\ v.slots = x.slots
      /\ Len(v.tasks) = Len(x.tasks) /\ DOMAIN v.tasks = DOMAIN x.tasks
      /\ v.tasks[t] = [x.tasks[t] EXCEPT !.state = s]
      /\ \A u \in DOMAIN x.tasks : u # t => v.tasks[u] = x.tasks[u]
  BY <1>1, <1>2, WithStateFields
<1>4. Put(x, t, s) = [world |-> v, above |-> IF s \in FinalStates THEN x.tasks[t].parent ELSE 0]
  BY DEF Put, WithState
<1> HIDE DEF v
<1>5. Put(x, t, s).world = v
      /\ Put(x, t, s).above = IF s \in FinalStates THEN w.tasks[t].parent ELSE 0
  BY <1>1, <1>4
<1>6. /\ v.tasks[t].parent = x.tasks[t].parent /\ v.tasks[t].children = x.tasks[t].children
      /\ v.tasks[t].childTotal = x.tasks[t].childTotal
      /\ v.tasks[t].isGroup = x.tasks[t].isGroup /\ v.tasks[t].state = s
  <2>1. x.tasks[t] \in Entry
    BY <1>2
  <2> QED  BY <1>3, <2>1 DEF Entry
<1>7. ASSUME NEW u \in DOMAIN w.tasks
      PROVE  /\ v.tasks[u].parent = w.tasks[u].parent
             /\ v.tasks[u].children = w.tasks[u].children
             /\ v.tasks[u].childTotal = w.tasks[u].childTotal
             /\ v.tasks[u].isGroup = w.tasks[u].isGroup
  <2>1. CASE u = t
    BY <1>1, <1>6, <2>1
  <2>2. CASE u # t
    BY <1>1, <1>2, <1>3, <2>2
  <2> QED  BY <2>1, <2>2
<1>8. v \in SameTree(w)
  BY <1>1, <1>3, <1>7 DEF SameTree
<1> QED  BY <1>2, <1>3, <1>5, <1>6, <1>8

(* One task's state is set.  If that breaks the promise of a group, it is the group *)
(* above the task, and it is looked at next.                                        *)
LEMMA PutCloses ==
    ASSUME NEW w \in Good, NEW S, S \subseteq w.entries,
           NEW x \in SameTree(w), NEW t \in DOMAIN w.tasks, NEW s \in States,
           ClosedBut(S, x, t),
           s = "done" /\ t \in S =>
                /\ x.tasks[t].isGroup
                /\ \A c \in x.tasks[t].children : x.tasks[c].state \in FinalStates \ {"error"},
           s \in FinalStates \/ x.tasks[t].state \notin FinalStates \/ NoneDone(S, x)
    PROVE  ClosedBut(S, Put(x, t, s).world, Put(x, t, s).above)
<1> DEFINE v == Put(x, t, s).world
           p == Put(x, t, s).above
<1>1. /\ v \in SameTree(w) /\ p = IF s \in FinalStates THEN w.tasks[t].parent ELSE 0
      /\ v.tasks[t].state = s /\ \A u \in DOMAIN w.tasks : u # t => v.tasks[u] = x.tasks[u]
  BY PutFields
<1> HIDE DEF v, p
<1>2. /\ \A u \in DOMAIN w.tasks : /\ v.tasks[u].children = w.tasks[u].children
                                   /\ v.tasks[u].isGroup = w.tasks[u].isGroup
                                   /\ x.tasks[u].children = w.tasks[u].children
                                   /\ x.tasks[u].isGroup = w.tasks[u].isGroup
  BY <1>1 DEF SameTree
<1>3. /\ S \subseteq DOMAIN w.tasks /\ DOMAIN w.tasks = 1 .. Len(w.tasks) /\ Len(w.tasks) \in Nat
      /\ \A u \in DOMAIN w.tasks : u \in Nat /\ w.tasks[u].children \subseteq u + 1 .. Len(w.tasks)
      /\ \A u \in S : \A c \in w.tasks[u].children : w.tasks[c].parent = u
  BY GoodFields DEF Linked
<1> SUFFICES ASSUME NEW u \in S, v.tasks[u].state = "done"
             PROVE  /\ v.tasks[u].isGroup
                    /\ \A c \in v.tasks[u].children :
                        v.tasks[c].state \in FinalStates /\ (u # p => v.tasks[c].state # "error")
  BY DEF ClosedBut, v, p
<1>4. u \in DOMAIN w.tasks /\ v.tasks[u].children = w.tasks[u].children
      /\ x.tasks[u].children = w.tasks[u].children
      /\ \A c \in w.tasks[u].children : c \in DOMAIN w.tasks /\ c # u
  BY <1>2, <1>3
<1>5. CASE u = t
  <2>1. /\ x.tasks[u].isGroup
        /\ \A c \in x.tasks[u].children : x.tasks[c].state \in FinalStates \ {"error"}
    BY <1>1, <1>5
  <2>2. \A c \in w.tasks[u].children : v.tasks[c] = x.tasks[c]
    BY <1>1, <1>4, <1>5
  <2> QED  BY <1>2, <1>4, <2>1, <2>2
<1>6. CASE u # t
  <2>1. x.tasks[u].state = "done"
    BY <1>1, <1>4, <1>6
  <2>2. /\ x.tasks[u].isGroup
        /\ \A c \in x.tasks[u].children :
            x.tasks[c].state \in FinalStates /\ x.tasks[c].state # "error"
    BY <1>6, <2>1 DEF ClosedBut
  <2>3. ASSUME NEW c \in w.tasks[u].children
        PROVE  v.tasks[c].state \in FinalStates /\ (u # p => v.tasks[c].state # "error")
    <3>1. CASE c # t
      BY <1>1, <1>4, <2>2, <3>1
    <3>2. CASE c = t
      <4>1. w.tasks[t].parent = u /\ x.tasks[t].state \in FinalStates
        BY <1>3, <1>4, <2>2, <3>2
      <4>2. ~NoneDone(S, x)
        BY <2>1 DEF NoneDone
      <4>3. s \in FinalStates
        BY <4>1, <4>2
      <4>4. p = u
        BY <1>1, <4>1, <4>3
      <4> QED  BY <1>1, <3>2, <4>3, <4>4
    <3> QED  BY <3>1, <3>2
  <2> QED  BY <1>2, <1>4, <2>2, <2>3
<1> QED  BY <1>5, <1>6

(* What HasEnded and Outcome say of a group. *)
LEMMA EndedMeansAll ==
    ASSUME NEW w \in Good, NEW x \in SameTree(w), NEW t \in DOMAIN w.tasks
    PROVE  /\ HasEnded(x, t) =>
                /\ x.tasks[t].isGroup
                /\ \A c \in x.tasks[t].children : x.tasks[c].state \in FinalStates
           /\ /\ x.tasks[t].isGroup /\ x.tasks[t].state # "canceled"
              /\ \A c \in x.tasks[t].children : x.tasks[c].state \in FinalStates
              => HasEnded(x, t)
           /\ Outcome(x, t) = "done" =>
                \A c \in x.tasks[t].children : x.tasks[c].state # "error"
           /\ Outcome(x, t) \in {"done", "error"}
<1> DEFINE C == w.tasks[t].children
           E == EndedAs(x, t, FinalStates)
<1>1. x.tasks[t].children = C /\ x.tasks[t].childTotal = Cardinality(C)
  BY GoodFields DEF SameTree, Linked
<1>2. IsFiniteSet(C) /\ Cardinality(C) \in Nat
  BY ChildrenFinite
<1> HIDE DEF C
<1>3. E = {c \in C : x.tasks[c].state \in FinalStates}
  BY <1>1 DEF EndedAs
<1> HIDE DEF E
<1>4. E \subseteq C /\ \A c \in C : c \in E <=> x.tasks[c].state \in FinalStates
  BY <1>3
<1>5. IsFiniteSet(E) /\ Cardinality(E) <= Cardinality(C) /\ Cardinality(E) \in Nat
      /\ (Cardinality(C) = Cardinality(E) => C = E)
  BY <1>2, <1>4, FS_Subset, FS_CardinalityType
<1>6. HasEnded(x, t) <=> x.tasks[t].isGroup /\ x.tasks[t].state # "canceled"
                         /\ Cardinality(E) >= Cardinality(C)
  BY <1>1 DEF HasEnded, E
<1>7. Cardinality(E) >= Cardinality(C) <=> E = C
  BY <1>2, <1>5
<1>8. Outcome(x, t) = "done" => \A c \in C : x.tasks[c].state # "error"
  BY <1>1 DEF Outcome, EndedAs
<1>9. Outcome(x, t) \in {"done", "error"}
  BY DEF Outcome
<1> QED  BY <1>1, <1>4, <1>6, <1>7, <1>8, <1>9

(* On the way up: the promise of each group but the next, which comes before t. *)
LEMMA SetStateCloses ==
    ASSUME NEW w \in Good, NEW S, S \subseteq w.entries, Closed(S, w),
           NEW t \in DOMAIN w.tasks, NEW s \in States,
           s = "done" /\ t \in S =>
                /\ w.tasks[t].isGroup
                /\ \A c \in w.tasks[t].children : w.tasks[c].state \in FinalStates \ {"error"},
           s \in FinalStates \/ w.tasks[t].state \notin FinalStates \/ NoneDone(S, w)
    PROVE  Closed(S, SetState(w, t, s))
<1> DEFINE M(n) == {m \in [world : SameTree(w), above : Nat] :
                        /\ m.above = 0 \/ m.above + n < t
                        /\ ClosedBut(S, m.world, m.above)}
           I == [n \in 0 .. t |-> M(n)]
<1>1. /\ DOMAIN w.tasks = 1 .. Len(w.tasks) /\ Len(w.tasks) \in Nat
      /\ t \in Nat /\ t > 0 /\ t \in DOMAIN w.tasks
      /\ \A u \in DOMAIN w.tasks : w.tasks[u].parent \in Nat /\ w.tasks[u].parent < u
      /\ 0 \notin S
  <2>1. /\ DOMAIN w.tasks = 1 .. Len(w.tasks) /\ Len(w.tasks) \in Nat
        /\ S \subseteq DOMAIN w.tasks
        /\ \A u \in DOMAIN w.tasks : w.tasks[u] \in Entry /\ w.tasks[u].parent < u
    BY GoodFields DEF Linked
  <2>2. \A u \in DOMAIN w.tasks : w.tasks[u].parent \in Nat
    BY <2>1 DEF Entry
  <2> QED  BY <2>1, <2>2
<1>2. w \in SameTree(w)
  BY GoodFields DEF SameTree
<1>3. FinalStates \subseteq States /\ "done" \in FinalStates /\ "error" \in FinalStates
  BY DEF FinalStates, States
<1>4. ASSUME NEW x \in SameTree(w), NEW u \in DOMAIN w.tasks, NEW r \in States,
             NEW n \in 0 .. t, (n = 0 /\ u = t) \/ u + n <= t
      PROVE  /\ Put(x, u, r).world \in SameTree(w) /\ Put(x, u, r).above \in Nat
             /\ Put(x, u, r).above = 0 \/ Put(x, u, r).above + n < t
             /\ Put(x, u, r) = [world |-> Put(x, u, r).world, above |-> Put(x, u, r).above]
  <2>1. /\ Put(x, u, r).world \in SameTree(w)
        /\ Put(x, u, r).above = IF r \in FinalStates THEN w.tasks[u].parent ELSE 0
    BY PutFields
  <2>2. Put(x, u, r) = [world |-> Put(x, u, r).world, above |-> Put(x, u, r).above]
    BY DEF Put
  <2>3. /\ Put(x, u, r).above \in Nat
        /\ Put(x, u, r).above = 0 \/ Put(x, u, r).above + n < t
    BY <1>1, <1>4, <2>1
  <2> QED  BY <2>1, <2>2, <2>3
<1>5. Put(w, t, s) \in I[0]
  <2>1. ClosedBut(S, w, t)
    BY DEF Closed, ClosedBut
  <2>2. ClosedBut(S, Put(w, t, s).world, Put(w, t, s).above)
    BY <1>2, <2>1, PutCloses
  <2>3. /\ Put(w, t, s).world \in SameTree(w) /\ Put(w, t, s).above \in Nat
        /\ Put(w, t, s).above = 0 \/ Put(w, t, s).above + 0 < t
        /\ Put(w, t, s) = [world |-> Put(w, t, s).world, above |-> Put(w, t, s).above]
    <3>1. t \in DOMAIN w.tasks /\ 0 \in 0 .. t
      BY <1>1
    <3> QED  BY ONLY <1>2, <1>4, <3>1, s \in States
  <2>4. Put(w, t, s) \in M(0)
    BY <2>2, <2>3
  <2> HIDE DEF M
  <2> QED  BY <1>1, <2>4
<1>6. ASSUME NEW n \in 1 .. t, NEW m \in I[n - 1] PROVE Climb(m) \in I[n]
  <2>1. m \in M(n - 1)
    <3> HIDE DEF M
    <3> QED  BY <1>1
  <2> DEFINE x == m.world
             p == m.above
  <2>2. /\ x \in SameTree(w) /\ p \in Nat /\ (p = 0 \/ p + (n - 1) < t)
        /\ ClosedBut(S, x, p) /\ m = [world |-> x, above |-> p]
    BY <2>1
  <2>3. CASE p # 0 /\ HasEnded(x, p)
    <3> DEFINE o == Outcome(x, p)
    <3>1. p \in DOMAIN w.tasks /\ p + n <= t
      BY <1>1, <2>2, <2>3
    <3> HIDE DEF x, p
    <3>2. /\ x.tasks[p].isGroup
          /\ \A c \in x.tasks[p].children : x.tasks[c].state \in FinalStates
          /\ o = "done" => \A c \in x.tasks[p].children : x.tasks[c].state # "error"
          /\ o \in {"done", "error"}
      BY <2>2, <2>3, <3>1, EndedMeansAll
    <3> HIDE DEF o
    <3>3. o \in States /\ o \in FinalStates
      BY <1>3, <3>2
    <3>4. ClosedBut(S, Put(x, p, o).world, Put(x, p, o).above)
      BY <2>2, <3>1, <3>2, <3>3, PutCloses
    <3>5. /\ Put(x, p, o).world \in SameTree(w) /\ Put(x, p, o).above \in Nat
          /\ Put(x, p, o).above = 0 \/ Put(x, p, o).above + n < t
          /\ Put(x, p, o) = [world |-> Put(x, p, o).world, above |-> Put(x, p, o).above]
      BY <1>1, <1>4, <2>2, <3>1, <3>3
    <3>6. Put(x, p, o) \in M(n)
      BY <3>4, <3>5
    <3>7. Climb(m) = Put(x, p, o)
      BY <2>3 DEF Climb, x, p, o
    <3> HIDE DEF M
    <3> QED  BY <1>1, <3>6, <3>7
  <2>4. CASE ~(p # 0 /\ HasEnded(x, p))
    <3>1. Climb(m) = [world |-> x, above |-> 0]
      BY <2>2, <2>4 DEF Climb
    <3> HIDE DEF x, p
    <3>2. ClosedBut(S, x, 0)
      <4> SUFFICES ASSUME NEW u \in S, x.tasks[u].state = "done"
                   PROVE  /\ x.tasks[u].isGroup
                          /\ \A c \in x.tasks[u].children :
                                /\ x.tasks[c].state \in FinalStates
                                /\ u # 0 => x.tasks[c].state # "error"
        BY DEF ClosedBut
      <4>1. /\ x.tasks[u].isGroup
            /\ \A c \in x.tasks[u].children :
                  x.tasks[c].state \in FinalStates /\ (u # p => x.tasks[c].state # "error")
        BY <2>2 DEF ClosedBut
      <4>2. u # p
        <5> SUFFICES ASSUME u = p PROVE FALSE
          OBVIOUS
        <5>1. p # 0 /\ p \in DOMAIN w.tasks
          BY <1>1, GoodFields
        <5>2. x.tasks[p].isGroup /\ x.tasks[p].state # "canceled"
              /\ \A c \in x.tasks[p].children : x.tasks[c].state \in FinalStates
          BY <4>1
        <5>3. HasEnded(x, p)
          BY <2>2, <5>1, <5>2, EndedMeansAll
        <5> QED  BY <2>4, <5>1, <5>3
      <4> QED  BY <4>1, <4>2
    <3>3. [world |-> x, above |-> 0] \in M(n)
      BY <2>2, <3>2
    <3> HIDE DEF M
    <3> QED  BY <1>1, <3>1, <3>3
  <2> QED  BY <2>3, <2>4
<1>7. PICK m \in I[t] : SetState(w, t, s) = m.world
  <2> HIDE DEF I
  <2>1. \A n \in 1 .. t : \A m \in I[n - 1] : Climb(m) \in I[n]
    BY <1>6
  <2> QED  BY <1>1, <1>5, <2>1, ClimbKeeps
<1>8. m \in M(t)
  <2> HIDE DEF M
  <2> QED  BY <1>1
<1>9. m.above = 0 /\ ClosedBut(S, m.world, m.above)
  BY <1>1, <1>8
<1> QED  BY <1>1, <1>7, <1>9, ClosedAtNone

LEMMA OccupyKeepsTasks ==
    ASSUME NEW w \in Good, NEW t, NEW stage,
           Cardinality(Running(w)) < GlobalLimit, NEW v, v = Occupy(w, t, stage)
    PROVE  v.tasks = w.tasks
<1>1. PICK a \in Slots : v = Occupied(w, a, t, stage)
  BY OccupyTakesFree
<1>2. w \in Worlds
  BY GoodFields
<1> QED  BY <1>1, <1>2 DEF Occupied, Worlds

LEMMA StartIfDueCloses ==
    ASSUME NEW w \in Good, NEW S, S \subseteq w.entries, Closed(S, w),
           NEW t \in DOMAIN w.tasks, NEW v, v = StartIfDue(w, t)
    PROVE  Closed(S, v)
<1> DEFINE Due == /\ t \in w.entries
                  /\ w.tasks[t].state = "queued"
                  /\ w.tasks[t].classified
                  /\ Cardinality(Running(w)) < GlobalLimit
                  /\ Cardinality(RunningBySession(w, w.tasks[t].session)) < SessionLimit
<1>1. CASE ~Due
  BY <1>1 DEF StartIfDue
<1>2. ASSUME Due, NEW s \in {"running", "error"} PROVE Closed(S, SetState(w, t, s))
  <2>1. w.tasks[t].state \notin FinalStates /\ s \in States /\ s # "done"
    BY <1>2 DEF FinalStates, States
  <2> QED  BY <2>1, SetStateCloses
<1>3. CASE Due /\ w.tasks[t].session \in open
  <2> DEFINE x == SetState(w, t, "running")
  <2>1. x \in Alike(w)
    BY SetStateAlike DEF States
  <2>2. Closed(S, x)
    BY <1>2, <1>3
  <2>3. v = Occupy(x, t, "acquire")
    BY <1>3 DEF StartIfDue, Start
  <2> HIDE DEF x
  <2>4. x \in Good /\ Running(x) = Running(w)
    BY <2>1, AlikeCounts DEF Alike
  <2>5. v.tasks = x.tasks
    BY <1>3, <2>3, <2>4, OccupyKeepsTasks
  <2> QED  BY <2>2, <2>5 DEF Closed
<1>4. CASE Due /\ w.tasks[t].session \notin open
  <2>1. v = SetState(w, t, "error")
    BY <1>4 DEF StartIfDue, Start
  <2> QED  BY <1>2, <1>4, <2>1
<1> QED  BY <1>1, <1>3, <1>4

(* No start of a task makes a group end before its children. *)
LEMMA PumpCloses ==
    ASSUME NEW w \in Good, NEW S, S \subseteq w.entries, Closed(S, w), NEW v, v = Pump(w)
    PROVE  Closed(S, v)
<1> DEFINE N == Len(w.tasks)
           I == [n \in 0 .. N |-> {x \in Pumped(w) : Closed(S, x)}]
           loop == [do |-> "start"]
<1>1. N \in Nat /\ DOMAIN w.tasks = 1 .. N /\ w \in Worlds
  BY GoodFields
<1>2. Len(Numbers(w)) = N /\ \A n \in 1 .. N : Numbers(w)[n] = n
  BY <1>1, NumbersFields
<1>3. w \in I[0]
  BY <1>1, AlikeReflexive, CalmerPumped
<1>4. ASSUME NEW n \in 1 .. N, NEW x \in I[n - 1] PROVE Body(x, Numbers(w)[n], loop) \in I[n]
  <2>1. x \in Pumped(w) /\ Closed(S, x)
    BY <1>1
  <2>2. x \in Good /\ DOMAIN x.tasks = DOMAIN w.tasks /\ S \subseteq x.entries
    BY <2>1, PumpedHeld DEF Pumped
  <2> DEFINE y == StartIfDue(x, n)
  <2>3. Body(x, Numbers(w)[n], loop) = y
    BY <1>2 DEF Body
  <2> HIDE DEF y
  <2>4. y \in Pumped(x) /\ Closed(S, y)
    BY <1>1, <2>1, <2>2, StartIfDuePumps, StartIfDueCloses DEF y
  <2>5. y \in Pumped(w)
    BY <2>1, <2>4, PumpedTransitive
  <2> QED  BY <1>1, <2>3, <2>4, <2>5
<1>5. v = Each(w, Numbers(w), loop)
  BY DEF Pump
<1>6. v \in I[N]
  <2> HIDE DEF I, loop, N
  <2> QED  BY <1>1, <1>2, <1>3, <1>4, <1>5, EachKeeps
<1> QED  BY <1>1, <1>6

LEMMA PumpBothCloses ==
    ASSUME NEW w \in Good, AllNoticed(w), NEW S, S \subseteq w.entries, Closed(S, w),
           NEW v, v = Pump(PumpExpand(w))
    PROVE  Closed(S, v)
<1> DEFINE x == PumpExpand(w)
<1>1. x \in Pumped(w) /\ x.tasks = w.tasks
  BY PumpExpandHolds
<1> HIDE DEF x
<1>2. x \in Good /\ S \subseteq x.entries /\ Closed(S, x)
  BY <1>1 DEF Pumped, Closed
<1> QED  BY <1>2, PumpCloses DEF x

LEMMA SettleGroupCloses ==
    ASSUME NEW w \in Good, NEW S, S \subseteq w.entries, Closed(S, w), NEW t \in DOMAIN w.tasks
    PROVE  Closed(S, SettleGroup(w, t))
<1>1. CASE ~HasEnded(w, t)
  BY <1>1 DEF SettleGroup
<1>2. CASE HasEnded(w, t)
  <2> DEFINE s == Outcome(w, t)
  <2>1. w \in SameTree(w)
    BY GoodFields DEF SameTree
  <2> HIDE DEF s
  <2>2. /\ w.tasks[t].isGroup
        /\ \A c \in w.tasks[t].children : w.tasks[c].state \in FinalStates
        /\ s = "done" => \A c \in w.tasks[t].children : w.tasks[c].state # "error"
        /\ s \in {"done", "error"}
    BY <1>2, <2>1, EndedMeansAll DEF s
  <2>3. s \in States /\ s \in FinalStates
    BY <2>2 DEF States, FinalStates
  <2>4. Closed(S, SetState(w, t, s))
    BY <2>2, <2>3, SetStateCloses
  <2> QED  BY <1>2, <2>4 DEF SettleGroup, s
<1> QED  BY <1>1, <1>2

(* New tasks in a directory that is not done yet. *)
LEMMA EnqueueCloses ==
    ASSUME NEW w \in Good, AllNoticed(w), NEW items \in Seq(Items),
           \A i \in DOMAIN items : items[i].parent \in w.entries \cup {0},
           NEW S, S \subseteq w.entries, NoneDone(S, w),
           NEW v, v = Enqueue(w, items)
    PROVE  Closed(S, v)
<1> DEFINE x == Each(w, items, [do |-> "add"])
<1>1. x \in Added(w) /\ x \in Good
  BY AddAllKeeps
<1>2. v = Pump(PumpExpand(x))
  BY DEF Enqueue
<1> HIDE DEF x
<1>3. AllNoticed(x) /\ S \subseteq x.entries /\ \A u \in S : x.tasks[u].state = w.tasks[u].state
  BY <1>1, GoodFields DEF Added, Later
<1>4. Closed(S, x)
  BY <1>3 DEF Closed, NoneDone
<1> QED  BY <1>1, <1>2, <1>3, <1>4, PumpBothCloses

LEMMA FinishCloses ==
    ASSUME NEW w \in Good, NEW S, S \subseteq w.entries, Closed(S, w), NEW a \in Slots,
           w.slots[a].stage \in TransferStages, NEW v, v = Finish(w, a)
    PROVE  Closed(S, v)
<1>1. PICK x \in Reworked(w) :
            /\ v = Pump(x) /\ x \in Good
            /\ x.entries = w.entries
            /\ \A u \in DOMAIN w.tasks :
                /\ x.tasks[u].children = w.tasks[u].children
                /\ x.tasks[u].isGroup = w.tasks[u].isGroup
                /\ x.tasks[u].state = w.tasks[u].state
  BY FinishFrees
<1>2. S \subseteq DOMAIN w.tasks /\ \A u \in S : w.tasks[u].children \subseteq DOMAIN w.tasks
  BY GoodFields DEF Linked
<1>3. Closed(S, x)
  BY <1>1, <1>2 DEF Closed
<1> QED  BY <1>1, <1>3, PumpCloses

LEMMA EndExpansionCloses ==
    ASSUME NEW w \in Good, AllNoticed(w), NEW S, S \subseteq w.entries, Closed(S, w),
           NEW a \in Slots, w.slots[a].stage \in ExpandStages,
           w.slots[a].stage = "lstat" =>
                \/ w.tasks[w.slots[a].task].state # "queued"
                \/ w.tasks[w.slots[a].task].classified,
           NEW v, v = EndExpansion(w, a)
    PROVE  Closed(S, v)
<1>1. PICK x \in Good : /\ v = Pump(PumpExpand(x)) /\ AllNoticed(x)
                        /\ x.tasks = w.tasks /\ x.entries = w.entries
  BY ExpansionFrees
<1>2. Closed(S, x)
  BY <1>1 DEF Closed
<1> QED  BY <1>1, <1>2, PumpBothCloses

LEMMA NoneDoneCloses ==
    ASSUME NEW S, NEW w, NoneDone(S, w)
    PROVE  Closed(S, w)
BY DEF NoneDone, Closed

LEMMA ClosedStep ==
    ASSUME NEW S, NEW w, Closed(S, w), Becomes(w)
    PROVE  Closed(S, World')
<1>1. World'.tasks = w.tasks
  BY DEF Becomes, World
<1> QED  BY <1>1 DEF Closed

(* A state is set, and the activity ends. *)
LEMMA StateAndFinishClose ==
    ASSUME NEW w \in Good, NEW S, S \subseteq w.entries, NoneDone(S, w), NEW a \in Slots,
           w.slots[a].stage \in TransferStages, NEW s \in States,
           s = "done" => w.slots[a].task \notin S,
           NEW v, v = Finish(SetState(w, w.slots[a].task, s), a)
    PROVE  Closed(S, v)
<1> DEFINE t == w.slots[a].task
           x == SetState(w, t, s)
<1>1. t \in DOMAIN w.tasks
  BY GoodFields, StagesDiffer DEF Linked
<1> HIDE DEF t
<1>2. x \in Alike(w) /\ Closed(S, x)
  BY <1>1, SetStateAlike, SetStateCloses, NoneDoneCloses DEF t
<1>3. v = Finish(x, a)
  BY DEF t
<1> HIDE DEF x
<1>4. x \in Good /\ x.entries = w.entries /\ x.slots[a].stage = w.slots[a].stage
  BY <1>2 DEF Alike
<1> QED  BY <1>2, <1>3, <1>4, FinishCloses

LEMMA BeginWorkUnlessCanceledCloses ==
    ASSUME NEW w \in Good, NEW S, S \subseteq w.entries, NoneDone(S, w), NEW a \in Slots,
           w.slots[a].stage \in TransferStages, NEW v, v = BeginWorkUnlessCanceled(w, a)
    PROVE  Closed(S, v)
<1>1. CASE v = Finish(w, a)
  BY <1>1, FinishCloses, NoneDoneCloses
<1>2. CASE v = BeginWork(w, a)
  <2>1. \A u \in DOMAIN w.tasks : v.tasks[u].state = w.tasks[u].state
    BY <1>2, BeginWorkFields
  <2>2. NoneDone(S, v)
    BY <2>1, GoodFields DEF NoneDone
  <2> QED  BY <2>2, NoneDoneCloses
<1> QED  BY <1>1, <1>2 DEF BeginWorkUnlessCanceled

LEMMA GoesCloses ==
    ASSUME NEW w \in Good, NEW S, NoneDone(S, w), NEW a \in Slots, NEW stage,
           NEW v, v = Goes(w, a, stage)
    PROVE  Closed(S, v) /\ v.tasks = w.tasks
<1>1. v.tasks = w.tasks
  <2>1. w \in Worlds
    BY GoodFields
  <2> QED  BY <2>1 DEF Goes, Worlds
<1>2. NoneDone(S, v)
  BY <1>1 DEF NoneDone
<1> QED  BY <1>1, <1>2, NoneDoneCloses

LEMMA ResolveResumeCloses ==
    ASSUME NEW w \in Good, NEW S, S \subseteq w.entries, NoneDone(S, w), NEW a \in Slots,
           w.slots[a].stage \in TransferStages, NEW v, v = ResolveResume(w, a)
    PROVE  Closed(S, v)
BY GoesCloses, BeginWorkUnlessCanceledCloses DEF ResolveResume

LEMMA ListingCloses ==
    ASSUME QueueInv, NEW S, S \subseteq entries, NoneDone(S, World),
           NEW a \in Slots, slots[a].stage # "free", NEW shapes \in Seq(Shapes),
           NEW v, v = SettleGroup(Enqueue(World, ChildItems(World, slots[a].task, shapes)),
                                  slots[a].task)
    PROVE  Closed(S, v) /\ S \subseteq v.entries
<1> DEFINE t == slots[a].task
           items == ChildItems(World, t, shapes)
           x == Enqueue(World, items)
<1>1. t \in DOMAIN tasks /\ World \in Good /\ AllNoticed(World)
      /\ World.tasks = tasks /\ World.entries = entries
  BY WorldSettled
<1> HIDE DEF items, t
<1>2. items \in Seq(Items) /\ \A i \in DOMAIN items : items[i].parent \in World.entries \cup {0}
  BY <1>1, ChildItemsType DEF items
<1>3. x \in Later(World) /\ Closed(S, x)
  BY <1>1, <1>2, EnqueueHolds, EnqueueCloses
<1>4. v = SettleGroup(x, t)
  BY DEF items, t
<1> HIDE DEF x
<1>5. x \in Good /\ t \in DOMAIN x.tasks /\ S \subseteq x.entries
  <2>1. x \in Good /\ Len(World.tasks) <= Len(x.tasks) /\ World.entries \subseteq x.entries
    BY <1>1, <1>3 DEF Later
  <2>2. /\ DOMAIN x.tasks = 1 .. Len(x.tasks) /\ Len(x.tasks) \in Nat
        /\ DOMAIN World.tasks = 1 .. Len(World.tasks) /\ Len(World.tasks) \in Nat
    BY <1>1, <2>1, GoodFields
  <2> QED  BY <1>1, <2>1, <2>2
<1>6. v \in Calmer(x) /\ Closed(S, v)
  BY <1>3, <1>4, <1>5, SettleGroupCalms, SettleGroupCloses
<1> QED  BY <1>5, <1>6 DEF Calmer, Alike

(* The tasks the promise is about, while no activity closes them in another way. *)
Watched ==
    {t \in entries : /\ tasks[t].state # "done"
                     /\ \A a \in Slots : slots[a].task = t =>
                            slots[a].stage \notin {"work", "lstat"}}

LEMMA WatchedFields ==
    ASSUME QueueInv
    PROVE  /\ Watched \subseteq World.entries /\ Watched \subseteq entries
           /\ NoneDone(Watched, World) /\ Closed(Watched, World)
           /\ \A a \in Slots : slots[a].stage \in {"work", "lstat"} => slots[a].task \notin Watched
<1>1. World.tasks = tasks /\ World.entries = entries
  BY DEF World
<1>2. NoneDone(Watched, World)
  BY <1>1 DEF NoneDone, Watched
<1> QED  BY <1>1, <1>2, NoneDoneCloses DEF Watched

LEMMA TransferStepCloses ==
    ASSUME QueueInv, NEW a \in Slots, TransferStep(a)
    PROVE  Closed(Watched, World')
<1> DEFINE S == Watched
<1>1. /\ Settled(World) /\ World \in Good /\ AllNoticed(World) /\ Full(World)
      /\ World.slots = slots /\ World.tasks = tasks /\ World.entries = entries
  BY WorldSettled
<1>2. S \subseteq World.entries /\ S \subseteq entries /\ NoneDone(S, World) /\ Closed(S, World)
      /\ \A b \in Slots : slots[b].stage \in {"work", "lstat"} => slots[b].task \notin S
  BY WatchedFields
<1> HIDE DEF S
<1> SUFFICES Closed(S, World')
  BY DEF S
<1>3. CASE Acquired(a)
  <2> DEFINE w == IF Canceled(World, a) THEN Finish(World, a)
                  ELSE IF tasks[TaskOf(a)].kind = "download" THEN Goes(World, a, "inspect")
                  ELSE ResolveResume(World, a)
  <2>1. Becomes(w) /\ World.slots[a].stage \in TransferStages
    BY <1>1, <1>3, StagesDiffer DEF Acquired
  <2>2. w = Finish(World, a) \/ w = Goes(World, a, "inspect") \/ w = ResolveResume(World, a)
    OBVIOUS
  <2> HIDE DEF w
  <2>3. Closed(S, w)
    BY <1>1, <1>2, <2>1, <2>2, FinishCloses, GoesCloses, ResolveResumeCloses
  <2> QED  BY <2>1, <2>3, ClosedStep
<1>4. CASE InspectedFile(a)
  <2> DEFINE w == ResolveResume(World, a)
  <2>1. Becomes(w) /\ World.slots[a].stage \in TransferStages
    BY <1>1, <1>4, StagesDiffer DEF InspectedFile
  <2> HIDE DEF w
  <2>2. Closed(S, w)
    BY <1>1, <1>2, <2>1, ResolveResumeCloses DEF w
  <2> QED  BY <2>1, <2>2, ClosedStep
<1>5. CASE InspectedDir(a)
  <2> DEFINE t == slots[a].task
             x == Goes(World, a, "listing")
             e == [tasks[t] EXCEPT !.isGroup = TRUE]
             w == [x EXCEPT !.tasks[t].isGroup = TRUE]
  <2>1. Becomes(w) /\ World.slots[a].stage = "inspect" /\ slots[a].stage # "free"
    BY <1>1, <1>5, StagesDiffer DEF InspectedDir, TaskOf
  <2> HIDE DEF x
  <2>2. x.tasks = tasks /\ x \in Worlds
    <3>1. {World.slots[a].stage, "listing"} \subseteq TransferStages \ {"work"}
      BY <2>1, StagesDiffer
    <3> QED  BY <1>1, <3>1, GoesReworks DEF x, Reworked
  <2>3. t \in DOMAIN tasks /\ tasks[t] \in Entry
    BY <2>1, WorldSettled
  <2>4. w = WithTask(x, t, e)
    <3>1. WithTask(x, t, [x.tasks[t] EXCEPT !.isGroup = TRUE]) = w
      BY DEF WithTask
    <3> HIDE DEF w
    <3> QED  BY <2>2, <3>1
  <2>5. e \in Entry /\ e.state = tasks[t].state
    BY <2>3 DEF Entry
  <2> HIDE DEF w, e, t
  <2>6. w.tasks[t] = e /\ \A u \in DOMAIN tasks : u # t => w.tasks[u] = tasks[u]
    BY <2>2, <2>3, <2>4, <2>5, WithTaskFields
  <2>7. \A u \in DOMAIN tasks : w.tasks[u].state = tasks[u].state
    BY <2>5, <2>6
  <2>8. NoneDone(S, w)
    BY <1>1, <1>2, <2>7, GoodFields DEF NoneDone
  <2> QED  BY <2>1, <2>8, NoneDoneCloses, ClosedStep
<1>6. CASE Packed(a)
  <2> DEFINE x == BeginWork(World, a)
             s == IF Canceled(World, a) THEN "cancel" ELSE "none"
             w == [x EXCEPT !.slots[a].signal = s]
  <2>1. Becomes(w) /\ World.slots[a].stage \in TransferStages
    BY <1>1, <1>6, StagesDiffer DEF Packed
  <2> HIDE DEF x, s
  <2>2. x \in Worlds /\ \A u \in DOMAIN World.tasks : x.tasks[u].state = World.tasks[u].state
    BY <1>1, <2>1, BeginWorkFields DEF x
  <2>3. w.tasks = x.tasks
    BY <2>2 DEF Worlds
  <2> HIDE DEF w
  <2>4. NoneDone(S, w)
    BY <1>1, <1>2, <2>2, <2>3, GoodFields DEF NoneDone
  <2> QED  BY <2>1, <2>4, NoneDoneCloses, ClosedStep
<1>7. CASE Listed(a)
  <2>1. World.slots[a].stage = "listing" /\ slots[a].stage # "free"
    BY <1>1, <1>7, StagesDiffer DEF Listed
  <2>2. PICK shapes \in Listings :
        Becomes(Finish(SettleGroup(Enqueue(World, ChildItems(World, TaskOf(a), shapes)),
                                   TaskOf(a)), a))
    BY <1>7 DEF Listed
  <2> DEFINE x == SettleGroup(Enqueue(World, ChildItems(World, slots[a].task, shapes)),
                              slots[a].task)
             w == Finish(x, a)
  <2>3. Becomes(w)
    BY <2>2 DEF TaskOf
  <2> HIDE DEF x
  <2>4. x \in Good /\ x.slots[a].stage = "listing"
    BY <1>1, <2>1, ChildrenEnqueued, ListingsAreLists DEF x
  <2>5. Closed(S, x) /\ S \subseteq x.entries
    BY <1>2, <2>1, ListingCloses, ListingsAreLists DEF x
  <2> HIDE DEF w
  <2>6. Closed(S, w)
    BY <2>4, <2>5, FinishCloses, StagesDiffer DEF w
  <2> QED  BY <2>3, <2>6, ClosedStep
<1>8. CASE ResumeResolved(a)
  <2> DEFINE w == BeginWorkUnlessCanceled(World, a)
  <2>1. Becomes(w) /\ World.slots[a].stage \in TransferStages
    BY <1>1, <1>8, StagesDiffer DEF ResumeResolved
  <2> HIDE DEF w
  <2>2. Closed(S, w)
    BY <1>1, <1>2, <2>1, BeginWorkUnlessCanceledCloses DEF w
  <2> QED  BY <2>1, <2>2, ClosedStep
<1>9. ASSUME slots[a].stage \in TransferStages, NEW s \in States,
             s = "done" => slots[a].task \notin S,
             Becomes(Finish(SetState(World, TaskOf(a), s), a))
      PROVE  Closed(S, World')
  <2> DEFINE w == Finish(SetState(World, World.slots[a].task, s), a)
  <2>1. Becomes(w)
    BY <1>1, <1>9 DEF TaskOf
  <2> HIDE DEF w
  <2>2. Closed(S, w)
    BY <1>1, <1>2, <1>9, StateAndFinishClose DEF w
  <2> QED  BY <2>1, <2>2, ClosedStep
<1>10. {"done", "paused", "canceled", "skipped", "error"} \subseteq States
  BY DEF States
<1>11. CASE WorkDone(a)
  <2>1. CASE Canceled(World, a)
    <3> DEFINE w == Finish(World, a)
    <3>1. Becomes(w) /\ World.slots[a].stage \in TransferStages
      BY <1>1, <1>11, <2>1, StagesDiffer DEF WorkDone
    <3> HIDE DEF w
    <3>2. Closed(S, w)
      BY <1>1, <1>2, <3>1, FinishCloses DEF w
    <3> QED  BY <3>1, <3>2, ClosedStep
  <2>2. CASE ~Canceled(World, a)
    <3>1. /\ slots[a].stage \in TransferStages /\ slots[a].stage = "work"
          /\ Becomes(Finish(SetState(World, TaskOf(a), "done"), a))
      BY <1>11, <2>2, StagesDiffer DEF WorkDone
    <3>2. slots[a].task \notin S
      BY <1>2, <3>1
    <3> QED  BY <1>9, <1>10, <3>1, <3>2
  <2> QED  BY <2>1, <2>2
<1>12. CASE WorkAborted(a)
  <2>1. /\ slots[a].stage \in TransferStages
        /\ \/ Becomes(Finish(SetState(World, TaskOf(a), "paused"), a))
           \/ Becomes(Finish(SetState(World, TaskOf(a), "canceled"), a))
    BY <1>12, StagesDiffer DEF WorkAborted
  <2> QED  BY <1>9, <1>10, <2>1
<1>13. CASE WorkSkipped(a)
  BY <1>9, <1>10, <1>13, StagesDiffer DEF WorkSkipped
<1>14. CASE Fails(a)
  BY <1>9, <1>10, <1>14, StagesDiffer DEF Fails
<1> QED  BY <1>3, <1>4, <1>5, <1>6, <1>7, <1>8, <1>11, <1>12, <1>13, <1>14 DEF TransferStep

LEMMA StateAndEndClose ==
    ASSUME NEW w \in Good, AllNoticed(w), NEW S, S \subseteq w.entries, NoneDone(S, w),
           NEW a \in Slots, w.slots[a].stage \in ExpandStages,
           NEW s \in States, s # "queued", s = "done" => w.slots[a].task \notin S,
           NEW v, v = EndExpansion(SetState(w, w.slots[a].task, s), a)
    PROVE  Closed(S, v)
<1> DEFINE t == w.slots[a].task
           x == SetState(w, t, s)
<1>1. t \in DOMAIN w.tasks
  BY GoodFields, StagesDiffer DEF Linked
<1>2. x \in Calmer(w) /\ x \in Restated(w, t, s)
  BY <1>1, SetStateAlike
<1>3. Closed(S, x)
  BY <1>1, SetStateCloses, NoneDoneCloses
<1> HIDE DEF x
<1>4. x \in Good /\ AllNoticed(x)
  BY <1>2, CalmerKeeps DEF AllNoticed
<1>5. x.slots[a].stage = w.slots[a].stage /\ x.slots[a].task = t /\ x.entries = w.entries
  BY <1>2 DEF Calmer, Alike
<1>6. x.tasks[t].state = s
  BY <1>1, <1>2 DEF Restated
<1>7. v = EndExpansion(x, a)
  BY DEF x
<1> QED  BY <1>3, <1>4, <1>5, <1>6, <1>7, EndExpansionCloses

LEMMA ExpandStepCloses ==
    ASSUME QueueInv, NEW a \in Slots, ExpandStep(a)
    PROVE  Closed(Watched, World')
<1> DEFINE S == Watched
           t == slots[a].task
<1>1. /\ Settled(World) /\ World \in Good /\ AllNoticed(World)
      /\ World.slots = slots /\ World.tasks = tasks /\ World.entries = entries /\ TaskOf(a) = t
  BY WorldSettled DEF TaskOf
<1>2. S \subseteq World.entries /\ S \subseteq entries /\ NoneDone(S, World) /\ Closed(S, World)
      /\ \A b \in Slots : slots[b].stage \in {"work", "lstat"} => slots[b].task \notin S
  BY WatchedFields
<1>3. slots[a].stage \in ExpandStages /\ slots[a].stage # "free"
  BY StagesDiffer DEF ExpandStep, LstatEnds, LstatTooDeep, LstatFile, LstatDir,
        ExpansionFails, ReaddirDone, MkdirDone
<1>4. t \in DOMAIN tasks /\ t = World.slots[a].task
  BY <1>1, <1>3, WorldSettled
<1>5. {"done", "error", "running"} \subseteq States \ {"queued"}
  BY DEF States
<1> HIDE DEF S, t
<1> SUFFICES Closed(S, World')
  BY DEF S
<1>6. ASSUME NEW s \in {"done", "error"}, s = "done" => t \notin S,
             Becomes(EndExpansion(SetState(World, t, s), a))
      PROVE  Closed(S, World')
  <2> DEFINE w == EndExpansion(SetState(World, t, s), a)
  <2>1. Becomes(w)
    BY <1>6
  <2> HIDE DEF w
  <2>2. Closed(S, w)
    BY <1>1, <1>2, <1>3, <1>4, <1>5, <1>6, StateAndEndClose DEF w
  <2> QED  BY <2>1, <2>2, ClosedStep
<1>7. CASE LstatEnds(a)
  <2>1. t \notin S
    BY <1>1, <1>2, <1>4, <1>7 DEF LstatEnds
  <2> QED  BY <1>1, <1>6, <1>7, <2>1 DEF LstatEnds
<1>8. CASE ExpansionFails(a)
  BY <1>1, <1>6, <1>8 DEF ExpansionFails
<1> DEFINE dir == [World EXCEPT !.tasks[t].isGroup = TRUE, !.tasks[t].classified = TRUE]
           file == [World EXCEPT !.tasks[t].classified = TRUE]
<1>9. dir = ClassedDir(World, t) /\ file = ClassedFile(World, t)
  BY DEF ClassedDir, ClassedFile, WithTask
<1> HIDE DEF dir, file
<1>10. ASSUME NEW x, x = dir \/ x = file
       PROVE  /\ x \in Good /\ AllNoticed(x) /\ x.slots = slots /\ t \in DOMAIN x.tasks
              /\ S \subseteq x.entries /\ NoneDone(S, x) /\ Closed(S, x) /\ x.tasks[t].classified
  <2>1. x = ClassedFile(World, t) \/ x = ClassedDir(World, t)
    BY <1>9, <1>10
  <2>2. /\ x \in Good /\ AllNoticed(x) /\ x.slots = slots /\ t \in DOMAIN x.tasks
        /\ x.tasks[t].classified /\ x.entries = entries
        /\ \A u \in DOMAIN World.tasks : x.tasks[u].state = World.tasks[u].state
    BY <1>1, <1>3, <1>4, <2>1, ClassedKeeps
  <2>3. NoneDone(S, x)
    BY <1>1, <1>2, <2>2, GoodFields DEF NoneDone
  <2> QED  BY <1>2, <2>2, <2>3, NoneDoneCloses
<1>11. CASE LstatTooDeep(a)
  <2> DEFINE w == EndExpansion(SetState(dir, t, "error"), a)
  <2>1. Becomes(w)
    BY <1>1, <1>11 DEF LstatTooDeep, dir
  <2> HIDE DEF w
  <2>2. dir.slots[a].task = t
    BY <1>1, <1>4, <1>10
  <2>3. Closed(S, w)
    BY <1>3, <1>5, <1>10, <2>2, StateAndEndClose DEF w
  <2> QED  BY <2>1, <2>3, ClosedStep
<1>12. CASE LstatFile(a)
  <2> DEFINE w == EndExpansion(file, a)
  <2>1. Becomes(w)
    BY <1>1, <1>12 DEF LstatFile, file
  <2> HIDE DEF w
  <2>2. file.slots[a].task = t
    BY <1>1, <1>4, <1>10
  <2>3. Closed(S, w)
    BY <1>3, <1>10, <2>2, EndExpansionCloses DEF w
  <2> QED  BY <2>1, <2>3, ClosedStep
<1>13. CASE LstatDir(a)
  <2> DEFINE y == SetState(dir, t, "running")
             w == Goes(y, a, "readdir")
  <2>1. Becomes(w)
    BY <1>1, <1>13 DEF LstatDir, dir
  <2> HIDE DEF w
  <2>2. y \in Alike(dir) /\ Closed(S, y)
    <3>1. dir \in Good /\ S \subseteq dir.entries /\ NoneDone(S, dir) /\ Closed(S, dir)
          /\ t \in DOMAIN dir.tasks
      BY <1>10
    <3>2. "running" \in States /\ "running" # "done"
      BY DEF States
    <3> QED  BY <3>1, <3>2, SetStateAlike, SetStateCloses
  <2> HIDE DEF y
  <2>3. w.tasks = y.tasks
    <3>1. y \in Worlds
      BY <2>2, GoodFields DEF Alike
    <3> QED  BY <3>1 DEF w, Goes, Worlds
  <2>4. Closed(S, w)
    BY <2>2, <2>3 DEF Closed
  <2> QED  BY <2>1, <2>4, ClosedStep
<1>14. ASSUME slots[a].stage \in {"readdir", "mkdir"}, NEW shapes \in Seq(Shapes),
              Becomes(Expand(World, a, shapes))
       PROVE  Closed(S, World')
  <2> DEFINE x == SettleGroup(Enqueue(World, ChildItems(World, slots[a].task, shapes)),
                              slots[a].task)
             w == EndExpansion(x, a)
  <2>1. Becomes(w)
    BY <1>1, <1>14 DEF Expand
  <2> HIDE DEF x
  <2>2. x \in Good /\ AllNoticed(x) /\ x.slots[a].stage = slots[a].stage
    BY <1>3, ChildrenEnqueued DEF x
  <2>3. Closed(S, x) /\ S \subseteq x.entries
    BY <1>2, <1>3, ListingCloses DEF x
  <2> HIDE DEF w
  <2>4. Closed(S, w)
    BY <1>3, <1>14, <2>2, <2>3, EndExpansionCloses DEF w
  <2> QED  BY <2>1, <2>4, ClosedStep
<1>15. CASE ReaddirDone(a)
  <2>1. PICK shapes \in Listings :
        Becomes(IF Canceled(World, a) THEN EndExpansion(World, a)
                ELSE IF shapes = <<>> THEN Goes(World, a, "mkdir")
                ELSE Expand(World, a, shapes))
    BY <1>15 DEF ReaddirDone
  <2>2. World.slots[a].stage = "readdir"
    BY <1>1, <1>15 DEF ReaddirDone
  <2>3. CASE Canceled(World, a)
    <3> DEFINE w == EndExpansion(World, a)
    <3>1. Becomes(w)
      BY <2>1, <2>3
    <3> HIDE DEF w
    <3>2. Closed(S, w)
      BY <1>1, <1>2, <1>3, <2>2, EndExpansionCloses DEF w
    <3> QED  BY <3>1, <3>2, ClosedStep
  <2>4. CASE ~Canceled(World, a) /\ shapes = <<>>
    <3> DEFINE w == Goes(World, a, "mkdir")
    <3>1. Becomes(w)
      BY <2>1, <2>4
    <3> HIDE DEF w
    <3>2. Closed(S, w)
      BY <1>1, <1>2, GoesCloses DEF w
    <3> QED  BY <3>1, <3>2, ClosedStep
  <2>5. CASE ~Canceled(World, a) /\ shapes # <<>>
    <3>1. Becomes(Expand(World, a, shapes))
      BY <2>1, <2>5
    <3> QED  BY <1>1, <1>14, <2>2, <3>1, ListingsAreLists
  <2> QED  BY <2>3, <2>4, <2>5
<1>16. CASE MkdirDone(a)
  <2>1. Becomes(Expand(World, a, <<>>)) /\ slots[a].stage \in {"readdir", "mkdir"}
    BY <1>16 DEF MkdirDone
  <2>2. <<>> \in Seq(Shapes)
    OBVIOUS
  <2> QED  BY <1>14, <2>1, <2>2
<1> QED  BY <1>7, <1>8, <1>11, <1>12, <1>13, <1>15, <1>16 DEF ExpandStep

(* No activity closes a directory as done before each of its children has ended, *)
(* but the worker that packs it, or a classification that is repeated (lstat).   *)
THEOREM DoneAfterChildrenHolds == Spec => DoneAfterChildren
<1>1. /\ QueueInv /\ commands \in 0 .. MaxCommands /\ [Next]_vars
      => [\A t \in DOMAIN tasks :
            /\ commands' = commands
            /\ t \in entries /\ tasks'[t].isGroup
            /\ \A a \in Slots : slots[a].task = t => slots[a].stage \notin {"work", "lstat"}
            /\ tasks[t].state # "done" /\ tasks'[t].state = "done"
            => \A c \in tasks'[t].children : tasks'[c].state \in FinalStates \ {"error"}]_vars
  <2> SUFFICES ASSUME QueueInv, commands \in 0 .. MaxCommands, Next, commands' = commands,
                      NEW t \in entries,
                      \A a \in Slots : slots[a].task = t => slots[a].stage \notin {"work", "lstat"},
                      tasks[t].state # "done", tasks'[t].state = "done"
               PROVE  \A c \in tasks'[t].children : tasks'[c].state \in FinalStates \ {"error"}
    OBVIOUS
  <2>1. ~UserStep
    <3>1. UserStep => Command
      BY DEF UserStep, EnqueueFiles, ClearFinished, CancelAll, Control, ControlAll, CloseSession
    <3>2. commands + 1 # commands
      BY QueueAssumption DEF QueueAssumption
    <3> QED  BY <3>1, <3>2 DEF Command
  <2>2. PICK a \in Slots : TransferStep(a) \/ ExpandStep(a)
    BY <2>1 DEF Next, SlotStep
  <2>3. Closed(Watched, World')
    BY <2>2, TransferStepCloses, ExpandStepCloses
  <2>4. t \in Watched
    BY DEF Watched
  <2>5. World'.tasks = tasks'
    BY DEF World
  <2> QED  BY <2>3, <2>4, <2>5 DEF Closed
<1> QED  BY <1>1, QueueInvariant, CommandsCounted, PTL DEF DoneAfterChildren, Spec

==============================================================================
