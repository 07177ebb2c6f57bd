------------------------- MODULE DatabasePool_proofs -------------------------
(***************************************************************************)
(* The pool, the semaphore and the locks come out even, for any number of  *)
(* chats, sessions, requests, watchers, connections and permits: a move of *)
(* one caller from one await to another changes what is held by just what  *)
(* the move takes from the pool or gives back to it.                       *)
(***************************************************************************)
EXTENDS DatabasePool, FiniteSetTheorems, TLAPS

\* Only sessions and requests have connections of their own, and only the
\* sweep's tasks, which live from one round's start to its end, have permits.
PlaceInv ==
    /\ \A c \in Callers :
          /\ at[c] \in {"connecting", "using"} => c \in Sessions \union Requests
          /\ at[c] = "permit" => c \in Chats
    /\ sweep = "sleeping" => \A t \in Chats : at[t] = "idle"

LockInv ==
    \A ch \in Chats : \A c \in Callers :
        lock[ch] = c <=> ChatFor(c) = ch /\ at[c] \in Critical

PoolInv == PoolTypeOK /\ PlaceInv /\ ResourcesAccounted

Bit(b) == IF b THEN 1 ELSE 0

\* What a caller holds at a stage.
OwnsAt(c, stage) == stage = "using" \/ (c \in Sessions /\ stage \in Saving)
SavesAt(stage)   == stage = "inserting"
MayAt(c, stage)  == c \in Chats /\ stage \in Saving

-----------------------------------------------------------------------------
(* Counting.                                                               *)

\* One member that comes or goes is counted.
LEMMA OneMember ==
  ASSUME NEW S, IsFiniteSet(S), NEW c, NEW T, T \in {S \union {c}, S \ {c}}
  PROVE  /\ IsFiniteSet(T) /\ Cardinality(T) \in Nat /\ Cardinality(S) \in Nat
         /\ Cardinality(T) = Cardinality(S) + Bit(c \in T) - Bit(c \in S)
<1>1. Cardinality(S) \in Nat
  BY FS_CardinalityType
<1>2. CASE T = S \union {c}
  <2>1. /\ IsFiniteSet(T)
        /\ Cardinality(T) = IF c \in S THEN Cardinality(S) ELSE Cardinality(S) + 1
    BY <1>2, FS_AddElement
  <2> QED
    BY <1>1, <1>2, <2>1, FS_CardinalityType DEF Bit
<1>3. CASE T = S \ {c}
  <2>1. /\ IsFiniteSet(T)
        /\ Cardinality(T) = IF c \in S THEN Cardinality(S) - 1 ELSE Cardinality(S)
    BY <1>3, FS_RemoveElement
  <2> QED
    BY <1>1, <1>3, <2>1, FS_CardinalityType DEF Bit
<1> QED
  BY <1>2, <1>3

\* A caller's move is a difference of what it holds after and before.
LEMMA Moved ==
  ASSUME PoolTypeOK, NEW c \in Callers, NEW stage \in Stages, Goto(c, stage)
  PROVE  /\ at' \in [Callers -> Stages]
         /\ at'[c] = stage
         /\ \A d \in Callers \ {c} : at'[d] = at[d]
         /\ Cardinality(Owners) \in Nat /\ Cardinality(Savers) \in Nat
         /\ Cardinality(Allowed) \in Nat
         /\ Cardinality(Owners') \in Nat /\ Cardinality(Savers') \in Nat
         /\ Cardinality(Allowed') \in Nat
         /\ Cardinality(Owners') =
               Cardinality(Owners) + Bit(OwnsAt(c, stage)) - Bit(OwnsAt(c, at[c]))
         /\ Cardinality(Savers') =
               Cardinality(Savers) + Bit(SavesAt(stage)) - Bit(SavesAt(at[c]))
         /\ Cardinality(Allowed') =
               Cardinality(Allowed) + Bit(MayAt(c, stage)) - Bit(MayAt(c, at[c]))
<1>1. /\ at' \in [Callers -> Stages] /\ at'[c] = stage
      /\ \A d \in Callers \ {c} : at'[d] = at[d]
  BY DEF PoolTypeOK, Goto
<1>2. IsFiniteSet(Owners) /\ IsFiniteSet(Savers) /\ IsFiniteSet(Allowed)
  BY PoolAssumption, FS_Subset DEF Owners, Savers, Allowed, Callers
<1>3. /\ Owners' \in {Owners \union {c}, Owners \ {c}}
      /\ c \in Owners' <=> OwnsAt(c, stage)
      /\ c \in Owners <=> OwnsAt(c, at[c])
  BY <1>1 DEF Owners, OwnsAt
<1>4. /\ Savers' \in {Savers \union {c}, Savers \ {c}}
      /\ c \in Savers' <=> SavesAt(stage)
      /\ c \in Savers <=> SavesAt(at[c])
  BY <1>1 DEF Savers, SavesAt
<1>5. /\ Allowed' \in {Allowed \union {c}, Allowed \ {c}}
      /\ c \in Allowed' <=> MayAt(c, stage)
      /\ c \in Allowed <=> MayAt(c, at[c])
  BY <1>1 DEF Allowed, MayAt, Callers
<1>6. /\ Cardinality(Owners') \in Nat /\ Cardinality(Owners) \in Nat
      /\ Cardinality(Owners') = Cardinality(Owners) + Bit(OwnsAt(c, stage)) - Bit(OwnsAt(c, at[c]))
  BY <1>2, <1>3, OneMember DEF Bit
<1>7. /\ Cardinality(Savers') \in Nat /\ Cardinality(Savers) \in Nat
      /\ Cardinality(Savers') = Cardinality(Savers) + Bit(SavesAt(stage)) - Bit(SavesAt(at[c]))
  BY <1>2, <1>4, OneMember DEF Bit
<1>8. /\ Cardinality(Allowed') \in Nat /\ Cardinality(Allowed) \in Nat
      /\ Cardinality(Allowed') = Cardinality(Allowed) + Bit(MayAt(c, stage)) - Bit(MayAt(c, at[c]))
  BY <1>2, <1>5, OneMember DEF Bit
<1> QED
  BY <1>1, <1>6, <1>7, <1>8

-----------------------------------------------------------------------------
(* What a move must do to keep the invariant.                              *)

\* What the move of c to a stage takes from the pool and from the semaphore,
\* or gives back to them: never more than is there.
Pays(c, stage) ==
    /\ free' = free + Bit(OwnsAt(c, at[c])) + Bit(SavesAt(at[c]))
                    - Bit(OwnsAt(c, stage)) - Bit(SavesAt(stage))
    /\ permits' = permits + Bit(MayAt(c, at[c])) - Bit(MayAt(c, stage))
    /\ free' >= 0 /\ permits' >= 0

\* A move that pays for what it holds keeps the accounts, and the accounts
\* keep the counters within their bounds.
LEMMA PaidMove ==
  ASSUME PoolInv, NEW c \in Callers, NEW stage \in Stages, Goto(c, stage), Pays(c, stage)
  PROVE  /\ free' \in 0..Capacity
         /\ permits' \in 0..MaxConcurrent
         /\ free' + Cardinality(Owners') + Cardinality(Savers') = Capacity
         /\ permits' + Cardinality(Allowed') = MaxConcurrent
<1> DEFINE o == Bit(OwnsAt(c, at[c]))  o2 == Bit(OwnsAt(c, stage))
           s == Bit(SavesAt(at[c]))    s2 == Bit(SavesAt(stage))
           m == Bit(MayAt(c, at[c]))   m2 == Bit(MayAt(c, stage))
<1>1. /\ o \in 0..1 /\ o2 \in 0..1 /\ s \in 0..1 /\ s2 \in 0..1
      /\ m \in 0..1 /\ m2 \in 0..1
  BY DEF Bit
<1>2. /\ Cardinality(Owners) \in Nat /\ Cardinality(Savers) \in Nat
      /\ Cardinality(Allowed) \in Nat
      /\ Cardinality(Owners') \in Nat /\ Cardinality(Savers') \in Nat
      /\ Cardinality(Allowed') \in Nat
      /\ Cardinality(Owners') = Cardinality(Owners) + o2 - o
      /\ Cardinality(Savers') = Cardinality(Savers) + s2 - s
      /\ Cardinality(Allowed') = Cardinality(Allowed) + m2 - m
  BY Moved DEF PoolInv
<1>3. free' = free + o + s - o2 - s2 /\ permits' = permits + m - m2
  BY DEF Pays
<1>4. /\ free \in 0..Capacity /\ permits \in 0..MaxConcurrent
      /\ Capacity \in Nat /\ MaxConcurrent \in Nat
      /\ free + Cardinality(Owners) + Cardinality(Savers) = Capacity
      /\ permits + Cardinality(Allowed) = MaxConcurrent
  BY PoolAssumption DEF PoolInv, PoolTypeOK, ResourcesAccounted
<1> HIDE DEF o, o2, s, s2, m, m2
<1>5. /\ free' + Cardinality(Owners') + Cardinality(Savers') = Capacity
      /\ permits' + Cardinality(Allowed') = MaxConcurrent
      /\ free' \in Int /\ permits' \in Int
  BY <1>1, <1>2, <1>3, <1>4
<1>6. free' <= Capacity /\ permits' <= MaxConcurrent
  BY <1>2, <1>4, <1>5
<1>7. free' >= 0 /\ permits' >= 0
  BY DEF Pays
<1> QED
  BY <1>4, <1>5, <1>6, <1>7

\* A move that leaves the locks alone and does not cross the border of the
\* lock keeps who is inside.
LEMMA LocksKept ==
  ASSUME PoolInv, NEW c \in Callers, NEW stage \in Stages, Goto(c, stage),
         lock' = lock, at[c] \in Critical <=> stage \in Critical
  PROVE  lock' \in [Chats -> Callers \union {Nobody}] /\ LockInv'
<1>1. /\ at' \in [Callers -> Stages] /\ at'[c] = stage
      /\ \A d \in Callers \ {c} : at'[d] = at[d]
  BY Moved DEF PoolInv
<1>2. \A d \in Callers : at'[d] \in Critical <=> at[d] \in Critical
  BY <1>1
<1>3. LockInv /\ lock \in [Chats -> Callers \union {Nobody}]
  BY DEF PoolInv, PoolTypeOK, ResourcesAccounted, LockInv
<1> QED
  BY <1>2, <1>3 DEF LockInv, ChatFor

\* A move of one of the sweep's tasks while it is not idle, or of anybody
\* else, keeps everybody in the places meant for them.
LEMMA PlacesKept ==
  ASSUME PoolInv, NEW c \in Callers, NEW stage \in Stages, Goto(c, stage), sweep' = sweep,
         c \in Chats => at[c] # "idle" \/ stage = "idle",
         stage \in {"connecting", "using"} => c \in Sessions \union Requests,
         stage # "permit"
  PROVE  PlaceInv'
<1>1. /\ at' \in [Callers -> Stages] /\ at'[c] = stage
      /\ \A d \in Callers \ {c} : at'[d] = at[d]
  BY Moved DEF PoolInv
<1>2. PlaceInv
  BY DEF PoolInv
<1>3. ASSUME sweep' = "sleeping", NEW t \in Chats
      PROVE  at'[t] = "idle"
  <2>1. at[t] = "idle" /\ t \in Callers
    BY <1>2, <1>3 DEF PlaceInv, Callers
  <2> QED
    BY <1>1, <2>1
<1>4. ASSUME NEW d \in Callers
      PROVE  /\ at'[d] \in {"connecting", "using"} => d \in Sessions \union Requests
             /\ at'[d] = "permit" => d \in Chats
  BY <1>1, <1>2 DEF PlaceInv
<1> QED
  BY <1>3, <1>4 DEF PlaceInv

\* Who is a session, a request, a watcher or a task of the sweep is only that,
\* and everybody is about a chat.
LEMMA Kinds ==
  ASSUME NEW c \in Callers
  PROVE  /\ c \in Sessions => c \notin Requests \union Watchers \union Chats
         /\ c \in Requests => c \notin Sessions \union Watchers \union Chats
         /\ c \in Watchers => c \notin Sessions \union Requests \union Chats
         /\ c \in Chats => c \notin Sessions \union Requests \union Watchers
         /\ ChatFor(c) \in Chats /\ c # Nobody
BY PoolAssumption DEF Callers, ChatFor

\* The end of a save, from any await of it, gives back all that it held.
LEMMA EndSaveKeeps ==
  ASSUME PoolInv, NEW c \in Callers, NEW returned \in BOOLEAN, at[c] \in Saving,
         EndSave(c, returned), sweep' = sweep, faults' \in 0..MaxFaults
  PROVE  PoolInv'
<1>1. Goto(c, "idle") /\ "idle" \in Stages
  BY DEF EndSave, LeaveSave, Stages
<1>2. /\ at' \in [Callers -> Stages] /\ at'[c] = "idle"
      /\ \A d \in Callers \ {c} : at'[d] = at[d]
  BY <1>1, Moved DEF PoolInv
<1>3. Pays(c, "idle")
  <2>1. /\ free' = free + (IF at[c] = "inserting" THEN 1 ELSE 0)
                        + (IF c \in Sessions THEN 1 ELSE 0)
        /\ permits' = permits + (IF c \in Chats THEN 1 ELSE 0)
        /\ free \in Nat /\ permits \in Nat
    BY PoolAssumption DEF EndSave, LeaveSave, PoolInv, PoolTypeOK
  <2>2. /\ OwnsAt(c, at[c]) <=> c \in Sessions
        /\ SavesAt(at[c]) <=> at[c] = "inserting"
        /\ MayAt(c, at[c]) <=> c \in Chats
        /\ ~ OwnsAt(c, "idle") /\ ~ SavesAt("idle") /\ ~ MayAt(c, "idle")
    BY DEF OwnsAt, SavesAt, MayAt, Saving, Critical
  <2> QED
    BY <2>1, <2>2 DEF Pays, Bit
<1>4. /\ free' \in 0..Capacity /\ permits' \in 0..MaxConcurrent
      /\ free' + Cardinality(Owners') + Cardinality(Savers') = Capacity
      /\ permits' + Cardinality(Allowed') = MaxConcurrent
  BY <1>1, <1>3, PaidMove
<1>5. PlaceInv'
  BY <1>1, PlacesKept
<1>6. lock' \in [Chats -> Callers \union {Nobody}] /\ LockInv'
  <2>1. /\ LockInv /\ lock \in [Chats -> Callers \union {Nobody}]
        /\ lock' = [lock EXCEPT ![ChatFor(c)] = IF @ = c THEN Nobody ELSE @]
    BY DEF PoolInv, PoolTypeOK, ResourcesAccounted, LockInv, EndSave, LeaveSave
  <2>2. ChatFor(c) \in Chats /\ c # Nobody /\ Nobody \notin Callers
    BY Kinds, PoolAssumption
  <2>3. lock' \in [Chats -> Callers \union {Nobody}]
    BY <2>1, <2>2
  <2>4. ASSUME NEW ch \in Chats, NEW d \in Callers
        PROVE  lock'[ch] = d <=> ChatFor(d) = ch /\ at'[d] \in Critical
    <3>1. lock[ch] = d <=> ChatFor(d) = ch /\ at[d] \in Critical
      BY <2>1, <2>4 DEF LockInv
    <3>2. CASE d = c
      <4>1. at'[d] \notin Critical
        BY <1>2, <3>2 DEF Critical
      <4>2. lock'[ch] # c
        <5>1. CASE ch = ChatFor(c)
          BY <2>1, <2>2, <5>1
        <5>2. CASE ch # ChatFor(c)
          BY <2>1, <2>2, <3>1, <3>2, <5>2
        <5> QED
          BY <5>1, <5>2
      <4> QED
        BY <3>2, <4>1, <4>2
    <3>3. CASE d # c
      <4>1. at'[d] = at[d]
        BY <1>2, <3>3, <2>4
      <4>2. lock'[ch] = d <=> lock[ch] = d
        BY <2>1, <2>2, <2>4, <3>3
      <4> QED
        BY <3>1, <4>1, <4>2
    <3> QED
      BY <3>2, <3>3
  <2>5. (\A ch \in Chats : \A d \in Callers :
            lock[ch] = d <=> ChatFor(d) = ch /\ at[d] \in Critical)'
    BY <2>4 DEF ChatFor
  <2> QED
    BY <2>3, <2>5 DEF LockInv
<1>7. /\ sweep' \in {"sleeping", "gathering"} /\ dirty' \in SUBSET Chats
      /\ dangling' \in SUBSET Chats /\ refused' \in SUBSET Callers
  BY DEF PoolInv, PoolTypeOK, EndSave, LeaveSave
<1> QED
  BY <1>2, <1>4, <1>5, <1>6, <1>7 DEF PoolInv, PoolTypeOK, ResourcesAccounted, LockInv

\* Any other move that pays and stays on its side of the lock.
LEMMA MoveKeeps ==
  ASSUME PoolInv, NEW c \in Callers, NEW stage \in Stages, Goto(c, stage), Pays(c, stage),
         at[c] \in Critical <=> stage \in Critical,
         c \in Chats => at[c] # "idle" \/ stage = "idle",
         stage \in {"connecting", "using"} => c \in Sessions \union Requests,
         stage # "permit",
         UNCHANGED <<lock, sweep, dirty, dangling, faults>>, refused' \in SUBSET Callers
  PROVE  PoolInv'
<1>1. /\ free' \in 0..Capacity /\ permits' \in 0..MaxConcurrent
      /\ free' + Cardinality(Owners') + Cardinality(Savers') = Capacity
      /\ permits' + Cardinality(Allowed') = MaxConcurrent
  BY PaidMove
<1>2. lock' \in [Chats -> Callers \union {Nobody}] /\ LockInv'
  BY LocksKept
<1>3. PlaceInv'
  BY PlacesKept
<1>4. at' \in [Callers -> Stages]
  BY Moved DEF PoolInv
<1> QED
  BY <1>1, <1>2, <1>3, <1>4 DEF PoolInv, PoolTypeOK, ResourcesAccounted, LockInv
-----------------------------------------------------------------------------
(* Every step keeps the invariant.                                         *)

\* The steps of a session's or a request's own connection, and a watcher that
\* starts to save.
LEMMA OwnConnection ==
  ASSUME PoolInv, NEW c \in Callers,
         \/ Connect(c) \/ AwaitConnection(c) \/ ConnectTimesOut(c) \/ EndUse(c)
         \/ CloseRoom(c) \/ SaveAfterUse(c) \/ WatcherSaves(c)
  PROVE  PoolInv'
<1>1. /\ free \in 0..Capacity /\ permits \in 0..MaxConcurrent
      /\ Capacity \in Nat /\ MaxConcurrent \in Nat /\ at[c] \in Stages
      /\ at[c] \in {"connecting", "using"} => c \in Sessions \union Requests
      /\ refused \in SUBSET Callers
  BY PoolAssumption DEF PoolInv, PoolTypeOK, PlaceInv
<1>2. /\ {"idle", "connecting", "using", "locking"} \subseteq Stages \ Critical
      /\ "locking" \in Saving
      /\ {"idle", "connecting", "using"} \intersect Saving = {}
  BY DEF Stages, Saving, Critical
<1>3. CASE Connect(c)
  <2>1. /\ Goto(c, "using") /\ free' = free - 1 /\ permits' = permits /\ free > 0
        /\ at[c] \in {"idle", "connecting"} /\ c \in Sessions \union Requests
        /\ UNCHANGED <<lock, sweep, dirty, dangling, faults>>
        /\ refused' \in SUBSET Callers
    BY <1>1, <1>3 DEF Connect, messages
  <2>2. Pays(c, "using")
    BY <1>1, <1>2, <2>1 DEF Pays, Bit, OwnsAt, SavesAt, MayAt
  <2> QED
    BY <1>2, <2>1, <2>2, Kinds, MoveKeeps
<1>4. CASE AwaitConnection(c)
  <2>1. /\ Goto(c, "connecting") /\ free' = free /\ permits' = permits
        /\ at[c] = "idle" /\ c \in Sessions \union Requests
        /\ UNCHANGED <<lock, sweep, dirty, dangling, faults>>
        /\ refused' \in SUBSET Callers
    BY <1>1, <1>4 DEF AwaitConnection, messages
  <2>2. Pays(c, "connecting")
    BY <1>1, <1>2, <2>1 DEF Pays, Bit, OwnsAt, SavesAt, MayAt
  <2> QED
    BY <1>2, <2>1, <2>2, Kinds, MoveKeeps
<1>5. CASE ConnectTimesOut(c)
  <2>1. /\ Goto(c, "idle") /\ free' = free /\ permits' = permits
        /\ at[c] = "connecting"
        /\ UNCHANGED <<lock, sweep, dirty, dangling, faults>>
        /\ refused' \in SUBSET Callers
    BY <1>1, <1>5 DEF ConnectTimesOut, messages
  <2>2. Pays(c, "idle")
    BY <1>1, <1>2, <2>1 DEF Pays, Bit, OwnsAt, SavesAt, MayAt
  <2> QED
    BY <1>2, <2>1, <2>2, MoveKeeps
<1>6. CASE EndUse(c)
  <2>1. /\ Goto(c, "idle") /\ free' = free + 1 /\ permits' = permits
        /\ at[c] = "using"
        /\ UNCHANGED <<lock, sweep, dirty, dangling, faults>>
        /\ refused' \in SUBSET Callers
    BY <1>1, <1>6 DEF EndUse, messages
  <2>2. Pays(c, "idle")
    BY <1>1, <1>2, <2>1 DEF Pays, Bit, OwnsAt, SavesAt, MayAt
  <2> QED
    BY <1>2, <2>1, <2>2, MoveKeeps
<1>7. CASE CloseRoom(c)
  <2>1. /\ Goto(c, "locking") /\ free' = free /\ permits' = permits
        /\ at[c] = "using" /\ c \in Sessions
        /\ UNCHANGED <<lock, sweep, dirty, dangling, faults>>
        /\ refused' \in SUBSET Callers
    BY <1>1, <1>7 DEF CloseRoom, messages
  <2>2. Pays(c, "locking")
    BY <1>1, <1>2, <2>1, Kinds DEF Pays, Bit, OwnsAt, SavesAt, MayAt
  <2> QED
    BY <1>2, <2>1, <2>2, Kinds, MoveKeeps
<1>8. CASE SaveAfterUse(c)
  <2>1. /\ Goto(c, "locking") /\ free' = free + 1 /\ permits' = permits
        /\ at[c] = "using" /\ c \in Requests
        /\ UNCHANGED <<lock, sweep, dirty, dangling, faults>>
        /\ refused' \in SUBSET Callers
    BY <1>1, <1>8 DEF SaveAfterUse, messages
  <2>2. Pays(c, "locking")
    BY <1>1, <1>2, <2>1, Kinds DEF Pays, Bit, OwnsAt, SavesAt, MayAt
  <2> QED
    BY <1>2, <2>1, <2>2, Kinds, MoveKeeps
<1>9. CASE WatcherSaves(c)
  <2>1. /\ Goto(c, "locking") /\ free' = free /\ permits' = permits
        /\ at[c] = "idle" /\ c \in Watchers
        /\ UNCHANGED <<lock, sweep, dirty, dangling, faults>>
        /\ refused' \in SUBSET Callers
    BY <1>1, <1>9 DEF WatcherSaves, messages
  <2>2. Pays(c, "locking")
    BY <1>1, <1>2, <2>1, Kinds DEF Pays, Bit, OwnsAt, SavesAt, MayAt
  <2> QED
    BY <1>2, <2>1, <2>2, Kinds, MoveKeeps
<1> QED
  BY <1>3, <1>4, <1>5, <1>6, <1>7, <1>8, <1>9

\* The steps of a save that stay within the lock, and the task that the
\* semaphore lets in.
LEMMA SaveGoesOn ==
  ASSUME PoolInv, NEW c \in Callers,
         Permit(c) \/ List(c) \/ CheckOut(c) \/ Insert(c)
  PROVE  PoolInv'
<1>1. /\ free \in 0..Capacity /\ permits \in 0..MaxConcurrent
      /\ Capacity \in Nat /\ MaxConcurrent \in Nat
      /\ at[c] = "permit" => c \in Chats
      /\ refused \in SUBSET Callers
  BY PoolAssumption DEF PoolInv, PoolTypeOK, PlaceInv
<1>2. /\ Critical \subseteq Saving /\ Saving \subseteq Stages
      /\ {"listing", "checkout", "inserting", "deleting"} \subseteq Critical
      /\ "locking" \in Saving \ Critical /\ "permit" \notin Saving
  BY DEF Stages, Saving, Critical
<1>3. CASE Permit(c)
  <2>1. /\ Goto(c, "locking") /\ free' = free /\ permits' = permits - 1 /\ permits > 0
        /\ at[c] = "permit" /\ c \in Chats
        /\ UNCHANGED <<lock, sweep, dirty, dangling, faults>>
        /\ refused' \in SUBSET Callers
    BY <1>1, <1>3 DEF Permit, messages
  <2>2. Pays(c, "locking")
    BY <1>1, <1>2, <2>1, Kinds DEF Pays, Bit, OwnsAt, SavesAt, MayAt
  <2> QED
    BY <1>2, <2>1, <2>2, MoveKeeps
<1>4. CASE List(c)
  <2>1. /\ Goto(c, "checkout") /\ free' = free /\ permits' = permits
        /\ at[c] = "listing"
        /\ UNCHANGED <<lock, sweep, dirty, dangling, faults>>
        /\ refused' \in SUBSET Callers
    BY <1>1, <1>4 DEF List
  <2>2. Pays(c, "checkout")
    BY <1>1, <1>2, <2>1 DEF Pays, Bit, OwnsAt, SavesAt, MayAt
  <2> QED
    BY <1>2, <2>1, <2>2, MoveKeeps
<1>5. CASE CheckOut(c)
  <2>1. /\ Goto(c, "inserting") /\ free' = free - 1 /\ permits' = permits /\ free > 0
        /\ at[c] = "checkout"
        /\ UNCHANGED <<lock, sweep, dirty, dangling, faults>>
        /\ refused' \in SUBSET Callers
    BY <1>1, <1>5 DEF CheckOut, messages
  <2>2. Pays(c, "inserting")
    BY <1>1, <1>2, <2>1 DEF Pays, Bit, OwnsAt, SavesAt, MayAt
  <2> QED
    BY <1>2, <2>1, <2>2, MoveKeeps
<1>6. CASE Insert(c)
  <2>1. /\ Goto(c, "deleting") /\ free' = free + 1 /\ permits' = permits
        /\ at[c] = "inserting"
        /\ UNCHANGED <<lock, sweep, dirty, dangling, faults>>
        /\ refused' \in SUBSET Callers
    BY <1>1, <1>6 DEF Insert, messages
  <2>2. Pays(c, "deleting")
    BY <1>1, <1>2, <2>1 DEF Pays, Bit, OwnsAt, SavesAt, MayAt
  <2> QED
    BY <1>2, <2>1, <2>2, MoveKeeps
<1> QED
  BY <1>3, <1>4, <1>5, <1>6

\* Whoever takes a chat's lock finds nobody inside.
LEMMA TakeKeeps ==
  ASSUME PoolInv, NEW c \in Callers, Take(c)
  PROVE  PoolInv'
<1>1. /\ Goto(c, "listing") /\ free' = free /\ permits' = permits
      /\ at[c] = "locking" /\ lock[ChatFor(c)] = Nobody
      /\ lock' = [lock EXCEPT ![ChatFor(c)] = c]
      /\ UNCHANGED <<sweep, dirty, dangling, refused, faults>>
  BY DEF Take, messages
<1>2. "listing" \in Stages /\ {"listing", "locking"} \subseteq Saving /\ "listing" \in Critical
  BY DEF Stages, Saving, Critical
<1>3. free \in 0..Capacity /\ permits \in 0..MaxConcurrent /\ Capacity \in Nat /\ MaxConcurrent \in Nat
  BY PoolAssumption DEF PoolInv, PoolTypeOK
<1>4. Pays(c, "listing")
  BY <1>1, <1>2, <1>3 DEF Pays, Bit, OwnsAt, SavesAt, MayAt
<1>5. /\ free' + Cardinality(Owners') + Cardinality(Savers') = Capacity
      /\ permits' + Cardinality(Allowed') = MaxConcurrent
  BY <1>1, <1>2, <1>4, PaidMove
<1>6. PlaceInv'
  BY <1>1, <1>2, PlacesKept
<1>7. /\ at' \in [Callers -> Stages] /\ at'[c] = "listing"
      /\ \A d \in Callers \ {c} : at'[d] = at[d]
  BY <1>1, <1>2, Moved DEF PoolInv
<1>8. lock' \in [Chats -> Callers \union {Nobody}] /\ LockInv'
  <2>1. LockInv /\ lock \in [Chats -> Callers \union {Nobody}]
    BY DEF PoolInv, PoolTypeOK, ResourcesAccounted, LockInv
  <2>2. ChatFor(c) \in Chats /\ Nobody \notin Callers
    BY Kinds, PoolAssumption
  <2>3. ASSUME NEW ch \in Chats, NEW d \in Callers
        PROVE  lock'[ch] = d <=> ChatFor(d) = ch /\ at'[d] \in Critical
    <3>1. lock[ch] = d <=> ChatFor(d) = ch /\ at[d] \in Critical
      BY <2>1, <2>3 DEF LockInv
    <3>2. CASE d = c
      <4>1. CASE ch = ChatFor(c)
        BY <1>1, <1>2, <1>7, <2>1, <2>2, <3>2, <4>1
      <4>2. CASE ch # ChatFor(c)
        <5>1. lock'[ch] = lock[ch]
          BY <1>1, <2>1, <4>2
        <5> QED
          BY <3>1, <3>2, <4>2, <5>1
      <4> QED
        BY <4>1, <4>2
    <3>3. CASE d # c
      <4>1. at'[d] = at[d]
        BY <1>7, <3>3, <2>3
      <4>2. CASE ch = ChatFor(c)
        <5>1. lock'[ch] = c /\ lock[ch] = Nobody
          BY <1>1, <2>1, <2>2, <4>2
        <5> QED
          BY <2>2, <3>1, <3>3, <4>1, <5>1
      <4>3. CASE ch # ChatFor(c)
        <5>1. lock'[ch] = lock[ch]
          BY <1>1, <2>1, <4>3
        <5> QED
          BY <3>1, <4>1, <5>1
      <4> QED
        BY <4>2, <4>3
    <3> QED
      BY <3>2, <3>3
  <2>4. (\A ch \in Chats : \A d \in Callers :
            lock[ch] = d <=> ChatFor(d) = ch /\ at[d] \in Critical)'
    BY <2>3 DEF ChatFor
  <2>5. lock' \in [Chats -> Callers \union {Nobody}]
    BY <1>1, <2>1, <2>2
  <2> QED
    BY <2>4, <2>5 DEF LockInv
<1> QED
  BY <1>1, <1>5, <1>6, <1>7, <1>8 DEF PoolInv, PoolTypeOK, ResourcesAccounted, LockInv

\* The steps that end a save.
LEMMA SaveEnds ==
  ASSUME PoolInv, NEW c \in Callers,
         \/ FindClean(c) \/ CheckOutTimesOut(c) \/ InsertRejected(c)
         \/ Delete(c) \/ SaveFails(c) \/ Cancel(c)
  PROVE  PoolInv'
<1>1. {"locking", "listing", "checkout", "inserting", "deleting"} \subseteq Saving
  BY DEF Saving, Critical
<1>2. faults \in 0..MaxFaults /\ MaxFaults \in Nat
  BY PoolAssumption DEF PoolInv, PoolTypeOK
<1>3. CASE FindClean(c)
  BY <1>1, <1>2, <1>3, EndSaveKeeps DEF FindClean
<1>4. CASE CheckOutTimesOut(c)
  BY <1>1, <1>2, <1>4, EndSaveKeeps DEF CheckOutTimesOut
<1>5. CASE Delete(c)
  BY <1>1, <1>2, <1>5, EndSaveKeeps DEF Delete
<1>6. CASE SaveFails(c)
  <2>1. faults' \in 0..MaxFaults
    BY <1>2, <1>6 DEF SaveFails, Fault
  <2> QED
    BY <1>1, <1>6, <2>1, EndSaveKeeps DEF SaveFails
<1>7. CASE Cancel(c)
  BY <1>1, <1>2, <1>7, EndSaveKeeps DEF Cancel
<1>8. CASE InsertRejected(c)
  BY <1>1, <1>2, <1>8, EndSaveKeeps DEF InsertRejected
<1> QED
  BY <1>3, <1>4, <1>5, <1>6, <1>7, <1>8

\* The sweep's tasks start from idle, where they hold nothing, and a new one
\* only starts when all of the last round are back there.
LEMMA SweepKeeps ==
  ASSUME PoolInv, SweepStarts \/ SweepEnds
  PROVE  PoolInv'
<1>1. CASE SweepStarts
  <2>1. /\ sweep = "sleeping" /\ sweep' = "gathering"
        /\ at' = [c \in Callers |-> IF c \in dirty THEN "permit" ELSE at[c]]
        /\ UNCHANGED <<free, permits, lock, dirty, dangling, refused, faults>>
    BY <1>1 DEF SweepStarts, messages
  <2>2. /\ dirty \subseteq Chats /\ Chats \subseteq Callers /\ at \in [Callers -> Stages]
        /\ \A t \in Chats : at[t] = "idle"
    BY <2>1 DEF PoolInv, PoolTypeOK, PlaceInv, Callers
  <2>3. at' \in [Callers -> Stages]
    BY <2>1, <2>2 DEF Stages
  <2>4. \A c \in Callers :
           \/ at'[c] = at[c]
           \/ c \in Chats /\ at[c] = "idle" /\ at'[c] = "permit"
    BY <2>1, <2>2
  <2>5. {"idle", "permit"} \intersect (Saving \union {"using", "connecting"}) = {}
    BY DEF Saving, Critical
  <2>6. Critical \subseteq Saving /\ "inserting" \in Saving
    BY DEF Saving, Critical
  <2>7. \A c \in Callers :
           /\ at'[c] = "using" <=> at[c] = "using"
           /\ at'[c] = "connecting" <=> at[c] = "connecting"
           /\ at'[c] = "inserting" <=> at[c] = "inserting"
           /\ at'[c] \in Saving <=> at[c] \in Saving
           /\ at'[c] \in Critical <=> at[c] \in Critical
    BY <2>4, <2>5, <2>6
  <2>8. Owners' = Owners /\ Savers' = Savers
    BY <2>7 DEF Owners, Savers
  <2>9. Allowed' = Allowed
    BY <2>2, <2>7 DEF Allowed
  <2>10. LockInv'
    BY <2>1, <2>7 DEF PoolInv, ResourcesAccounted, LockInv, ChatFor
  <2>11. PlaceInv'
    BY <2>1, <2>4, <2>7 DEF PoolInv, PlaceInv
  <2> QED
    BY <2>1, <2>3, <2>8, <2>9, <2>10, <2>11
       DEF PoolInv, PoolTypeOK, ResourcesAccounted, LockInv
<1>2. CASE SweepEnds
  BY <1>2 DEF SweepEnds, messages, PoolInv, PoolTypeOK, PlaceInv, ResourcesAccounted,
              Owners, Savers, Allowed, ChatFor
<1> QED
  BY <1>1, <1>2

\* Initially everything is in the pool.
LEMMA PoolInit ==
  ASSUME Init
  PROVE  PoolInv
<1>1. Owners = {} /\ Savers = {} /\ Allowed = {}
  BY DEF Init, Owners, Savers, Allowed, Saving, Critical, Callers
<1>2. Cardinality({}) = 0
  BY FS_EmptySet
<1>3. Capacity \in Nat /\ MaxConcurrent \in Nat /\ MaxFaults \in Nat /\ Nobody \notin Callers
  BY PoolAssumption
<1>4. free = Capacity /\ permits = MaxConcurrent
  BY DEF Init
<1>5. PoolTypeOK
  BY <1>3 DEF Init, PoolTypeOK, Stages
<1>6. PlaceInv
  BY DEF Init, PlaceInv, Callers
<1>7. LockInv
  BY <1>3 DEF Init, LockInv, Critical
<1> QED
  BY <1>1, <1>2, <1>3, <1>4, <1>5, <1>6, <1>7 DEF PoolInv, ResourcesAccounted, LockInv

\* Every step of the pool's users keeps the invariant.
LEMMA PoolStep ==
  ASSUME PoolInv, [Next]_vars
  PROVE  PoolInv'
<1>1. CASE UNCHANGED vars
  BY <1>1 DEF vars, PoolInv, PoolTypeOK, PlaceInv, ResourcesAccounted,
              Owners, Savers, Allowed, ChatFor
<1>2. ASSUME NEW c \in Callers, Post(c)
      PROVE  PoolInv'
  <2>1. /\ dirty' = dirty \union {ChatOf[c]} /\ ChatOf[c] \in Chats
        /\ UNCHANGED <<free, permits, lock, at, sweep, refused, faults>>
        /\ dangling' \in {dangling, dangling \union {ChatOf[c]}}
    BY <1>2, PoolAssumption DEF Post
  <2> QED
    BY <2>1 DEF PoolInv, PoolTypeOK, PlaceInv, ResourcesAccounted,
                Owners, Savers, Allowed, ChatFor
<1>3. CASE \E c \in Callers :
             \/ Proceeds(c) \/ Connect(c) \/ AwaitConnection(c) \/ Post(c) \/ EndUse(c)
             \/ CloseRoom(c) \/ SaveAfterUse(c) \/ WatcherSaves(c) \/ SaveFails(c) \/ Cancel(c)
  BY <1>2, <1>3, OwnConnection, SaveGoesOn, TakeKeeps, SaveEnds DEF Proceeds
<1>4. CASE SweepStarts \/ SweepEnds
  BY <1>4, SweepKeeps
<1> QED
  BY <1>1, <1>3, <1>4 DEF Next
-----------------------------------------------------------------------------
(* The theorems.                                                           *)

\* The counters of the pool and of the semaphore stay within their bounds,
\* and every caller stands at an await of its own kind.
THEOREM PoolTypeCorrect == Spec => []PoolTypeOK
<1>1. Init => PoolInv
  BY PoolInit
<1>2. PoolInv /\ [Next]_vars => PoolInv'
  BY PoolStep
<1>3. PoolInv => PoolTypeOK
  BY DEF PoolInv
<1> QED
  BY <1>1, <1>2, <1>3, PTL DEF Spec

\* Connections, permits and locks are never leaked nor given back twice,
\* however many callers share them and wherever a save is timed out, fails or
\* is cancelled.
THEOREM PoolAccountsResources == Spec => []ResourcesAccounted
<1>1. Init => PoolInv
  BY PoolInit
<1>2. PoolInv /\ [Next]_vars => PoolInv'
  BY PoolStep
<1>3. PoolInv => ResourcesAccounted
  BY DEF PoolInv
<1> QED
  BY <1>1, <1>2, <1>3, PTL DEF Spec
=============================================================================
