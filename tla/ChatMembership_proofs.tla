------------------------ MODULE ChatMembership_proofs ------------------------
(***************************************************************************)
(* The invariants of ChatMembership and its refinement of                  *)
(* MembershipLedger, for any requests.  What a statement has seen and the  *)
(* rows it has inserted or deleted stay true until the request commits     *)
(* (Sound), because the rows of two requests keep clear of each other      *)
(* (Apart).                                                                *)
(***************************************************************************)
EXTENDS ChatMembership, FiniteSetTheorems, TLAPS

\* Rows name committed chats and actors; a request speaks at its commit.
TablesInv ==
    /\ OneChat
    /\ \A row \in members : row.chat \in chats /\ row.actor \in actors
    /\ \A p, q \in actors : Clash(p, q) => p = q
    /\ \A m \in messages : Over(m[1])

TellsLeft(a) == \E m \in messages : m[2] = "left" /\ ActorOf[m[1]] = a

\* Which requests reach which stage and write which rows there.
StageInv(r) ==
    /\ tx[r].at \in {"registering"} \/ Wrote(r, "actor") => Kind[r] = "actor"
    /\ tx[r].at \in {"chat", "creating", "member"} \/ Wrote(r, "chat") => Kind[r] # "actor"
    /\ tx[r].at = "creating" \/ Wrote(r, "chat") => Kind[r] # "leave"
    /\ tx[r].at \in {"actor", "registering", "member", "inserting"} =>
          Kind[r] \notin {"chat", "task"}
    /\ tx[r].at = "inserting" \/ Wrote(r, "member") => Kind[r] \in {"project", "join"}
    /\ tx[r].at \in {"removing", "deleting"} \/ Wrote(r, "left") => Kind[r] = "leave"
    /\ Wrote(r, "actor") \/ Wrote(r, "member") \/ Wrote(r, "left") =>
          tx[r].at = "committing"
    /\ tx[r].at \in {"chat", "creating", "removing", "deleting", "done", "failed"} =>
          tx[r].wrote = {}
    /\ Wrote(r, "deletion") => Wrote(r, "left")

\* The chat a request works in.
ChatInv(r) ==
    /\ Wrote(r, "chat") => chats = {} /\ tx[r].chat = r
    /\ Kind[r] # "actor" /\ ~Over(r) /\ tx[r].at \notin {"chat", "creating"} =>
          tx[r].chat \in chats \/ Wrote(r, "chat")

\* The actor and the row of an arrival.
ArrivalInv(r) ==
    /\ Wrote(r, "actor") => \A a \in actors : ~Clash(a, ActorOf[r])
    /\ tx[r].at \in {"member", "inserting", "removing", "deleting"} \/ Wrote(r, "member") =>
          ActorOf[r] \in actors
    /\ Wrote(r, "member") => Seen(r) = {}
    /\ Kind[r] \in {"project", "join"} /\ tx[r].at = "committing" /\ ~Wrote(r, "member") =>
          RowsOf(ActorOf[r]) # {} \/ TellsLeft(ActorOf[r])
    /\ Kind[r] \in {"project", "join"} /\ tx[r].at = "committing" /\ Wrote(r, "chat") =>
          Wrote(r, "member")
    /\ Kind[r] \in {"project", "join"} /\ tx[r].at = "done" =>
          RowsOf(ActorOf[r]) # {} \/ TellsLeft(ActorOf[r])

\* The row of a departure, or the request that took it away.
DepartureInv(r) ==
    /\ tx[r].at = "removing" => Seen(r) # {} \/ TellsLeft(ActorOf[r])
    /\ tx[r].at = "deleting" =>
          /\ tx[r].row \in Rows /\ tx[r].row.actor = ActorOf[r]
          /\ tx[r].row \in members \/ TellsLeft(ActorOf[r])
    /\ Wrote(r, "deletion") => tx[r].row \in members /\ tx[r].row.actor = ActorOf[r]
    /\ Wrote(r, "left") => Wrote(r, "deletion") \/ TellsLeft(ActorOf[r])

Sound(r) == StageInv(r) /\ ChatInv(r) /\ ArrivalInv(r) /\ DepartureInv(r)

\* What two requests have written is not the same.
Apart(r, q) ==
    /\ ~(Wrote(r, "chat") /\ Wrote(q, "chat"))
    /\ Wrote(r, "actor") /\ Wrote(q, "actor") => ~Clash(ActorOf[r], ActorOf[q])
    /\ Wrote(r, "member") /\ Wrote(q, "member") =>
          tx[r].chat # tx[q].chat \/ ActorOf[r] # ActorOf[q]
    /\ Wrote(r, "deletion") /\ Wrote(q, "deletion") => tx[r].row # tx[q].row

MembershipInv ==
    /\ MembershipTypeOK
    /\ TablesInv
    /\ \A r \in Requests : Sound(r)
    /\ \A r, q \in Requests : r # q => Apart(r, q)

-----------------------------------------------------------------------------
\* A step of request r that commits nothing disturbs no other request.
LEMMA LocalStep ==
    ASSUME MembershipInv, NEW r \in Requests, UNCHANGED database, ~Over(r),
           tx' \in [Requests -> [at : Stages, chat : Requests \union {NoChat},
                                row : Rows \union {NoRow}, wrote : SUBSET Writes]],
           \A q \in Others(r) : tx'[q] = tx[q],
           Sound(r)',
           \A q \in Others(r) : Apart(r, q)'
    PROVE  MembershipInv'
<1>1. MembershipTypeOK'
  BY DEF MembershipInv, MembershipTypeOK, database
<1>2. TablesInv'
  <2>1. OneChat' /\ \A p, q \in actors' : Clash(p, q) => p = q
    BY DEF MembershipInv, TablesInv, OneChat, database, Clash
  <2>2. \A row \in members' : row.chat \in chats' /\ row.actor \in actors'
    BY DEF MembershipInv, TablesInv, database
  <2>3. \A m \in messages' : Over(m[1])'
    BY DEF MembershipInv, MembershipTypeOK, TablesInv, database, Over, Others
  <2> QED  BY <2>1, <2>2, <2>3 DEF TablesInv
<1>3. \A q \in Requests : Sound(q)'
  <2> SUFFICES ASSUME NEW q \in Others(r) PROVE Sound(q)'
    BY DEF Others
  <2>1. tx'[q] = tx[q] /\ Sound(q) /\ q \in Requests
    BY DEF MembershipInv, Others
  <2>2. StageInv(q)'
    BY <2>1 DEF Sound, StageInv, Wrote
  <2>3. ChatInv(q)'
    BY <2>1 DEF Sound, ChatInv, Wrote, Over, database
  <2>4. ArrivalInv(q)'
    BY <2>1 DEF Sound, ArrivalInv, Wrote, Seen, RowsOf, TellsLeft, Clash, database
  <2>5. DepartureInv(q)'
    BY <2>1 DEF Sound, DepartureInv, Wrote, Seen, TellsLeft, database
  <2> QED  BY <2>2, <2>3, <2>4, <2>5 DEF Sound
<1>4. \A p, q \in Requests : p # q => Apart(p, q)'
  <2> SUFFICES ASSUME NEW p \in Requests, NEW q \in Requests, p # q
               PROVE  Apart(p, q)'
    OBVIOUS
  <2>1. CASE p = r
    BY <2>1 DEF Others
  <2>2. CASE q = r
    <3>1. Apart(r, p)'
      BY <2>2 DEF Others
    <3> QED  BY <3>1, <2>2 DEF Apart, Clash, Wrote
  <2>3. CASE p # r /\ q # r
    <3>1. tx'[p] = tx[p] /\ tx'[q] = tx[q] /\ Apart(p, q)
      BY <2>3 DEF Others, MembershipInv
    <3> QED  BY <3>1 DEF Apart, Wrote, Clash
  <2> QED  BY <2>1, <2>2, <2>3
<1> QED  BY <1>1, <1>2, <1>3, <1>4 DEF MembershipInv

\* A request that only moves on, having written nothing new.
LEMMA Moves ==
    ASSUME MembershipInv, NEW r \in Requests, NEW stage \in Stages, ~Over(r),
           Goto(r, stage), Sound(r)'
    PROVE  MembershipInv'
<1>1. /\ tx' \in [Requests -> [at : Stages, chat : Requests \union {NoChat},
                               row : Rows \union {NoRow}, wrote : SUBSET Writes]]
      /\ \A q \in Others(r) : tx'[q] = tx[q]
      /\ tx'[r].wrote = tx[r].wrote /\ tx'[r].chat = tx[r].chat /\ tx'[r].row = tx[r].row
  BY DEF MembershipInv, MembershipTypeOK, Goto, Others
<1>2. \A q \in Others(r) : Apart(r, q)'
  BY <1>1 DEF MembershipInv, Apart, Wrote, Others
<1>3. UNCHANGED database
  BY DEF Goto
<1> QED  BY <1>1, <1>2, <1>3, LocalStep

LEMMA RollsBack ==
    ASSUME MembershipInv, NEW r \in Requests, Reject(r), ~Over(r)
    PROVE  MembershipInv'
<1>1. /\ tx' \in [Requests -> [at : Stages, chat : Requests \union {NoChat},
                               row : Rows \union {NoRow}, wrote : SUBSET Writes]]
      /\ \A q \in Others(r) : tx'[q] = tx[q]
      /\ tx'[r] = [at |-> "failed", chat |-> NoChat, row |-> NoRow, wrote |-> {}]
  BY DEF MembershipInv, MembershipTypeOK, Reject, RollBack, Others, Stages
<1>2. Sound(r)'
  BY <1>1 DEF Sound, StageInv, ChatInv, ArrivalInv, DepartureInv, Wrote, Over
<1>3. \A q \in Others(r) : Apart(r, q)'
  BY <1>1 DEF Apart, Wrote
<1>4. UNCHANGED database
  BY DEF Reject
<1> QED  BY <1>1, <1>2, <1>3, <1>4, LocalStep

-----------------------------------------------------------------------------
\* The statements that read.
LEMMA FindChatKeepsInv ==
    ASSUME MembershipInv, MembershipAssumption, NEW r \in Requests, FindChat(r)
    PROVE  MembershipInv'
<1>1. ~Over(r) /\ UNCHANGED database /\ Sound(r) /\ tx[r].wrote = {} /\ tx[r].at = "chat"
  BY DEF FindChat, Over, MembershipInv, Sound, StageInv
<1>2. PICK c \in chats : tx' = [tx EXCEPT ![r].at = AfterChat(r), ![r].chat = c]
  BY DEF FindChat
<1>3. /\ tx' \in [Requests -> [at : Stages, chat : Requests \union {NoChat},
                               row : Rows \union {NoRow}, wrote : SUBSET Writes]]
      /\ \A q \in Others(r) : tx'[q] = tx[q]
      /\ tx'[r].at = AfterChat(r) /\ tx'[r].chat = c /\ tx'[r].wrote = {}
  <2>1. AfterChat(r) \in Stages /\ c \in Requests
    BY DEF AfterChat, Stages, MembershipInv, MembershipTypeOK
  <2> QED  BY <1>1, <1>2, <2>1 DEF MembershipInv, MembershipTypeOK, Others
<1>4. Sound(r)'
  <2>1. StageInv(r)'
    <3>1. Kind[r] # "actor" /\ tx'[r].at \in {"committing", "actor"}
      BY <1>1, <1>3 DEF Sound, StageInv, AfterChat
    <3> QED  BY <1>3, <3>1 DEF StageInv, Wrote, AfterChat
  <2>2. ChatInv(r)' /\ DepartureInv(r)'
    BY <1>1, <1>3 DEF ChatInv, DepartureInv, Wrote, AfterChat, database
  <2>3. ArrivalInv(r)'
    BY <1>1, <1>3, MembershipAssumption
    DEF ArrivalInv, Wrote, AfterChat, RequestKinds
  <2> QED  BY <2>1, <2>2, <2>3 DEF Sound
<1>5. \A q \in Others(r) : Apart(r, q)'
  BY <1>3 DEF Apart, Wrote
<1> QED  BY <1>1, <1>3, <1>4, <1>5, LocalStep

LEMMA MissChatKeepsInv ==
    ASSUME MembershipInv, NEW r \in Requests, MissChat(r)
    PROVE  MembershipInv'
<1>1. ~Over(r) /\ Sound(r) /\ tx[r].at = "chat"
  BY DEF MissChat, Over, MembershipInv
<1>2. CASE Kind[r] = "leave"
  BY <1>1, <1>2, RollsBack DEF MissChat
<1>3. CASE Kind[r] # "leave" /\ Goto(r, "creating")
  <2>1. tx'[r] = [tx[r] EXCEPT !.at = "creating"] /\ UNCHANGED database
    BY <1>3 DEF Goto, MembershipInv, MembershipTypeOK
  <2>2. tx'[r].at = "creating" /\ tx'[r].wrote = tx[r].wrote
    BY <2>1 DEF MembershipInv, MembershipTypeOK
  <2>3. Sound(r)'
    BY <1>1, <1>3, <2>1, <2>2
    DEF Sound, StageInv, ChatInv, ArrivalInv, DepartureInv, Wrote, Over
  <2> QED  BY <1>1, <1>3, <2>3, Moves DEF Stages
<1> QED  BY <1>2, <1>3 DEF MissChat

LEMMA FindActorKeepsInv ==
    ASSUME MembershipInv, MembershipAssumption, NEW r \in Requests, FindActor(r)
    PROVE  MembershipInv'
<1>1. ~Over(r) /\ Sound(r) /\ tx[r].at = "actor"
  BY DEF FindActor, Over, MembershipInv
<1>2. ASSUME NEW stage \in {"committing", "member", "registering"}, Goto(r, stage),
             stage # "member" <=> Kind[r] = "actor",
             stage = "member" => ActorOf[r] \in actors
      PROVE  MembershipInv'
  <2>1. tx'[r] = [tx[r] EXCEPT !.at = stage] /\ UNCHANGED database
    BY <1>2 DEF Goto, MembershipInv, MembershipTypeOK
  <2>2. tx'[r].at = stage /\ tx'[r].wrote = tx[r].wrote /\ tx'[r].chat = tx[r].chat
    BY <2>1 DEF MembershipInv, MembershipTypeOK
  <2>3. StageInv(r)'
    BY <1>1, <1>2, <2>2 DEF Sound, StageInv, Wrote
  <2>4. ChatInv(r)'
    BY <1>1, <1>2, <2>1, <2>2 DEF Sound, ChatInv, StageInv, Wrote, Over, database
  <2>5. ArrivalInv(r)' /\ DepartureInv(r)'
    BY <1>1, <1>2, <2>1, <2>2
    DEF Sound, StageInv, ArrivalInv, DepartureInv, Wrote, database
  <2>6. Sound(r)'
    BY <2>3, <2>4, <2>5 DEF Sound
  <2> QED  BY <1>1, <1>2, <2>6, Moves DEF Stages
<1>3. CASE Reject(r)
  BY <1>1, <1>3, RollsBack
<1>4. CASE ActorOf[r] \in actors /\ Kind[r] = "actor"
  BY <1>2, <1>4 DEF FindActor
<1>5. CASE ActorOf[r] \in actors /\ Kind[r] # "actor"
  BY <1>2, <1>5 DEF FindActor
<1>6. CASE ActorOf[r] \notin actors /\ Kind[r] = "actor"
  BY <1>2, <1>6 DEF FindActor
<1> QED  BY <1>3, <1>4, <1>5, <1>6 DEF FindActor

LEMMA FindMemberKeepsInv ==
    ASSUME MembershipInv, MembershipAssumption, NEW r \in Requests, FindMember(r)
    PROVE  MembershipInv'
<1>1. ~Over(r) /\ Sound(r) /\ tx[r].at = "member"
  BY DEF FindMember, Over, MembershipInv
<1>2. PICK stage \in {"removing", "committing", "inserting"} :
        /\ Goto(r, stage)
        /\ stage = "removing" => Kind[r] = "leave" /\ Seen(r) # {}
        /\ stage = "inserting" => Kind[r] # "leave" /\ Seen(r) = {}
        /\ stage = "committing" => (Kind[r] = "leave" <=> Seen(r) = {})
  BY DEF FindMember
<1>3. tx'[r] = [tx[r] EXCEPT !.at = stage] /\ UNCHANGED database
  BY <1>2 DEF Goto, MembershipInv, MembershipTypeOK
<1>4. tx'[r].at = stage /\ tx'[r].wrote = tx[r].wrote /\ tx'[r].chat = tx[r].chat
  BY <1>3 DEF MembershipInv, MembershipTypeOK
<1>5. Kind[r] \in {"project", "join", "leave"}
  BY <1>1, MembershipAssumption DEF Sound, StageInv, RequestKinds
<1>6. ~Wrote(r, "actor") /\ ~Wrote(r, "member") /\ ~Wrote(r, "left") /\ ~Wrote(r, "deletion")
  BY <1>1 DEF Sound, StageInv
\* A chat that is not committed has no members to be found.
<1>7. Wrote(r, "chat") => Seen(r) = {} /\ Kind[r] # "leave"
  BY <1>1 DEF Sound, StageInv, ChatInv, Seen, MembershipInv, TablesInv
<1>8. StageInv(r)'
  <2>1. stage = "removing" => tx[r].wrote = {}
    BY <1>2, <1>6, <1>7 DEF Wrote, Writes, MembershipInv, MembershipTypeOK
  <2> QED  BY <1>1, <1>2, <1>4, <1>5, <1>6, <1>7, <2>1 DEF Sound, StageInv, Wrote
<1>9. ChatInv(r)'
  BY <1>1, <1>2, <1>3, <1>4 DEF Sound, ChatInv, Wrote, Over, database
<1>10. ArrivalInv(r)'
  <2>1. Seen(r) # {} => RowsOf(ActorOf[r]) # {}
    BY DEF Seen, RowsOf
  <2> QED  BY <1>1, <1>2, <1>3, <1>4, <1>5, <1>6, <1>7, <2>1
           DEF Sound, ArrivalInv, Wrote, Seen, RowsOf, TellsLeft, database
<1>11. DepartureInv(r)'
  BY <1>2, <1>3, <1>4, <1>6 DEF DepartureInv, Wrote, Seen, database
<1> QED  BY <1>1, <1>2, <1>8, <1>9, <1>10, <1>11, Moves DEF Sound, Stages

-----------------------------------------------------------------------------
\* The statements that write.
LEMMA CreateChatKeepsInv ==
    ASSUME MembershipInv, MembershipAssumption, NEW r \in Requests, CreateChat(r)
    PROVE  MembershipInv'
<1>1. ~Over(r) /\ Sound(r) /\ tx[r].at = "creating"
  BY DEF CreateChat, Over, MembershipInv
<1>2. CASE Reject(r)
  BY <1>1, <1>2, RollsBack
<1>3. CASE /\ chats = {} /\ UNCHANGED database
           /\ tx' = [tx EXCEPT ![r] = [at |-> AfterChat(r), chat |-> r,
                                       row |-> NoRow, wrote |-> {"chat"}]]
  <2>1. AfterChat(r) \in {"committing", "actor"} \intersect Stages /\ {"chat"} \subseteq Writes
    BY DEF AfterChat, Stages, Writes
  <2>2. /\ tx' \in [Requests -> [at : Stages, chat : Requests \union {NoChat},
                                 row : Rows \union {NoRow}, wrote : SUBSET Writes]]
        /\ \A q \in Others(r) : tx'[q] = tx[q]
        /\ tx'[r] = [at |-> AfterChat(r), chat |-> r, row |-> NoRow, wrote |-> {"chat"}]
    BY <1>3, <2>1 DEF MembershipInv, MembershipTypeOK, Others
  <2>3. StageInv(r)'
    BY <1>1, <2>1, <2>2 DEF Sound, StageInv, Wrote, AfterChat
  <2>4. ChatInv(r)' /\ DepartureInv(r)'
    BY <1>3, <2>1, <2>2 DEF ChatInv, DepartureInv, Wrote, database
  <2>5. ArrivalInv(r)'
    BY <1>1, <2>2, MembershipAssumption DEF ArrivalInv, Wrote, AfterChat, RequestKinds
  <2>6. \A q \in Others(r) : Apart(r, q)'
    BY <2>2 DEF CreateChat, Apart, Wrote
  <2> QED  BY <1>1, <1>3, <2>2, <2>3, <2>4, <2>5, <2>6, LocalStep DEF Sound
<1> QED  BY <1>2, <1>3 DEF CreateChat

\* What a statement that inserts one row, or announces a departure, changes.
LEMMA Writing ==
    ASSUME MembershipInv, NEW r \in Requests, NEW w \in Writes,
           Write(r, w, "committing")
    PROVE  /\ tx' \in [Requests -> [at : Stages, chat : Requests \union {NoChat},
                                    row : Rows \union {NoRow}, wrote : SUBSET Writes]]
           /\ \A q \in Others(r) : tx'[q] = tx[q]
           /\ tx'[r].at = "committing" /\ tx'[r].wrote = tx[r].wrote \union {w}
           /\ tx'[r].chat = tx[r].chat /\ tx'[r].row = tx[r].row
           /\ UNCHANGED database
<1>1. tx[r].wrote \union {w} \in SUBSET Writes /\ "committing" \in Stages
  BY DEF MembershipInv, MembershipTypeOK, Stages
<1> QED  BY <1>1 DEF Write, MembershipInv, MembershipTypeOK, Others

LEMMA CreateActorKeepsInv ==
    ASSUME MembershipInv, NEW r \in Requests, CreateActor(r)
    PROVE  MembershipInv'
<1>1. ~Over(r) /\ Sound(r) /\ tx[r].at = "registering"
  BY DEF CreateActor, Over, MembershipInv
<1>2. CASE Reject(r)
  BY <1>1, <1>2, RollsBack
<1>3. CASE Write(r, "actor", "committing") /\ ~\E p \in actors : Clash(p, ActorOf[r])
  <2>1. Kind[r] = "actor"
    BY <1>1 DEF Sound, StageInv
  <2>2. /\ tx' \in [Requests -> [at : Stages, chat : Requests \union {NoChat},
                                 row : Rows \union {NoRow}, wrote : SUBSET Writes]]
        /\ \A q \in Others(r) : tx'[q] = tx[q]
        /\ tx'[r].at = "committing" /\ tx'[r].wrote = tx[r].wrote \union {"actor"}
        /\ UNCHANGED database
    BY <1>3, Writing DEF Writes
  <2>3. Sound(r)'
    BY <1>1, <1>3, <2>1, <2>2
    DEF Sound, StageInv, ChatInv, ArrivalInv, DepartureInv, Wrote, database, Clash
  <2>4. \A q \in Others(r) : Apart(r, q)'
    BY <1>1, <2>1, <2>2 DEF CreateActor, Apart, Sound, StageInv, Wrote, Clash
  <2> QED  BY <1>1, <2>2, <2>3, <2>4, LocalStep
<1> QED  BY <1>2, <1>3 DEF CreateActor

LEMMA InsertMemberKeepsInv ==
    ASSUME MembershipInv, NEW r \in Requests, InsertMember(r)
    PROVE  MembershipInv'
<1>1. ~Over(r) /\ Sound(r) /\ tx[r].at = "inserting"
  BY DEF InsertMember, Over, MembershipInv
<1>2. CASE Reject(r)
  BY <1>1, <1>2, RollsBack
<1>3. CASE Write(r, "member", "committing") /\ Seen(r) = {}
  <2>1. Kind[r] \in {"project", "join"} /\ ActorOf[r] \in actors
    BY <1>1 DEF Sound, StageInv, ArrivalInv
  <2>2. /\ tx' \in [Requests -> [at : Stages, chat : Requests \union {NoChat},
                                 row : Rows \union {NoRow}, wrote : SUBSET Writes]]
        /\ \A q \in Others(r) : tx'[q] = tx[q]
        /\ tx'[r].at = "committing" /\ tx'[r].wrote = tx[r].wrote \union {"member"}
        /\ tx'[r].chat = tx[r].chat
        /\ UNCHANGED database
    BY <1>3, Writing DEF Writes
  <2>3. StageInv(r)'
    BY <1>1, <2>1, <2>2 DEF Sound, StageInv, Wrote
  <2>4. ChatInv(r)' /\ DepartureInv(r)'
    BY <1>1, <2>2 DEF Sound, StageInv, ChatInv, DepartureInv, Wrote, Over, database
  <2>5. ArrivalInv(r)'
    BY <1>1, <1>3, <2>1, <2>2 DEF Sound, StageInv, ArrivalInv, Wrote, Seen, database
  <2>6. \A q \in Others(r) : Apart(r, q)'
    BY <1>1, <2>2 DEF InsertMember, Apart, Sound, StageInv, Wrote, MembershipInv, Others
  <2> QED  BY <1>1, <2>2, <2>3, <2>4, <2>5, <2>6, LocalStep DEF Sound
<1> QED  BY <1>2, <1>3 DEF InsertMember

LEMMA BeginDeleteKeepsInv ==
    ASSUME MembershipInv, NEW r \in Requests, BeginDelete(r)
    PROVE  MembershipInv'
<1>1. /\ ~Over(r) /\ Sound(r) /\ tx[r].at = "removing"
      /\ Kind[r] = "leave" /\ tx[r].wrote = {} /\ ActorOf[r] \in actors
      /\ tx[r].chat \in chats
  BY DEF BeginDelete, Over, MembershipInv, Sound, StageInv, ArrivalInv, ChatInv, Wrote
<1>2. CASE Seen(r) = {} /\ Write(r, "left", "committing")
  <2>1. TellsLeft(ActorOf[r])
    BY <1>1, <1>2 DEF Sound, DepartureInv
  <2>2. /\ tx' \in [Requests -> [at : Stages, chat : Requests \union {NoChat},
                                 row : Rows \union {NoRow}, wrote : SUBSET Writes]]
        /\ \A q \in Others(r) : tx'[q] = tx[q]
        /\ tx'[r].at = "committing" /\ tx'[r].wrote = {"left"}
        /\ tx'[r].chat = tx[r].chat
        /\ UNCHANGED database
    BY <1>1, <1>2, Writing DEF Writes
  <2>3. Sound(r)'
    BY <1>1, <2>1, <2>2
    DEF Sound, StageInv, ChatInv, ArrivalInv, DepartureInv, Wrote, TellsLeft, database
  <2>4. \A q \in Others(r) : Apart(r, q)'
    BY <2>2 DEF Apart, Wrote
  <2> QED  BY <1>1, <2>2, <2>3, <2>4, LocalStep
<1>3. ASSUME NEW row \in Seen(r), UNCHANGED database,
             tx' = [tx EXCEPT ![r].at = "deleting", ![r].row = row]
      PROVE  MembershipInv'
  <2>1. row \in Rows /\ row \in members /\ row.actor = ActorOf[r] /\ "deleting" \in Stages
    BY DEF Seen, MembershipInv, MembershipTypeOK, Stages
  <2>2. /\ tx' \in [Requests -> [at : Stages, chat : Requests \union {NoChat},
                                 row : Rows \union {NoRow}, wrote : SUBSET Writes]]
        /\ \A q \in Others(r) : tx'[q] = tx[q]
        /\ tx'[r].at = "deleting" /\ tx'[r].wrote = {}
        /\ tx'[r].row = row /\ tx'[r].chat = tx[r].chat
    BY <1>1, <1>3, <2>1 DEF MembershipInv, MembershipTypeOK, Others
  <2>3. Sound(r)'
    BY <1>1, <1>3, <2>1, <2>2
    DEF Sound, StageInv, ChatInv, ArrivalInv, DepartureInv, Wrote, database
  <2>4. \A q \in Others(r) : Apart(r, q)'
    BY <2>2 DEF Apart, Wrote
  <2> QED  BY <1>1, <1>3, <2>2, <2>3, <2>4, LocalStep
<1> QED  BY <1>2, <1>3 DEF BeginDelete

LEMMA DeleteMemberKeepsInv ==
    ASSUME MembershipInv, NEW r \in Requests, DeleteMember(r)
    PROVE  MembershipInv'
<1>1. /\ ~Over(r) /\ Sound(r) /\ Kind[r] = "leave" /\ tx[r].at = "deleting"
      /\ tx[r].wrote = {} /\ UNCHANGED database /\ tx[r].chat \in chats
      /\ tx[r].row \in members \/ TellsLeft(ActorOf[r])
      /\ tx[r].row.actor = ActorOf[r]
      /\ ActorOf[r] \in actors
  BY DEF DeleteMember, Over, MembershipInv, Sound, StageInv, ChatInv, ArrivalInv,
         DepartureInv, Wrote
<1>2. PICK w \in SUBSET Writes :
        /\ tx' = [tx EXCEPT ![r].at = "committing", ![r].wrote = w]
        /\ w = IF tx[r].row \in members THEN {"left", "deletion"} ELSE {"left"}
  <2>1. (IF tx[r].row \in members THEN {"left", "deletion"} ELSE {"left"}) \in SUBSET Writes
    BY DEF Writes
  <2> QED  BY <2>1 DEF DeleteMember
<1>3. /\ tx' \in [Requests -> [at : Stages, chat : Requests \union {NoChat},
                               row : Rows \union {NoRow}, wrote : SUBSET Writes]]
      /\ \A q \in Others(r) : tx'[q] = tx[q]
      /\ tx'[r].at = "committing" /\ tx'[r].wrote = w
      /\ tx'[r].row = tx[r].row /\ tx'[r].chat = tx[r].chat
  <2>1. "committing" \in Stages
    BY DEF Stages
  <2> QED  BY <1>2, <2>1 DEF MembershipInv, MembershipTypeOK, Others
<1>4. StageInv(r)'
  BY <1>1, <1>2, <1>3 DEF StageInv, Wrote
<1>5. ChatInv(r)' /\ ArrivalInv(r)'
  BY <1>1, <1>2, <1>3 DEF ChatInv, ArrivalInv, Wrote, database
<1>6. DepartureInv(r)'
  BY <1>1, <1>2, <1>3 DEF DepartureInv, Wrote, TellsLeft, database
<1>7. \A q \in Others(r) : Apart(r, q)'
  <2>1. \A q \in Others(r) : "deletion" \in tx[q].wrote => tx[q].row # tx[r].row
    BY DEF DeleteMember, Wrote
  <2> QED  BY <1>2, <1>3, <2>1 DEF Apart, Wrote
<1> QED  BY <1>1, <1>3, <1>4, <1>5, <1>6, <1>7, LocalStep DEF Sound

-----------------------------------------------------------------------------
NewRow(r) == [chat |-> tx[r].chat, actor |-> ActorOf[r], by |-> r]

\* What a commit does to the tables: a row goes only with its announcement.
Effect(r) ==
    /\ actors \subseteq actors' /\ chats \subseteq chats'
    /\ \A x \in actors' : x \in actors \/ (Wrote(r, "actor") /\ x = ActorOf[r])
    /\ Wrote(r, "chat") => chats' = {r}
    /\ ~Wrote(r, "chat") => chats' = chats
    /\ \A row \in members' : row \in members \/ (Wrote(r, "member") /\ row = NewRow(r))
    /\ Wrote(r, "member") => NewRow(r) \in members'
    /\ \A row \in members : row \in members' \/ (Wrote(r, "deletion") /\ row = tx[r].row)
    /\ \A row \in members : row \in members' \/ TellsLeft(row.actor)'
    /\ \A m \in messages' : m \in messages \/ m[1] = r
    /\ \A x : TellsLeft(x) => TellsLeft(x)'

LEMMA Applied ==
    ASSUME MembershipInv, NEW r \in Requests, tx[r].at = "committing", Apply(r)
    PROVE  Effect(r)
<1>1. Sound(r)
  BY DEF MembershipInv
<1>2. Wrote(r, "left") => <<r, "left">> \in messages'
  BY DEF Apply, Announced
<1>3. \A row \in members : row \in members' \/ (Wrote(r, "deletion") /\ row = tx[r].row)
  BY DEF Apply
<1>4. \A row \in members : row \in members' \/ TellsLeft(row.actor)'
  <2> SUFFICES ASSUME NEW row \in members, Wrote(r, "deletion"), row = tx[r].row
               PROVE  TellsLeft(row.actor)'
    BY <1>3
  <2>1. row.actor = ActorOf[r] /\ <<r, "left">> \in messages'
    BY <1>1, <1>2 DEF Sound, StageInv, DepartureInv
  <2> QED  BY <2>1 DEF TellsLeft
<1>5. \A x : TellsLeft(x) => TellsLeft(x)'
  BY DEF TellsLeft, Apply
<1>6. \A m \in messages' : m \in messages \/ m[1] = r
  BY DEF Apply, Announced
<1>7. Wrote(r, "chat") => chats' = {r}
  BY <1>1 DEF Apply, Sound, ChatInv
<1>8. /\ \A row \in members' : row \in members \/ (Wrote(r, "member") /\ row = NewRow(r))
      /\ Wrote(r, "member") => NewRow(r) \in members'
  BY DEF Apply, NewRow
<1>9. /\ actors \subseteq actors' /\ chats \subseteq chats'
      /\ \A x \in actors' : x \in actors \/ (Wrote(r, "actor") /\ x = ActorOf[r])
      /\ ~Wrote(r, "chat") => chats' = chats
  BY DEF Apply
<1> QED  BY <1>3, <1>4, <1>5, <1>6, <1>7, <1>8, <1>9 DEF Effect

LEMMA ApplyKeepsInv ==
    ASSUME MembershipInv, MembershipAssumption, NEW r \in Requests,
           tx[r].at = "committing", Apply(r),
           tx' \in [Requests -> [at : Stages, chat : Requests \union {NoChat},
                                row : Rows \union {NoRow}, wrote : SUBSET Writes]],
           \A q \in Others(r) : tx'[q] = tx[q],
           tx'[r].wrote = {}, tx'[r].at \in {"done", "failed"}
    PROVE  MembershipInv'
<1>0. Effect(r)
  BY Applied
<1>1. Sound(r) /\ Kind[r] \in RequestKinds /\ ActorOf[r] \in Actors
  BY MembershipAssumption DEF MembershipInv
<1>2. Wrote(r, "member") =>
        /\ tx[r].chat \in chats' /\ ActorOf[r] \in actors /\ NewRow(r) \in Rows
        /\ NewRow(r).chat = tx[r].chat /\ NewRow(r).actor = ActorOf[r]
        /\ \A row \in members : row.chat # tx[r].chat \/ row.actor # ActorOf[r]
  <2> SUFFICES ASSUME Wrote(r, "member")
               PROVE  /\ tx[r].chat \in chats' /\ ActorOf[r] \in actors
                      /\ tx[r].chat \in Requests /\ Seen(r) = {}
    BY <1>1 DEF Rows, Seen, NewRow
  <2>1. Kind[r] # "actor" /\ ActorOf[r] \in actors /\ Seen(r) = {}
    BY <1>1 DEF Sound, StageInv, ArrivalInv
  <2>2. tx[r].chat \in chats \/ (Wrote(r, "chat") /\ tx[r].chat = r)
    BY <1>1, <2>1 DEF Sound, ChatInv, Over
  <2> QED  BY <2>1, <2>2 DEF Apply, MembershipInv, MembershipTypeOK
<1>3. MembershipTypeOK'
  <2>1. members' \subseteq Rows
    BY <1>2, <1>0 DEF Effect, MembershipInv, MembershipTypeOK
  <2>2. messages' \subseteq Requests \X {"created", "added", "left", "task"}
    BY DEF Apply, Announced, MembershipInv, MembershipTypeOK
  <2>3. actors' \subseteq Actors /\ chats' \subseteq Requests
    BY <1>1, <1>0 DEF Effect, MembershipInv, MembershipTypeOK
  <2> QED  BY <2>1, <2>2, <2>3 DEF MembershipTypeOK
<1>4. TablesInv'
  <2>1. OneChat'
    <3>1. \A c, d \in chats' : c = d
      BY <1>0 DEF Effect, MembershipInv, TablesInv, OneChat
    <3>2. \A p, q \in members' : p.chat = q.chat /\ p.actor = q.actor => p = q
      BY <1>2, <1>0 DEF Effect, MembershipInv, TablesInv, OneChat
    <3> QED  BY <3>1, <3>2 DEF OneChat
  <2>2. \A row \in members' : row.chat \in chats' /\ row.actor \in actors'
    BY <1>2, <1>0 DEF Effect, MembershipInv, TablesInv
  <2>3. \A p, q \in actors' : Clash(p, q) => p = q
    <3>1. Wrote(r, "actor") => \A p \in actors : ~Clash(p, ActorOf[r])
      BY <1>1 DEF Sound, ArrivalInv
    <3> QED  BY <3>1, <1>0 DEF Effect, MembershipInv, TablesInv, Clash
  <2>4. \A m \in messages' : Over(m[1])'
    BY <1>0 DEF Effect, MembershipInv, MembershipTypeOK, TablesInv, Over, Others
  <2> QED  BY <2>1, <2>2, <2>3, <2>4 DEF TablesInv
<1>5. \A x : RowsOf(x) # {} \/ TellsLeft(x) => (RowsOf(x) # {} \/ TellsLeft(x))'
  BY <1>0 DEF Effect, RowsOf
<1>6. ASSUME NEW q \in Others(r) PROVE Sound(q)'
  <2>1. q \in Requests /\ tx'[q] = tx[q] /\ Sound(q) /\ Apart(r, q)
    BY DEF Others, MembershipInv
  <2>2. StageInv(q)'
    BY <2>1 DEF Sound, StageInv, Wrote
  <2>3. ChatInv(q)'
    BY <2>1, <1>0 DEF Effect, Sound, ChatInv, Apart, Wrote, Over
  <2>4. Wrote(q, "actor")' => \A x \in actors' : ~Clash(x, ActorOf[q])
    BY <2>1, <1>0 DEF Effect, Sound, ArrivalInv, Apart, Wrote, Clash
  <2>5. Wrote(q, "member")' => Seen(q)' = {}
    <3>1. \A row \in members' : row \in members
             \/ (Wrote(r, "member") /\ row.chat = tx[r].chat /\ row.actor = ActorOf[r])
      BY <1>2, <1>0 DEF Effect
    <3> QED  BY <2>1, <3>1 DEF Sound, ArrivalInv, Apart, Wrote, Seen
  <2>6. ArrivalInv(q)'
    <3>1. ActorOf[q] \in actors => ActorOf[q] \in actors'
      BY <1>0 DEF Effect
    <3>2. Kind[q] \in {"project", "join"} /\ tx[q].at \in {"committing", "done"} =>
            \/ tx[q].at = "committing" /\ Wrote(q, "member")
            \/ (RowsOf(ActorOf[q]) # {} \/ TellsLeft(ActorOf[q]))'
      BY <1>5, <2>1 DEF Sound, ArrivalInv
    <3> QED  BY <2>1, <2>4, <2>5, <3>1, <3>2 DEF Sound, ArrivalInv, Wrote
  <2>7. DepartureInv(q)'
    <3>1. Seen(q) # {} => Seen(q)' # {} \/ TellsLeft(ActorOf[q])'
      BY <2>1, <1>0 DEF Effect, Seen
    <3>2. tx[q].row \in members /\ tx[q].row.actor = ActorOf[q] =>
            tx[q].row \in members' \/ TellsLeft(ActorOf[q])'
      BY <1>0 DEF Effect
    <3>3. TellsLeft(ActorOf[q]) => TellsLeft(ActorOf[q])'
      BY <1>0 DEF Effect
    <3>4. Wrote(q, "deletion") => tx[q].row \in members'
      BY <2>1, <1>0 DEF Effect, Sound, DepartureInv, Apart
    <3> QED  BY <2>1, <3>1, <3>2, <3>3, <3>4 DEF Sound, DepartureInv, Wrote
  <2> QED  BY <2>2, <2>3, <2>6, <2>7 DEF Sound
<1>7. Sound(r)'
  <2>1. Kind[r] \in {"project", "join"} => (RowsOf(ActorOf[r]) # {} \/ TellsLeft(ActorOf[r]))'
    <3>1. Wrote(r, "member") => NewRow(r) \in members' /\ NewRow(r).actor = ActorOf[r]
      BY <1>2, <1>0 DEF Effect
    <3> QED  BY <1>1, <1>5, <3>1 DEF Sound, ArrivalInv, RowsOf
  <2>2. ArrivalInv(r)'
    BY <2>1 DEF ArrivalInv, Wrote
  <2>3. StageInv(r)' /\ ChatInv(r)' /\ DepartureInv(r)'
    BY DEF StageInv, ChatInv, DepartureInv, Wrote, Over
  <2> QED  BY <2>2, <2>3 DEF Sound
<1>8. \A p, q \in Requests : p # q => Apart(p, q)'
  BY DEF MembershipInv, Apart, Wrote, Clash, Others
<1> QED  BY <1>3, <1>4, <1>6, <1>7, <1>8 DEF MembershipInv, Others

LEMMA CommitKeepsInv ==
    ASSUME MembershipInv, MembershipAssumption, NEW r \in Requests,
           Commit(r) \/ CommitFails(r)
    PROVE  MembershipInv'
<1>1. tx[r].at = "committing" /\ Apply(r)
  BY DEF Commit, CommitFails
<1>2. /\ tx' \in [Requests -> [at : Stages, chat : Requests \union {NoChat},
                               row : Rows \union {NoRow}, wrote : SUBSET Writes]]
      /\ \A q \in Others(r) : tx'[q] = tx[q]
      /\ tx'[r].wrote = {} /\ tx'[r].at \in {"done", "failed"}
  BY DEF Commit, CommitFails, RollBack, MembershipInv, MembershipTypeOK, Others, Stages
<1> QED  BY <1>1, <1>2, ApplyKeepsInv

LEMMA InitHasInv == ASSUME MembershipAssumption, Init PROVE MembershipInv
<1>1. MembershipTypeOK
  BY MembershipAssumption DEF Init, MembershipTypeOK, Stages
<1>2. TablesInv
  BY MembershipAssumption DEF Init, TablesInv, OneChat, Clash
<1>3. \A r \in Requests : Sound(r)
  BY MembershipAssumption
  DEF Init, Sound, StageInv, ChatInv, ArrivalInv, DepartureInv, Wrote, Over, RequestKinds
<1>4. \A r, q \in Requests : r # q => Apart(r, q)
  BY DEF Init, Apart, Wrote
<1> QED  BY <1>1, <1>2, <1>3, <1>4 DEF MembershipInv

LEMMA NextKeepsInv ==
    ASSUME MembershipInv, MembershipAssumption, [Next]_vars PROVE MembershipInv'
<1>1. CASE UNCHANGED vars
  BY <1>1 DEF vars, MembershipInv, MembershipTypeOK, TablesInv, OneChat, Sound, StageInv,
     ChatInv, ArrivalInv, DepartureInv, Apart, Wrote, Seen, RowsOf, TellsLeft, Over
<1>2. ASSUME NEW r \in Requests, Proceeds(r) PROVE MembershipInv'
  BY <1>2, FindChatKeepsInv, MissChatKeepsInv, CreateChatKeepsInv, FindActorKeepsInv,
     CreateActorKeepsInv, FindMemberKeepsInv, InsertMemberKeepsInv, BeginDeleteKeepsInv,
     DeleteMemberKeepsInv, CommitKeepsInv
  DEF Proceeds
<1>3. ASSUME NEW r \in Requests, Fails(r) PROVE MembershipInv'
  BY <1>3, RollsBack DEF Fails
<1>4. ASSUME NEW r \in Requests, CommitFails(r) PROVE MembershipInv'
  BY <1>4, CommitKeepsInv
<1> QED  BY <1>1, <1>2, <1>3, <1>4 DEF Next, Finished

LEMMA InvImplies == MembershipInv => MembershipTypeOK /\ OneChat /\ JoinedUnlessLeft
<1> SUFFICES ASSUME MembershipInv PROVE JoinedUnlessLeft
  BY DEF MembershipInv, TablesInv
<1>1. \A a : TellsLeft(a) => Told(a, "left") # {}
  BY DEF TellsLeft, Told, MembershipInv, MembershipTypeOK
<1> QED  BY <1>1 DEF JoinedUnlessLeft, MembershipInv, Sound, ArrivalInv

-----------------------------------------------------------------------------
LEMMA MembershipAlways == Spec => []MembershipInv
<1> USE MembershipAssumption
<1>1. Init => MembershipInv
  BY InitHasInv
<1>2. MembershipInv /\ [Next]_vars => MembershipInv'
  BY NextKeepsInv
<1> QED  BY <1>1, <1>2, PTL DEF Spec

(* The tables and the transactions always have the shape of the schema.    *)
THEOREM MembershipTypeCorrect == Spec => []MembershipTypeOK
BY MembershipAlways, InvImplies, PTL

(* However many requests find no chat at once, create_chat.py leaves the   *)
(* context one chat and each actor one row in it.                          *)
THEOREM MembershipHasOneChat == Spec => []OneChat
BY MembershipAlways, InvImplies, PTL

(* A join that add_chat_member.py answered left a member, although the row *)
(* it relied on may have been another request's.                           *)
THEOREM JoiningMakesMember == Spec => []JoinedUnlessLeft
BY MembershipAlways, InvImplies, PTL

-----------------------------------------------------------------------------
(* Counting arrivals and departures.                                       *)

\* The arrivals and departures told of an actor and his rows; what is counted
\* is finite, because one commit adds one at most.
Counted(added, left, rows) ==
    /\ IsFiniteSet(added) /\ IsFiniteSet(left) /\ IsFiniteSet(rows)
    /\ Cardinality(added) <= Cardinality(left) + Cardinality(rows)

\* What a commit may make of them: an arrival told is a row more, and a row
\* less is a departure told.
CountsOn(added, left, rows, added2, left2, rows2) ==
    \/ /\ \E r : added2 \in {added, added \union {r}}
       /\ left2 = left
       /\ \E row : row \notin rows /\ rows2 = rows \union {row}
    \/ /\ added2 = added
       /\ \E r : r \notin left /\ left2 = left \union {r}
       /\ \E row : rows2 \in {rows, rows \ {row}}
    \/ added2 = added /\ left2 = left /\ rows2 = rows

CountInv == \A a \in Actors : Counted(Told(a, "added"), Told(a, "left"), RowsOf(a))

\* Such a commit leaves no more arrivals told than departures and rows.
LEMMA Counting ==
    ASSUME NEW added, NEW left, NEW rows, Counted(added, left, rows),
           NEW added2, NEW left2, NEW rows2,
           CountsOn(added, left, rows, added2, left2, rows2)
    PROVE  Counted(added2, left2, rows2)
<1>1. /\ Cardinality(added) \in Nat /\ Cardinality(left) \in Nat /\ Cardinality(rows) \in Nat
  BY FS_CardinalityType DEF Counted
<1>2. CASE /\ \E r : added2 \in {added, added \union {r}}
           /\ left2 = left
           /\ \E row : row \notin rows /\ rows2 = rows \union {row}
  <2>1. PICK r : added2 \in {added, added \union {r}}
    BY <1>2
  <2>2. PICK row : row \notin rows /\ rows2 = rows \union {row}
    BY <1>2
  <2>3. /\ IsFiniteSet(added \union {r})
        /\ Cardinality(added \union {r}) = IF r \in added THEN Cardinality(added)
                                                        ELSE Cardinality(added) + 1
    BY FS_AddElement DEF Counted
  <2>4. IsFiniteSet(rows2) /\ Cardinality(rows2) = Cardinality(rows) + 1
    BY <2>2, FS_AddElement DEF Counted
  <2>5. /\ IsFiniteSet(added2)
        /\ Cardinality(added2) \in {Cardinality(added), Cardinality(added) + 1}
    BY <2>1, <2>3 DEF Counted
  <2> QED  BY <1>1, <1>2, <2>4, <2>5 DEF Counted
<1>3. CASE /\ added2 = added
           /\ \E r : r \notin left /\ left2 = left \union {r}
           /\ \E row : rows2 \in {rows, rows \ {row}}
  <2>1. PICK r : r \notin left /\ left2 = left \union {r}
    BY <1>3
  <2>2. PICK row : rows2 \in {rows, rows \ {row}}
    BY <1>3
  <2>3. IsFiniteSet(left2) /\ Cardinality(left2) = Cardinality(left) + 1
    BY <2>1, FS_AddElement DEF Counted
  <2>4. /\ IsFiniteSet(rows \ {row})
        /\ Cardinality(rows \ {row}) = IF row \in rows THEN Cardinality(rows) - 1
                                                       ELSE Cardinality(rows)
    BY FS_RemoveElement DEF Counted
  <2>5. IsFiniteSet(rows2) /\ Cardinality(rows2) \in {Cardinality(rows), Cardinality(rows) - 1}
    BY <2>2, <2>4 DEF Counted
  <2> QED  BY <1>1, <1>3, <2>3, <2>5 DEF Counted
<1>4. CASE added2 = added /\ left2 = left /\ rows2 = rows
  BY <1>4
<1> QED  BY <1>2, <1>3, <1>4 DEF CountsOn

\* A commit tells of one arrival or departure, of the request's own actor,
\* and no commit before it did.
LEMMA ApplyKeepsCount ==
    ASSUME MembershipInv, MembershipAssumption, CountInv, NEW r \in Requests,
           tx[r].at = "committing", Apply(r)
    PROVE  CountInv'
<1>1. Sound(r) /\ Kind[r] \in RequestKinds
  BY MembershipAssumption DEF MembershipInv
<1>2. \A text : <<r, text>> \notin messages
  BY DEF MembershipInv, TablesInv, Over
<1>3. ASSUME NEW a \in Actors
      PROVE  \/ /\ Told(a, "added")' \in {Told(a, "added"), Told(a, "added") \union {r}}
                /\ Told(a, "left")' = Told(a, "left")
                /\ NewRow(r) \notin RowsOf(a) /\ RowsOf(a)' = RowsOf(a) \union {NewRow(r)}
             \/ /\ Told(a, "added")' = Told(a, "added")
                /\ r \notin Told(a, "left") /\ Told(a, "left")' = Told(a, "left") \union {r}
                /\ RowsOf(a)' \in {RowsOf(a), RowsOf(a) \ {tx[r].row}}
             \/ /\ Told(a, "added")' = Told(a, "added")
                /\ Told(a, "left")' = Told(a, "left")
                /\ RowsOf(a)' = RowsOf(a)
  <2>1. CASE Wrote(r, "member")
    <3>1. ~Wrote(r, "left") /\ ~Wrote(r, "deletion") /\ Seen(r) = {}
      BY <1>1, <2>1 DEF Sound, StageInv, ArrivalInv
    <3>2. NewRow(r) \notin members /\ NewRow(r).actor = ActorOf[r]
      BY <3>1 DEF Seen, NewRow
    <3>3. members' = members \union {NewRow(r)}
      BY <2>1, <3>1 DEF Apply, NewRow
    <3>4. Told(a, "left")' = Told(a, "left")
      BY <3>1 DEF Apply, Announced, Told
    <3>5. /\ ActorOf[r] = a =>
                Told(a, "added")' \in {Told(a, "added"), Told(a, "added") \union {r}}
          /\ ActorOf[r] # a => Told(a, "added")' = Told(a, "added")
      BY DEF Apply, Announced, Told
    <3>6. /\ ActorOf[r] = a => RowsOf(a)' = RowsOf(a) \union {NewRow(r)}
          /\ ActorOf[r] # a => RowsOf(a)' = RowsOf(a)
      BY <3>2, <3>3 DEF RowsOf
    <3> QED  BY <3>2, <3>4, <3>5, <3>6 DEF RowsOf
  <2>2. CASE Wrote(r, "left")
    <3>1. ~Wrote(r, "member") /\ (Wrote(r, "deletion") => tx[r].row.actor = ActorOf[r])
      BY <1>1, <2>2 DEF Sound, StageInv, DepartureInv
    <3>2. Told(a, "added")' = Told(a, "added")
      BY <3>1 DEF Apply, Announced, Told
    <3>3. /\ ActorOf[r] = a => Told(a, "left")' = Told(a, "left") \union {r}
          /\ ActorOf[r] # a => Told(a, "left")' = Told(a, "left")
      BY <2>2 DEF Apply, Announced, Told
    <3>4. /\ ActorOf[r] = a => RowsOf(a)' \in {RowsOf(a), RowsOf(a) \ {tx[r].row}}
          /\ ActorOf[r] # a => RowsOf(a)' = RowsOf(a)
      BY <3>1 DEF Apply, RowsOf
    <3> QED  BY <1>2, <3>2, <3>3, <3>4 DEF Told
  <2>3. CASE ~Wrote(r, "member") /\ ~Wrote(r, "left")
    <3>1. ~Wrote(r, "deletion")
      BY <1>1, <2>3 DEF Sound, StageInv
    <3> QED  BY <2>3, <3>1 DEF Apply, Announced, Told, RowsOf
  <2> QED  BY <2>1, <2>2, <2>3
<1>4. ASSUME NEW a \in Actors
      PROVE  Counted(Told(a, "added"), Told(a, "left"), RowsOf(a))'
  <2>1. CountsOn(Told(a, "added"), Told(a, "left"), RowsOf(a),
                 Told(a, "added")', Told(a, "left")', RowsOf(a)')
    BY <1>3 DEF CountsOn
  <2>2. Counted(Told(a, "added"), Told(a, "left"), RowsOf(a))
    BY DEF CountInv
  <2> QED  BY <2>1, <2>2, Counting
<1> QED  BY <1>4 DEF CountInv

\* Every other step tells nothing and changes no row.
LEMMA CountStep ==
    ASSUME MembershipInv, MembershipAssumption, CountInv, [Next]_vars
    PROVE  CountInv'
<1>1. ASSUME UNCHANGED database
      PROVE  CountInv'
  BY <1>1 DEF database, CountInv, Told, RowsOf
<1>2. ASSUME NEW r \in Requests, Commit(r) \/ CommitFails(r)
      PROVE  CountInv'
  BY <1>2, ApplyKeepsCount DEF Commit, CommitFails
<1>3. ASSUME NEW r \in Requests, Proceeds(r) \/ Fails(r), ~Commit(r)
      PROVE  UNCHANGED database
  BY <1>3 DEF Proceeds, FindChat, MissChat, CreateChat, FindActor, CreateActor, FindMember,
     InsertMember, BeginDelete, DeleteMember, Fails, Reject, Goto, Write
<1> QED  BY <1>1, <1>2, <1>3 DEF Next, Finished, vars, database

(* An arrival is told again only after a departure was, however often the  *)
(* events of add_project_member.py and remove_chat_member.py are repeated. *)
THEOREM ArrivalsAreToldOnce == Spec => []ArrivalsToldOnce
<1> USE MembershipAssumption
<1>1. Init => CountInv
  <2> SUFFICES ASSUME Init PROVE CountInv
    OBVIOUS
  <2>1. \A a : Told(a, "added") = {} /\ Told(a, "left") = {} /\ RowsOf(a) = {}
    BY DEF Init, Told, RowsOf
  <2>2. IsFiniteSet({}) /\ Cardinality({}) = 0
    BY FS_EmptySet
  <2> QED  BY <2>1, <2>2 DEF CountInv, Counted
<1>2. MembershipInv /\ CountInv /\ [Next]_vars => CountInv'
  BY CountStep
<1>3. CountInv => ArrivalsToldOnce
  BY DEF CountInv, Counted, ArrivalsToldOnce
<1> QED  BY <1>1, <1>2, <1>3, MembershipAlways, PTL DEF Spec

-----------------------------------------------------------------------------
\* A commit is one step of the ledger, or none.
LEMMA CommitIsLedgerStep ==
    ASSUME MembershipInv, MembershipAssumption, NEW r \in Requests,
           tx[r].at = "committing", Apply(r)
    PROVE  [Ledger!Next]_(Ledger!ledger)
<1>1. Sound(r) /\ Kind[r] \in RequestKinds /\ tx[r].wrote \subseteq Writes
  BY MembershipAssumption DEF MembershipInv, MembershipTypeOK
<1>2. Ledger!Silent(r)
  BY DEF Ledger!Silent, MembershipInv, TablesInv, Over
<1>3. CASE Kind[r] = "actor"
  <2>1. /\ ~Wrote(r, "chat") /\ ~Wrote(r, "member") /\ ~Wrote(r, "left")
        /\ ~Wrote(r, "deletion")
    BY <1>1, <1>3 DEF Sound, StageInv
  <2>2. Announced(r) = {}
    BY <1>3, <2>1 DEF Announced
  <2>3. UNCHANGED <<chats, members, messages>>
    BY <2>1, <2>2 DEF Apply
  <2>4. CASE Wrote(r, "actor")
    <3>1. \A x \in actors : ~Clash(x, ActorOf[r])
      BY <1>1, <2>4 DEF Sound, ArrivalInv
    <3>2. Ledger!Register(r)
      BY <1>3, <2>3, <2>4, <3>1 DEF Apply, Ledger!Register, Clash
    <3> QED  BY <3>2 DEF Ledger!Next
  <2>5. CASE ~Wrote(r, "actor")
    BY <2>3, <2>5 DEF Apply, Ledger!ledger
  <2> QED  BY <2>4, <2>5
<1>4. CASE Kind[r] \in {"chat", "task"}
  <2>1. /\ ~Wrote(r, "actor") /\ ~Wrote(r, "member") /\ ~Wrote(r, "left")
        /\ ~Wrote(r, "deletion")
    BY <1>1, <1>4 DEF Sound, StageInv
  <2>2. UNCHANGED <<actors, members>>
    BY <2>1 DEF Apply
  <2>3. Announced(r) = IF Kind[r] = "task" THEN {<<r, "task">>}
                       ELSE IF Wrote(r, "chat") THEN {<<r, "created">>} ELSE {}
    BY <1>4, <2>1 DEF Announced
  <2>4. CASE Wrote(r, "chat")
    <3>1. chats = {} /\ chats' = {r}
      BY <1>1, <2>4 DEF Sound, ChatInv, Apply
    <3>2. Ledger!Open(r)
      BY <1>2, <1>4, <2>2, <2>3, <2>4, <3>1 DEF Apply, Ledger!Open
    <3> QED  BY <3>2 DEF Ledger!Next
  <2>5. CASE ~Wrote(r, "chat")
    <3>1. chats # {} /\ UNCHANGED chats
      BY <1>1, <1>4, <2>5 DEF Sound, ChatInv, Over, Apply
    <3>2. CASE Kind[r] = "task"
      <4>1. Ledger!Notify(r)
        BY <1>2, <2>2, <2>3, <3>1, <3>2 DEF Apply, Ledger!Notify
      <4> QED  BY <4>1 DEF Ledger!Next
    <3>3. CASE Kind[r] # "task"
      BY <2>2, <2>3, <2>5, <3>1, <3>3 DEF Apply, Ledger!ledger
    <3> QED  BY <3>2, <3>3
  <2> QED  BY <2>4, <2>5
<1>5. CASE Kind[r] \in {"project", "join"}
  <2>1. ~Wrote(r, "actor") /\ ~Wrote(r, "left") /\ ~Wrote(r, "deletion")
    BY <1>1, <1>5 DEF Sound, StageInv
  <2>2. UNCHANGED actors
    BY <2>1 DEF Apply
  <2>3. CASE Wrote(r, "member")
    <3>1. /\ ActorOf[r] \in actors
          /\ \A row \in members : row.chat # tx[r].chat \/ row.actor # ActorOf[r]
      BY <1>1, <2>3 DEF Sound, ArrivalInv, Seen
    <3>2. /\ tx[r].chat \in IF chats = {} THEN {r} ELSE chats
          /\ chats' = chats \union {tx[r].chat}
          /\ Wrote(r, "chat") <=> chats = {}
      BY <1>1, <1>5 DEF Sound, ChatInv, Over, Apply
    <3>3. members' = members \union {[chat |-> tx[r].chat, actor |-> ActorOf[r], by |-> r]}
      BY <2>1, <2>3 DEF Apply
    <3>4. Announced(r) = (IF chats = {} THEN {<<r, "created">>} ELSE {})
                  \union (IF Kind[r] = "join" THEN {<<r, "added">>} ELSE {})
      BY <1>5, <2>1, <2>3, <3>2 DEF Announced
    <3>5. messages' = messages \union (IF chats = {} THEN {<<r, "created">>} ELSE {})
                  \union (IF Kind[r] = "join" THEN {<<r, "added">>} ELSE {})
      BY <3>4 DEF Apply
    <3>6. Ledger!Arrive(r)
      BY <1>2, <1>5, <2>2, <3>1, <3>2, <3>3, <3>5 DEF Ledger!Arrive
    <3> QED  BY <3>6 DEF Ledger!Next
  <2>4. CASE ~Wrote(r, "member")
    <3>1. ~Wrote(r, "chat")
      BY <1>1, <1>5, <2>4 DEF Sound, ArrivalInv
    <3>2. Announced(r) = {}
      BY <1>5, <2>1, <2>4, <3>1 DEF Announced
    <3> QED  BY <2>1, <2>2, <2>4, <3>1, <3>2 DEF Apply, Ledger!ledger
  <2> QED  BY <2>3, <2>4
<1>6. CASE Kind[r] = "leave"
  <2>1. ~Wrote(r, "actor") /\ ~Wrote(r, "chat") /\ ~Wrote(r, "member")
    BY <1>1, <1>6 DEF Sound, StageInv
  <2>2. UNCHANGED <<actors, chats>>
    BY <2>1 DEF Apply
  <2>3. Announced(r) = IF Wrote(r, "left") THEN {<<r, "left">>} ELSE {}
    BY <1>6, <2>1 DEF Announced
  <2>4. CASE Wrote(r, "deletion")
    <3>1. Wrote(r, "left") /\ tx[r].row \in members /\ tx[r].row.actor = ActorOf[r]
      BY <1>1, <2>4 DEF Sound, StageInv, DepartureInv
    <3>2. members' = members \ {tx[r].row} /\ messages' = messages \union {<<r, "left">>}
      BY <2>1, <2>3, <2>4, <3>1 DEF Apply
    <3>3. Ledger!Depart(r)
      BY <1>2, <1>6, <2>2, <3>1, <3>2 DEF Ledger!Depart
    <3> QED  BY <3>3 DEF Ledger!Next
  <2>5. CASE ~Wrote(r, "deletion") /\ Wrote(r, "left")
    <3>1. TellsLeft(ActorOf[r])
      BY <1>1, <2>5 DEF Sound, DepartureInv
    <3>2. UNCHANGED members /\ messages' = messages \union {<<r, "left">>}
      BY <2>1, <2>3, <2>5 DEF Apply
    <3>3. Ledger!DepartAgain(r)
      BY <1>2, <1>6, <2>2, <3>1, <3>2 DEF Ledger!DepartAgain, TellsLeft
    <3> QED  BY <3>3 DEF Ledger!Next
  <2>6. CASE ~Wrote(r, "left")
    <3>1. ~Wrote(r, "deletion")
      BY <1>1, <2>6 DEF Sound, StageInv
    <3> QED  BY <2>1, <2>2, <2>3, <2>6, <3>1 DEF Apply, Ledger!ledger
  <2> QED  BY <2>4, <2>5, <2>6
<1> QED  BY <1>1, <1>3, <1>4, <1>5, <1>6 DEF RequestKinds

LEMMA LedgerStep ==
    ASSUME MembershipInv, MembershipAssumption, [Next]_vars
    PROVE  [Ledger!Next]_(Ledger!ledger)
<1>1. CASE UNCHANGED database
  BY <1>1 DEF database, Ledger!ledger
<1>2. CASE UNCHANGED vars
  BY <1>2 DEF vars, Ledger!ledger
<1>3. ASSUME NEW r \in Requests, Commit(r) \/ CommitFails(r)
      PROVE  [Ledger!Next]_(Ledger!ledger)
  BY <1>3, CommitIsLedgerStep DEF Commit, CommitFails
<1>4. ASSUME NEW r \in Requests, Proceeds(r) \/ Fails(r), ~Commit(r)
      PROVE  UNCHANGED database
  BY <1>4 DEF Proceeds, Fails, FindChat, MissChat, CreateChat, FindActor, CreateActor,
     FindMember, InsertMember, BeginDelete, DeleteMember, Goto, Write, Reject
<1> QED  BY <1>1, <1>2, <1>3, <1>4 DEF Next, Finished, Proceeds

(* Every behaviour of the requests, with their interleavings, waits and    *)
(* failures, is one of MembershipLedger: the unit of work of               *)
(* adapters/unit_of_work.py takes effect in one step or not at all.        *)
THEOREM MembershipImplementsLedger == Spec => KeepsMembershipLedger
<1> USE MembershipAssumption
<1>1. Init => Ledger!Init
  BY DEF Init, Ledger!Init
<1>2. MembershipInv /\ [Next]_vars => [Ledger!Next]_(Ledger!ledger)
  BY LedgerStep
<1> QED  BY <1>1, <1>2, MembershipAlways, PTL DEF Spec, KeepsMembershipLedger, Ledger!Spec
=============================================================================
