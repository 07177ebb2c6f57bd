-------------------------- MODULE ChatHistory_proofs --------------------------
(***************************************************************************)
(* Pages never overlap, for any messages, page size and interleaving with  *)
(* saves.  The cursor is the least row shown so far (CursorInv), a row     *)
(* keeps its time stamp and its id (StoreInv), and a query with a cursor   *)
(* returns only rows below it.                                             *)
(***************************************************************************)
EXTENDS ChatHistory, FiniteSetTheorems, TLAPS

\* What is in Redis or in PostgreSQL has been sent, and has its time stamp.
StoreInv ==
    /\ created \in [Messages -> Nat]
    /\ id \in [Messages -> Nat]
    /\ pending \in Seq(Messages)
    /\ batch \in Seq(Messages)
    /\ \A m \in Elements(pending) \union Stored : created[m] # 0

\* The row of an entry shown before is not below the cursor.
Above(e) ==
    /\ e.msg \in Stored
    /\ \/ created[e.msg] > reader.cursor.time
       \/ created[e.msg] = reader.cursor.time /\ id[e.msg] >= reader.cursor.id

ReaderInv ==
    /\ reader \in [at : Stages, limit : Nat, cursor : [time : Nat, id : Nat], rows : SUBSET Entries,
                   listed : SUBSET Messages, page : SUBSET Entries, more : BOOLEAN]
    /\ walk \in [stored : SUBSET Messages, crowded : BOOLEAN, pages : 0..2,
                 seen : SUBSET Entries]
    /\ \A e \in reader.rows : e.persisted => e.msg \in Stored
    /\ reader.page # {} => reader.at = "shown"
    /\ reader.at \in {"idle", "listing", "loading"} => reader.cursor = NoCursor
    /\ reader.at \in {"idle", "listing", "loading"} => walk.seen = {}
    /\ reader.at = "querying" /\ reader.cursor = NoCursor => walk.seen = {}

CursorInv ==
    /\ \A e \in walk.seen \union reader.page : e.persisted => e.msg \in Stored
    /\ reader.at = "querying" =>
          \A d \in walk.seen : d.persisted => Above(d)
    /\ reader.at = "shown" /\ reader.more =>
          /\ reader.cursor # NoCursor
          /\ \A d \in walk.seen \union reader.page : d.persisted => Above(d)

HistoryInv == StoreInv /\ ReaderInv /\ CursorInv /\ PagesDescend

-----------------------------------------------------------------------------
\* What a message has in PostgreSQL stays as it is.
RowsKept ==
    /\ created' \in [Messages -> Nat]
    /\ id' \in [Messages -> Nat]
    /\ \A m \in Stored : created'[m] = created[m] /\ id'[m] = id[m]

LEMMA MaxIdNat == MaxId \in Nat
  BY HistoryAssumption, FS_CardinalityType DEF MaxId

LEMMA NewestIn == ASSUME NEW entries, NEW n PROVE Newest(entries, n) \subseteq entries
  BY DEF Newest

LEMMA PageIn ==
    ASSUME NEW rows, NEW waiting
    PROVE  Page(rows, waiting) \subseteq rows \union waiting
  BY NewestIn DEF Page

LEMMA PieceOfSequence ==
    ASSUME NEW s \in Seq(Messages), NEW i \in Nat \ {0}, NEW j \in 0..Len(s)
    PROVE  /\ SubSeq(s, i, j) \in Seq(Messages)
           /\ Elements(SubSeq(s, i, j)) \subseteq Elements(s)
  BY DEF Elements

LEMMA InitHistory == Init => HistoryInv
  BY DEF Init, HistoryInv, StoreInv, ReaderInv, CursorInv, PagesDescend, PageRows, NoCursor,
         Stages, Stored, Elements, Entries

(* What the store does disturbs no page that was shown and no cursor.      *)
LEMMA StoreKeepsReader ==
    ASSUME ReaderInv, CursorInv, PagesDescend, StoreInv, RowsKept, UNCHANGED <<reader, walk>>
    PROVE  ReaderInv' /\ CursorInv' /\ PagesDescend'
  <1>1. Stored \subseteq Stored'
    BY DEF Stored, RowsKept
  <1>2. ReaderInv'
    BY <1>1 DEF ReaderInv, Stages, NoCursor, Entries
  <1>3. ASSUME NEW d \in Entries, Above(d)
        PROVE  Above(d)'
    BY <1>1, <1>3 DEF Above, RowsKept
  <1>4. CursorInv'
    <2>1. walk.seen \union reader.page \subseteq Entries
      BY DEF ReaderInv
    <2> QED
      BY <1>1, <1>3, <2>1 DEF CursorInv, PageRows
  <1>5. PagesDescend'
    <2> SUFFICES ASSUME NEW e \in PageRows, NEW d \in walk.seen, d.persisted
                 PROVE  Before(e, d)'
      BY DEF PagesDescend, PageRows
    <2>1. e.msg \in Stored /\ e.persisted
      BY DEF CursorInv, PageRows
    <2>2. d.msg \in Stored
      BY DEF CursorInv, PageRows, PagesDescend
    <2>3. Before(e, d)
      BY DEF PagesDescend
    <2> QED
      BY <2>1, <2>2, <2>3 DEF Before, Number, RowsKept
  <1> QED
    BY <1>2, <1>4, <1>5

(* The operations of the store.                                            *)
LEMMA SentKeepsStore ==
    ASSUME StoreInv, NEW m \in Messages, Send(m) \/ Announce(m)
    PROVE  StoreInv' /\ RowsKept
  <1>1. PICK t \in Times : created' = [created EXCEPT ![m] = t]
    BY DEF Send, Announce
  <1>2. t \in Nat \ {0}
    BY HistoryAssumption DEF Times
  <1>3. created' \in [Messages -> Nat] /\ created'[m] # 0
    BY <1>1, <1>2 DEF StoreInv
  <1>4. m \notin Stored
    BY DEF Send, Announce, StoreInv
  <1>5. CASE Send(m)
    <2>1. pending' \in Seq(Messages) /\ Elements(pending') \subseteq Elements(pending) \union {m}
      BY <1>5 DEF Send, StoreInv, Elements
    <2>2. id' = id /\ batch' = batch /\ Stored' = Stored
      BY <1>5 DEF Send, Stored
    <2> QED
      BY <1>1, <1>3, <1>4, <2>1, <2>2 DEF StoreInv, RowsKept
  <1>6. CASE Announce(m)
    <2>1. PICK n \in 1..MaxId : id' = [id EXCEPT ![m] = n]
      BY <1>6 DEF Announce
    <2>2. id' \in [Messages -> Nat] /\ Stored' \subseteq Stored \union {m}
      BY <2>1, MaxIdNat DEF StoreInv, Stored
    <2>3. pending' = pending /\ batch' = batch /\ Elements(pending') = Elements(pending)
      BY <1>6 DEF Announce, Elements
    <2> QED
      BY <1>1, <1>3, <1>4, <2>1, <2>2, <2>3 DEF StoreInv, RowsKept
  <1> QED
    BY <1>5, <1>6

LEMMA SaveKeepsStore ==
    ASSUME StoreInv, SaveInserts \/ SaveDeletes \/ SaveFails
    PROVE  StoreInv' /\ RowsKept
  <1>1. CASE SaveInserts
    <2>1. PICK n \in 1..Len(pending) : batch' = SubSeq(pending, 1, n)
      BY <1>1 DEF SaveInserts
    <2>2. batch' \in Seq(Messages) /\ Elements(batch') \subseteq Elements(pending)
      BY <2>1, PieceOfSequence DEF StoreInv
    <2> DEFINE new == Elements(batch') \ Stored
               free == (1..MaxId) \ {id[x] : x \in Messages}
    <2>3. PICK number \in [new -> free] :
             id' = [m \in Messages |-> IF m \in new THEN number[m] ELSE id[m]]
      BY <1>1 DEF SaveInserts
    <2>4. free \subseteq Nat
      BY MaxIdNat
    <2>5. id' \in [Messages -> Nat]
      BY <2>3, <2>4 DEF StoreInv
    <2>6. \A m \in Stored : id'[m] = id[m]
      BY <2>3 DEF Stored
    <2>7. Stored' \subseteq Stored \union Elements(pending)
      BY <2>2, <2>3 DEF Stored
    <2>8. created' = created /\ pending' = pending /\ Elements(pending') = Elements(pending)
      BY <1>1 DEF SaveInserts, Elements
    <2> QED
      BY <2>2, <2>5, <2>6, <2>7, <2>8 DEF StoreInv, RowsKept
  <1>2. CASE SaveDeletes
    <2>1. pending' \in Seq(Messages) /\ Elements(pending') \subseteq Elements(pending)
      <3>1. pending \in Seq(Messages) /\ Len(batch) + 1 \in Nat \ {0}
        BY DEF StoreInv
      <3>2. Len(pending) \in 0..Len(pending)
        BY <3>1
      <3>3. pending' = SubSeq(pending, Len(batch) + 1, Len(pending))
        BY <1>2 DEF SaveDeletes
      <3> QED
        BY <3>1, <3>2, <3>3, PieceOfSequence
    <2>2. UNCHANGED <<created, id>> /\ Stored' = Stored /\ batch' = <<>>
      BY <1>2 DEF SaveDeletes, Stored
    <2> QED
      BY <2>1, <2>2 DEF StoreInv, RowsKept
  <1>3. CASE SaveFails
    BY <1>3 DEF SaveFails, StoreInv, RowsKept, Stored, Elements
  <1> QED
    BY <1>1, <1>2, <1>3

-----------------------------------------------------------------------------
(* The reader.                                                             *)
LEMMA ReadingKeepsStore ==
    ASSUME StoreInv, UNCHANGED store
    PROVE  StoreInv'
  BY DEF StoreInv, store, Stored, Elements

LEMMA RecentRows ==
    ASSUME NEW n, NEW e \in RecentByChat(n)
    PROVE  /\ e \in Entries /\ e.persisted
           /\ e.msg \in Stored /\ BelowCursor(e.msg)
  <1>1. e \in {Row(m) : m \in {x \in Stored : BelowCursor(x)}}
    BY NewestIn DEF RecentByChat
  <1>2. PICK m \in Stored : e = Row(m) /\ BelowCursor(m)
    BY <1>1
  <1> QED
    BY <1>2 DEF Row, Entries, Stored

(* A row below the cursor lies before every row the client has seen.       *)
LEMMA BelowIsBefore ==
    ASSUME StoreInv, ReaderInv, reader.cursor # NoCursor,
           NEW e \in Entries, e.persisted, BelowCursor(e.msg),
           NEW d \in Entries, d.persisted, Above(d)
    PROVE  Before(e, d)
  BY DEF StoreInv, ReaderInv, BelowCursor, Above, Before, Number, Entries

(* An answer from rows that lie before everything seen keeps the           *)
(* invariant: the next cursor is the first row of the page.                *)
LEMMA AnswerKeepsInv ==
    ASSUME HistoryInv,
           NEW rows \in SUBSET Entries, NEW waiting \in SUBSET Entries,
           \A e \in waiting : ~e.persisted,
           \A e \in rows : e.persisted =>
               /\ e.msg \in Stored
               /\ \A d \in walk.seen : d.persisted => Before(e, d),
           Answer(rows, waiting), UNCHANGED store
    PROVE  HistoryInv'
  <1> DEFINE page == Page(rows, waiting)
             more == Cardinality(rows) > reader.limit /\ \E e \in page : FirstPersisted(e, page)
             first == CHOOSE e \in page : FirstPersisted(e, page)
  <1>1. page \in SUBSET Entries /\ \A e \in page : e.persisted => e \in rows
    BY PageIn
  <1>2. reader' = [at |-> "shown", limit |-> reader.limit, rows |-> {}, listed |-> {},
                   page |-> page, more |-> more,
                   cursor |-> IF more
                              THEN [time |-> created[first.msg], id |-> id[first.msg]]
                              ELSE reader.cursor]
    BY DEF Answer
  <1>3. walk' \in [stored : SUBSET Messages, crowded : BOOLEAN, pages : 0..2,
                   seen : SUBSET Entries] /\ walk'.seen = walk.seen
    <2> DEFINE shown == IF walk.pages = 0 THEN 1 ELSE 2
               crowded == IF walk.pages = 0 THEN waiting # {} ELSE walk.crowded
    <2>1. walk \in [stored : SUBSET Messages, crowded : BOOLEAN, pages : 0..2,
                    seen : SUBSET Entries]
      BY DEF HistoryInv, ReaderInv
    <2>2. walk' = [walk EXCEPT !.pages = shown, !.crowded = crowded]
      BY DEF Answer
    <2>3. shown \in 0..2
      OBVIOUS
    <2>4. crowded \in BOOLEAN
      BY <2>1
    <2> HIDE DEF shown, crowded
    <2> QED
      BY <2>1, <2>2, <2>3, <2>4
  <1>4. UNCHANGED <<created, id>> /\ Stored' = Stored
    BY DEF store, Stored
  <1>5. ASSUME more
        PROVE  /\ first \in page /\ first.persisted /\ first.msg \in Stored
               /\ \A d \in page : d.persisted => d = first \/ Before(first, d)
    <2>1. \E e \in page : FirstPersisted(e, page)
      BY <1>5
    <2>2. FirstPersisted(first, page)
      BY <2>1
    <2> HIDE DEF first, page
    <2> QED
      BY <1>1, <2>2 DEF FirstPersisted
  <1> HIDE DEF first, page, more
  <1>6. more \in BOOLEAN
    BY DEF more
  <1>7. \A e \in page : e.persisted => e.msg \in Stored
    BY <1>1
  <1>8. ReaderInv'
    <2>1. reader.cursor \in [time : Nat, id : Nat] /\ reader.limit \in Nat
      BY DEF HistoryInv, ReaderInv
    <2>2. more => [time |-> created[first.msg], id |-> id[first.msg]] \in [time : Nat, id : Nat]
      BY <1>5 DEF HistoryInv, StoreInv, Stored
    <2> QED
      BY <1>1, <1>2, <1>3, <1>6, <2>1, <2>2 DEF ReaderInv, Stages
  <1>9. PagesDescend'
    <2> SUFFICES ASSUME NEW e \in page, e.persisted, NEW d \in walk.seen, d.persisted
                 PROVE  Before(e, d)'
      BY <1>2, <1>3 DEF PagesDescend, PageRows
    <2>1. Before(e, d)
      BY <1>1
    <2> QED
      BY <1>4, <2>1 DEF Before, Number
  <1>10. ASSUME more, NEW d \in walk.seen \union page, d.persisted
         PROVE  Above(d)'
    <2>1. d = first \/ Before(first, d)
      BY <1>1, <1>5, <1>10
    <2>2. d.msg \in Stored /\ first.msg \in Stored /\ first.persisted
      BY <1>5, <1>7, <1>10 DEF HistoryInv, CursorInv
    <2>3. reader'.cursor = [time |-> created[first.msg], id |-> id[first.msg]]
      BY <1>2, <1>10
    <2>4. /\ created[d.msg] \in Nat /\ created[first.msg] \in Nat
          /\ id[d.msg] \in Nat /\ id[first.msg] \in Nat
      BY <2>2 DEF HistoryInv, StoreInv, Stored
    <2> QED
      BY <1>4, <1>10, <2>1, <2>2, <2>3, <2>4 DEF Above, Before, Number
  <1>11. more => reader'.cursor # NoCursor
    BY <1>2, <1>5 DEF NoCursor, HistoryInv, StoreInv
  <1>12. CursorInv'
    <2>1. \A d \in walk.seen \union page : d.persisted => d.msg \in Stored
      BY <1>7 DEF HistoryInv, CursorInv
    <2>2. /\ reader'.at = "shown" /\ reader'.page = page /\ reader'.more = more
      BY <1>2
    <2> QED
      BY <1>3, <1>4, <1>10, <1>11, <2>1, <2>2 DEF CursorInv
  <1> QED
    BY <1>8, <1>9, <1>12, ReadingKeepsStore DEF HistoryInv

LEMMA StepHistory == HistoryInv /\ [Next]_vars => HistoryInv'
  <1> SUFFICES ASSUME HistoryInv, [Next]_vars
               PROVE  HistoryInv'
    OBVIOUS
  <1> USE DEF HistoryInv
  <1>1. ASSUME NEW m \in Messages, Send(m) \/ Announce(m)
        PROVE  HistoryInv'
    BY <1>1, SentKeepsStore, StoreKeepsReader DEF Send, Announce
  <1>2. CASE SaveInserts \/ SaveDeletes \/ SaveFails
    BY <1>2, SaveKeepsStore, StoreKeepsReader DEF SaveInserts, SaveDeletes, SaveFails
  <1>3. ASSUME UNCHANGED store
        PROVE  StoreInv' /\ Stored' = Stored /\ UNCHANGED <<created, id>>
    BY <1>3, ReadingKeepsStore DEF store, Stored
  <1>4. CASE Begin
    <2>1. /\ UNCHANGED <<store, walk>> /\ reader.at = "idle" /\ reader.page = {}
          /\ walk.seen = {}
      BY <1>4 DEF Begin, ReaderInv
    <2>2. PICK n \in Nat : reader' = [reader EXCEPT !.at = "querying", !.limit = n]
      <3>1. PICK n \in 1..Limit : reader' = [reader EXCEPT !.at = "querying", !.limit = n]
        BY <1>4 DEF Begin
      <3>2. n \in Nat
        BY HistoryAssumption
      <3> QED
        BY <3>1, <3>2
    <2>3. ReaderInv'
      BY <1>3, <2>1, <2>2 DEF ReaderInv, Stages
    <2> QED
      BY <1>3, <2>1, <2>2, <2>3 DEF CursorInv, PagesDescend, PageRows, ReaderInv
  <1>5. CASE QueryFirst
    <2>1. /\ UNCHANGED store /\ reader.at = "querying" /\ reader.page = {} /\ walk.seen = {}
          /\ reader.cursor = NoCursor
      BY <1>5 DEF QueryFirst, ReaderInv
    <2>2. /\ reader' = [reader EXCEPT !.at = "listing", !.rows = RecentByChat(reader.limit + 1)]
          /\ walk' = [walk EXCEPT !.stored = Stored]
      BY <1>5 DEF QueryFirst
    <2>3. RecentByChat(reader.limit + 1) \subseteq Entries
          /\ \A e \in RecentByChat(reader.limit + 1) : e.msg \in Stored
      BY RecentRows
    <2>4. ReaderInv'
      BY <1>3, <2>1, <2>2, <2>3 DEF ReaderInv, Stages, Stored
    <2> QED
      BY <1>3, <2>1, <2>2, <2>4 DEF CursorInv, PagesDescend, PageRows, ReaderInv
  <1>6. CASE ListPending
    <2>1. /\ UNCHANGED <<store, walk>> /\ reader.at = "listing" /\ reader.page = {}
          /\ walk.seen = {} /\ reader.cursor = NoCursor
          /\ reader' = [reader EXCEPT !.at = "loading", !.listed = Elements(pending)]
      BY <1>6 DEF ListPending, ReaderInv
    <2>2. Elements(pending) \subseteq Messages
      BY DEF Elements, StoreInv
    <2>3. ReaderInv'
      BY <1>3, <2>1, <2>2 DEF ReaderInv, Stages
    <2> QED
      BY <1>3, <2>1, <2>3 DEF CursorInv, PagesDescend, PageRows, ReaderInv
  <1>7. CASE QueryNext
    <2> DEFINE rows == RecentByChat(reader.limit + 1)
    <2>1. /\ reader.at = "querying" /\ reader.cursor # NoCursor /\ UNCHANGED store
          /\ Answer(rows, {})
      BY <1>7 DEF QueryNext
    <2>2. \A e \in rows : e \in Entries /\ e.persisted /\ e.msg \in Stored /\ BelowCursor(e.msg)
      BY RecentRows
    <2>3. \A d \in walk.seen : d.persisted => d \in Entries /\ Above(d)
      BY <2>1 DEF CursorInv, ReaderInv
    <2> HIDE DEF rows
    <2>4. \A e \in rows : \A d \in walk.seen : d.persisted => Before(e, d)
      BY <2>1, <2>2, <2>3, BelowIsBefore
    <2> QED
      BY <2>1, <2>2, <2>4, AnswerKeepsInv
  <1>8. CASE LoadPending
    <2> DEFINE waiting == {Waiting(m) : m \in reader.listed \intersect Elements(pending)}
    <2>1. /\ reader.at = "loading" /\ walk.seen = {} /\ UNCHANGED store
          /\ Answer(reader.rows, waiting)
      BY <1>8 DEF LoadPending, ReaderInv
    <2>2. waiting \in SUBSET Entries /\ \A e \in waiting : ~e.persisted
      <3>1. reader.listed \subseteq Messages
        BY DEF ReaderInv
      <3>2. \A m \in Messages : Waiting(m) \in Entries /\ ~Waiting(m).persisted
        BY DEF Waiting, Entries
      <3> QED
        BY <3>1, <3>2
    <2>3. /\ reader.rows \in SUBSET Entries
          /\ \A e \in reader.rows : e.persisted => e.msg \in Stored
      BY DEF ReaderInv
    <2> HIDE DEF waiting
    <2> QED
      BY <2>1, <2>2, <2>3, AnswerKeepsInv
  <1>9. CASE TakePage
    <2>1. /\ UNCHANGED store /\ reader.at = "shown"
          /\ walk' = [walk EXCEPT !.seen = @ \union reader.page]
      BY <1>9 DEF TakePage
    <2>2. PICK n \in Nat :
             \/ /\ reader.more
                /\ reader' = [reader EXCEPT !.at = "querying", !.limit = n, !.page = {}]
             \/ /\ ~reader.more
                /\ reader' = [reader EXCEPT !.at = "ended", !.limit = n, !.page = {},
                                            !.cursor = NoCursor]
      <3>1. CASE reader.more
        <4>1. PICK n \in 1..Limit :
                 reader' = [reader EXCEPT !.at = "querying", !.limit = n, !.page = {}]
          BY <1>9, <3>1 DEF TakePage
        <4>2. n \in Nat
          BY HistoryAssumption
        <4> QED
          BY <3>1, <4>1, <4>2
      <3>2. CASE ~reader.more
        BY <1>9, <3>2 DEF TakePage
      <3> QED
        BY <3>1, <3>2
    <2>3. /\ walk'.seen = walk.seen \union reader.page
          /\ walk' \in [stored : SUBSET Messages, crowded : BOOLEAN, pages : 0..2,
                        seen : SUBSET Entries]
          /\ reader'.page = {}
      BY <2>1, <2>2 DEF ReaderInv
    <2>4. reader.more => reader.cursor # NoCursor
      BY <2>1 DEF CursorInv
    <2>5. ReaderInv'
      <3>1. reader' \in [at : Stages, limit : Nat, cursor : [time : Nat, id : Nat],
                         rows : SUBSET Entries, listed : SUBSET Messages,
                         page : SUBSET Entries, more : BOOLEAN]
        <4>1. NoCursor \in [time : Nat, id : Nat]
          BY DEF NoCursor
        <4>2. reader \in [at : Stages, limit : Nat, cursor : [time : Nat, id : Nat],
                          rows : SUBSET Entries, listed : SUBSET Messages,
                          page : SUBSET Entries, more : BOOLEAN]
          BY DEF ReaderInv
        <4>3. {"querying", "ended"} \subseteq Stages
          BY DEF Stages
        <4>4. CASE reader.more
          BY <2>2, <4>2, <4>3, <4>4
        <4>5. CASE ~reader.more
          BY <2>2, <4>1, <4>2, <4>3, <4>5
        <4> QED
          BY <4>4, <4>5
      <3>2. reader'.rows = reader.rows /\ reader'.at \in {"querying", "ended"}
        BY <2>2 DEF ReaderInv
      <3>3. reader'.at = "querying" => reader'.cursor = reader.cursor /\ reader.more
        BY <2>2 DEF ReaderInv
      <3> QED
        BY <1>3, <2>1, <2>3, <2>4, <3>1, <3>2, <3>3 DEF ReaderInv
    <2>6. CursorInv'
      BY <1>3, <2>1, <2>2, <2>3 DEF CursorInv, Above, ReaderInv
    <2>7. PagesDescend'
      BY <2>3 DEF PagesDescend, PageRows
    <2> QED
      BY <1>3, <2>1, <2>5, <2>6, <2>7
  <1>10. CASE UNCHANGED vars
    BY <1>10 DEF vars, StoreInv, ReaderInv, CursorInv, PagesDescend, PageRows, Above, Before,
                 Number, Stored, Elements
  <1> QED
    BY <1>1, <1>2, <1>4, <1>5, <1>6, <1>7, <1>8, <1>9, <1>10 DEF Next, Reads, Quiet

(* The rows of each page lie before all rows the walk has shown: pages do  *)
(* not overlap, whatever the save inserts between them.                    *)
THEOREM HistoryPagesDescend == Spec => []PagesDescend
  <1>1. Init => HistoryInv
    BY InitHistory
  <1>2. HistoryInv /\ [Next]_vars => HistoryInv'
    BY StepHistory
  <1>3. HistoryInv => PagesDescend
    BY DEF HistoryInv
  <1> QED
    BY <1>1, <1>2, <1>3, PTL DEF Spec

-----------------------------------------------------------------------------
(* The order of a page.                                                    *)

Bit(b) == IF b THEN 1 ELSE 0

\* Entries whose rows, if they claim to be rows, are there.
Settled(S) == S \subseteq Entries /\ \A e \in S : e.persisted => e.msg \in Stored

\* How many entries of S come after e: 0 for the last one.
Rank(S, e) == Cardinality({d \in S : Before(e, d)})

\* There are only finitely many entries, two for each message.
LEMMA EntriesFinite ==
  ASSUME NEW S \in SUBSET Entries
  PROVE  IsFiniteSet(S) /\ Cardinality(S) \in Nat
<1> DEFINE f == [e \in Entries |-> <<e.msg, Bit(e.persisted)>>]
<1>1. f \in Injection(Entries, Messages \X (0..1))
  <2>1. f \in [Entries -> Messages \X (0..1)]
    BY DEF Entries, Bit
  <2>2. \A d, e \in Entries : f[d] = f[e] => d = e
    BY DEF Entries, Bit
  <2> QED
    BY <2>1, <2>2 DEF Injection, IsInjective
<1>2. IsFiniteSet(0..1)
  <2>1. 0 \in Int /\ 1 \in Int
    OBVIOUS
  <2> QED
    BY <2>1, FS_Interval
<1>3. IsFiniteSet(Messages \X (0..1))
  BY <1>2, FS_Product, HistoryAssumption
<1>4. IsFiniteSet(Entries)
  BY <1>1, <1>3, FS_Injection
<1> QED
  BY <1>4, FS_Subset, FS_CardinalityType

\* Before orders the entries of a page: it is the order of the time stamp,
\* the row's id and the runtime id, and a message that is both pending and a
\* row comes once as each.
LEMMA PageOrder ==
  ASSUME StoreInv, NEW S, Settled(S), NEW d \in S, NEW e \in S, NEW f \in S
  PROVE  /\ ~ Before(e, e)
         /\ Before(d, e) /\ Before(e, f) => Before(d, f)
         /\ d = e \/ Before(d, e) \/ Before(e, d)
<1>1. /\ created[d.msg] \in Nat /\ created[e.msg] \in Nat /\ created[f.msg] \in Nat
      /\ Number(d) \in Nat /\ Number(e) \in Nat /\ Number(f) \in Nat
      /\ d.msg \in Nat /\ e.msg \in Nat /\ f.msg \in Nat
  BY HistoryAssumption DEF StoreInv, Settled, Entries, Number
<1>2. ~ Before(e, e)
  BY <1>1 DEF Before
<1>3. Before(d, e) /\ Before(e, f) => Before(d, f)
  BY <1>1 DEF Before
<1>4. ASSUME ~ Before(d, e), ~ Before(e, d)
      PROVE  d = e
  <2>1. d.msg = e.msg /\ Number(d) = Number(e)
    BY <1>1, <1>4 DEF Before
  <2>2. d.persisted = e.persisted
    BY <2>1 DEF Number, Settled, Entries, Stored
  <2> QED
    BY <2>1, <2>2 DEF Settled, Entries
<1> QED
  BY <1>2, <1>3, <1>4

\* An entry has fewer entries after it than any before it.
LEMMA RankFalls ==
  ASSUME StoreInv, NEW S, Settled(S), NEW d \in S, NEW e \in S, Before(d, e)
  PROVE  Rank(S, e) \in Nat /\ Rank(S, d) \in Nat /\ Rank(S, e) < Rank(S, d)
<1> DEFINE D == {x \in S : Before(d, x)}
           E == {x \in S : Before(e, x)}
<1>1. /\ IsFiniteSet(D) /\ IsFiniteSet(E) /\ Cardinality(D) \in Nat /\ Cardinality(E) \in Nat
  BY EntriesFinite DEF Settled
<1>2. E \subseteq D /\ e \in D /\ e \notin E
  BY PageOrder
<1>3. Cardinality(E) <= Cardinality(D) /\ Cardinality(E) # Cardinality(D)
  BY <1>1, <1>2, FS_Subset
<1> QED
  BY <1>1, <1>3 DEF Rank

\* The ranks number the entries from the last to the first.
LEMMA Ranking ==
  ASSUME StoreInv, NEW S, Settled(S)
  PROVE  [e \in S |-> Rank(S, e)] \in Bijection(S, 0..(Cardinality(S) - 1))
<1> DEFINE r == [e \in S |-> Rank(S, e)]
           T == 0..(Cardinality(S) - 1)
<1>1. IsFiniteSet(S) /\ Cardinality(S) \in Nat
  BY EntriesFinite DEF Settled
<1>2. ASSUME NEW e \in S
      PROVE  Rank(S, e) \in T
  <2> DEFINE E == {x \in S : Before(e, x)}
  <2>1. E \in SUBSET (S \ {e})
    BY PageOrder
  <2>2. IsFiniteSet(S \ {e}) /\ Cardinality(S \ {e}) = Cardinality(S) - 1
    BY <1>1, FS_RemoveElement
  <2>3. Cardinality(E) <= Cardinality(S \ {e}) /\ IsFiniteSet(E)
    BY <2>1, <2>2, FS_Subset
  <2>4. Cardinality(E) \in Nat
    BY <2>3, FS_CardinalityType
  <2> QED
    BY <1>1, <2>2, <2>3, <2>4 DEF Rank
<1>3. ASSUME NEW d \in S, NEW e \in S, r[d] = r[e]
      PROVE  d = e
  BY <1>3, PageOrder, RankFalls
<1>4. r \in Injection(S, T)
  BY <1>2, <1>3 DEF Injection, IsInjective
<1>5. IsFiniteSet(T) /\ Cardinality(T) = Cardinality(S)
  BY <1>1, FS_Interval
<1>6. r \in Surjection(S, T)
  BY <1>4, <1>5, FS_Injection
<1> QED
  BY <1>4, <1>6 DEF Bijection

\* Newest takes no more than it is asked for.
LEMMA NewestBound ==
  ASSUME StoreInv, NEW S, Settled(S), NEW n \in Nat
  PROVE  Cardinality(Newest(S, n)) <= n
<1> DEFINE N == Newest(S, n)
           T == 0..(n - 1)
           r == [e \in N |-> Rank(S, e)]
<1>1. N \subseteq S /\ \A e \in N : Rank(S, e) < n
  BY DEF Newest, Rank
<1>2. \A e \in N : Rank(S, e) \in Nat
  BY <1>1, EntriesFinite DEF Rank, Settled
<1>3. \A e \in N : Rank(S, e) \in T
  BY <1>1, <1>2
<1>4. \A d, e \in N : r[d] = r[e] => d = e
  <2> SUFFICES ASSUME NEW d \in N, NEW e \in N, Rank(S, d) = Rank(S, e)
               PROVE  d = e
    OBVIOUS
  <2> QED
    BY <1>1, PageOrder, RankFalls
<1>5. r \in Injection(N, T)
  BY <1>3, <1>4 DEF Injection, IsInjective
<1>6. IsFiniteSet(T) /\ Cardinality(T) = n
  BY FS_Interval
<1> QED
  BY <1>5, <1>6, FS_Injection

\* What comes after an entry that Newest takes is taken too.
LEMMA NewestUpward ==
  ASSUME StoreInv, NEW S, Settled(S), NEW n \in Nat,
         NEW e \in Newest(S, n), NEW d \in S, Before(e, d)
  PROVE  d \in Newest(S, n)
<1>1. e \in S /\ Rank(S, e) < n
  BY DEF Newest, Rank
<1>2. Rank(S, d) \in Nat /\ Rank(S, e) \in Nat /\ Rank(S, d) < Rank(S, e)
  BY <1>1, RankFalls
<1>3. Rank(S, d) < n
  BY <1>1, <1>2
<1> QED
  BY <1>3 DEF Newest, Rank

\* Newest takes as many as it is asked for, or all.
LEMMA NewestFull ==
  ASSUME StoreInv, NEW S, Settled(S), NEW n \in Nat, Newest(S, n) # S
  PROVE  Cardinality(Newest(S, n)) = n
<1> DEFINE N == Newest(S, n)
           T == 0..(n - 1)
           r == [e \in N |-> Rank(S, e)]
           all == [e \in S |-> Rank(S, e)]
<1>1. N \subseteq S /\ \A e \in S : e \in N <=> Rank(S, e) < n
  BY DEF Newest, Rank
<1>2. all \in Bijection(S, 0..(Cardinality(S) - 1)) /\ Cardinality(S) \in Nat
  BY Ranking, EntriesFinite DEF Settled
<1>3. \A e \in S : Rank(S, e) \in 0..(Cardinality(S) - 1)
  BY <1>2 DEF Bijection, Injection, IsInjective
<1>4. PICK x \in S : x \notin N
  BY <1>1
<1>5. Cardinality(S) > n
  BY <1>1, <1>2, <1>3, <1>4
<1>6. r \in Injection(N, T)
  <2>1. \A e \in N : Rank(S, e) \in T
    BY <1>1, <1>3
  <2>2. \A d, e \in N : Rank(S, d) = Rank(S, e) => d = e
    BY <1>1, <1>2 DEF Bijection, Injection, IsInjective
  <2> QED
    BY <2>1, <2>2 DEF Injection, IsInjective
<1>7. \A k \in T : \E e \in N : r[e] = k
  <2> SUFFICES ASSUME NEW k \in T
               PROVE  \E e \in N : r[e] = k
    OBVIOUS
  <2>1. k \in 0..(Cardinality(S) - 1) /\ k < n
    BY <1>2, <1>5
  <2>2. PICK e \in S : all[e] = k
    BY <1>2, <2>1 DEF Bijection, Surjection
  <2>3. Rank(S, e) = k
    BY <2>2
  <2> QED
    BY <1>1, <2>1, <2>3
<1>8. r \in Surjection(N, T)
  BY <1>6, <1>7 DEF Injection, IsInjective, Surjection
<1>9. IsFiniteSet(T) /\ Cardinality(T) = n
  BY FS_Interval
<1> QED
  BY <1>6, <1>8, <1>9, FS_Injection

\* Newest of a set that is small enough is the set.
LEMMA NewestOfFew ==
  ASSUME StoreInv, NEW S, Settled(S), NEW n \in Nat, Cardinality(S) <= n
  PROVE  Newest(S, n) = S
<1>1. IsFiniteSet(S) /\ Cardinality(S) \in Nat /\ Newest(S, n) \in SUBSET S
  BY EntriesFinite, NewestIn DEF Settled
<1>2. SUFFICES ASSUME Newest(S, n) # S
               PROVE  FALSE
  OBVIOUS
<1>3. Cardinality(Newest(S, n)) = n /\ Cardinality(Newest(S, n)) <= Cardinality(S)
  BY <1>1, <1>2, NewestFull, FS_Subset
<1>4. Cardinality(S) = Cardinality(Newest(S, n))
  BY <1>1, <1>3
<1> QED
  BY <1>1, <1>2, <1>4, FS_Subset

\* A page with a row has a first one.
LEMMA FirstExists ==
  ASSUME StoreInv, NEW S, Settled(S), NEW x \in S, x.persisted
  PROVE  \E e \in S : FirstPersisted(e, S)
<1> DEFINE P == {e \in S : e.persisted}
           r == [e \in P |-> Rank(P, e)]
<1>1. Settled(P) /\ IsFiniteSet(P) /\ Cardinality(P) \in Nat
  BY EntriesFinite DEF Settled
<1>2. r \in Bijection(P, 0..(Cardinality(P) - 1))
  BY <1>1, Ranking
<1>3. Cardinality(P) # 0
  BY <1>1, FS_EmptySet
<1>4. Cardinality(P) - 1 \in 0..(Cardinality(P) - 1)
  BY <1>1, <1>3
<1>5. PICK e \in P : Rank(P, e) = Cardinality(P) - 1
  BY <1>2, <1>4 DEF Bijection, Surjection
<1> DEFINE E == {d \in P : Before(e, d)}
<1>6. E \in SUBSET (P \ {e})
  BY <1>1, PageOrder
<1>7. IsFiniteSet(P \ {e}) /\ Cardinality(P \ {e}) = Cardinality(P) - 1
  BY <1>1, FS_RemoveElement
<1>8. E = P \ {e}
  BY <1>5, <1>6, <1>7, FS_Subset DEF Rank
<1>9. \A d \in S : d.persisted => d = e \/ Before(e, d)
  BY <1>8
<1> QED
  BY <1>9 DEF FirstPersisted

-----------------------------------------------------------------------------
(* What a walk has shown.                                                  *)

RowsOf(X) == {Row(m) : m \in X}

\* The part of the type invariant that is about the store.
StoreTypeOK ==
    /\ created \in [Messages -> 0..MaxTime]
    /\ id \in [Messages -> 0..MaxId]
    /\ \A m, x \in Stored : id[m] = id[x] => m = x
    /\ Elements(batch) \subseteq Elements(pending) \intersect Stored
    /\ Elements(pending) \union Stored \subseteq {m \in Messages : created[m] # 0}

PageFits == Cardinality(reader.page) <= reader.limit

\* Of the rows that were stored when the first page was read.
AllShown == \A m \in walk.stored : Row(m) \in walk.seen \union reader.page
ShownOrBelow ==
    \A m \in walk.stored : Row(m) \in walk.seen \union reader.page \/ BelowCursor(m)

\* The first page is cut from the newest rows there were when the walk began;
\* while there is a page to go, every row of then was shown or is below the
\* cursor; when there is none, every one was shown, or it is the first page and
\* pending messages have crowded rows out.
WalkInv ==
    /\ reader.limit \in Nat \ {0}
    /\ walk.stored \subseteq Stored
    /\ reader.at \in {"listing", "loading"} =>
          reader.rows = Newest(RowsOf(walk.stored), reader.limit + 1)
    /\ reader.at \in {"idle", "listing", "loading"} => walk.pages = 0
    /\ reader.at = "querying" /\ reader.cursor = NoCursor => walk.pages = 0
    /\ reader.at = "querying" /\ reader.cursor # NoCursor => walk.pages # 0 /\ ShownOrBelow
    /\ reader.at = "shown" /\ reader.more => walk.pages # 0 /\ ShownOrBelow
    /\ reader.at = "shown" /\ ~ reader.more =>
          walk.pages # 0 /\ (walk.pages = 2 \/ ~ walk.crowded => AllShown)
    /\ reader.at = "ended" /\ (walk.pages = 2 \/ ~ walk.crowded) => AllShown

CompleteInv == HistoryInv /\ StoreTypeOK /\ PageFits /\ WalkInv

\* Rows of stored messages can be put in order.
LEMMA RowsSettled ==
  ASSUME NEW X \in SUBSET Stored
  PROVE  Settled(RowsOf(X)) /\ \A e \in RowsOf(X) : e.persisted
<1>1. \A m \in X : Row(m) \in Entries /\ Row(m).persisted /\ Row(m).msg = m
  BY DEF Row, Entries, Stored
<1>2. \A e \in RowsOf(X) : \E m \in X : e = Row(m)
  BY DEF RowsOf
<1> QED
  BY <1>1, <1>2 DEF Settled

\* What a page cut from the newest rows of X leaves out: rows before its first
\* row, or nothing when the answer says that there are no more.
LEMMA PageCovers ==
  ASSUME StoreInv, reader.limit \in Nat \ {0}, NEW X \in SUBSET Stored,
         NEW waiting \in SUBSET Entries, \A e \in waiting : ~ e.persisted,
         NEW rows, rows = Newest(RowsOf(X), reader.limit + 1),
         NEW page, page = Page(rows, waiting)
  PROVE  /\ Cardinality(page) <= reader.limit
         /\ \A e \in page : FirstPersisted(e, page) =>
               \A m \in X : Row(m) \in page \/ Before(Row(m), e)
         /\ waiting = {} /\ ~ (Cardinality(rows) > reader.limit
                               /\ \E e \in page : FirstPersisted(e, page)) =>
               RowsOf(X) \subseteq page
<1> DEFINE l == reader.limit
           S == RowsOf(X)
           cut == Newest(rows, l)
           all == cut \union waiting
<1>1. Settled(S) /\ \A e \in S : e.persisted
  BY RowsSettled
<1>2. rows \subseteq S /\ cut \subseteq rows /\ page \subseteq all
  BY NewestIn DEF Page
<1>3. Settled(rows) /\ Settled(cut) /\ Settled(all) /\ Settled(page)
  BY <1>1, <1>2 DEF Settled
<1>4. l \in Nat /\ l + 1 \in Nat /\ l # 0 /\ page = Newest(all, l)
  BY DEF Page
<1>5. Cardinality(page) <= l
  BY <1>3, <1>4, NewestBound
<1>6. ASSUME NEW e \in page, FirstPersisted(e, page), NEW m \in X
      PROVE  Row(m) \in page \/ Before(Row(m), e)
  <2>1. e \in cut /\ e \in rows /\ e \in S /\ Row(m) \in S
    BY <1>2, <1>6 DEF FirstPersisted, RowsOf
  <2>2. Row(m) = e \/ Before(Row(m), e) \/ Before(e, Row(m))
    BY <1>1, <2>1, PageOrder
  <2>3. ASSUME Before(e, Row(m))
        PROVE  Row(m) \in page
    <3>1. Row(m) \in rows
      BY <1>1, <1>4, <2>1, <2>3, NewestUpward
    <3>2. Row(m) \in cut
      BY <1>3, <1>4, <2>1, <2>3, <3>1, NewestUpward
    <3> QED
      BY <1>3, <1>4, <2>3, <3>2, NewestUpward
  <2> QED
    BY <1>6, <2>2, <2>3
<1>7. ASSUME waiting = {}, ~ (Cardinality(rows) > l /\ \E e \in page : FirstPersisted(e, page))
      PROVE  S \subseteq page
  <2>1. IsFiniteSet(rows) /\ Cardinality(rows) \in Nat /\ Cardinality(cut) \in Nat
    BY <1>3, EntriesFinite DEF Settled
  <2>2. all = cut
    BY <1>7
  <2>3. Cardinality(cut) <= l
    BY <1>3, <1>4, NewestBound
  <2>4. page = cut
    BY <1>3, <1>4, <2>2, <2>3, NewestOfFew
  <2>5. CASE Cardinality(rows) <= l
    <3>1. cut = rows
      BY <1>3, <1>4, <2>5, NewestOfFew
    <3>2. rows = S
      BY <1>1, <1>4, <2>1, <2>5, NewestFull
    <3> QED
      BY <2>4, <3>1, <3>2
  <2>6. CASE ~ (\E e \in page : FirstPersisted(e, page))
    <3>1. \A x \in page : x.persisted
      BY <1>1, <1>2, <2>4
    <3>2. page = {}
      BY <1>3, <2>6, <3>1, FirstExists
    <3>3. Cardinality(cut) # l
      BY <1>4, <2>4, <3>2, FS_EmptySet
    <3>4. cut = rows
      BY <1>3, <1>4, <3>3, NewestFull
    <3>5. Cardinality(rows) # l + 1
      <4>1. rows = {}
        BY <2>4, <3>2, <3>4
      <4>2. Cardinality(rows) = 0
        BY <4>1, FS_EmptySet
      <4> QED
        BY <1>4, <4>2
    <3>6. rows = S
      BY <1>1, <1>4, <3>5, NewestFull
    <3> QED
      BY <2>4, <3>4, <3>6
  <2> QED
    BY <1>4, <1>7, <2>1, <2>5, <2>6
<1> QED
  BY <1>5, <1>6, <1>7

\* What the store does keeps its types, and the ids of rows apart.
LEMMA StoreTypesKept ==
  ASSUME StoreInv, StoreTypeOK,
         \/ \E m \in Messages : Send(m) \/ Announce(m)
         \/ SaveInserts \/ SaveDeletes \/ SaveFails
  PROVE  StoreTypeOK'
<1> USE DEF StoreTypeOK
<1>1. ASSUME NEW m \in Messages, Send(m)
      PROVE  StoreTypeOK'
  <2>1. PICK t \in Times : created' = [created EXCEPT ![m] = t]
    BY <1>1 DEF Send
  <2>2. created' \in [Messages -> 0..MaxTime] /\ created'[m] # 0
    BY <2>1, HistoryAssumption DEF Times
  <2>3. /\ UNCHANGED <<id, batch>> /\ pending' = Append(pending, m)
        /\ Stored' = Stored /\ Elements(batch') = Elements(batch)
    BY <1>1 DEF Send, Stored, Elements
  <2>4. Elements(pending') = Elements(pending) \union {m}
    <3>1. /\ Len(pending) \in Nat /\ Len(pending') = Len(pending) + 1
          /\ pending'[Len(pending) + 1] = m
          /\ \A i \in 1..Len(pending) : pending'[i] = pending[i]
      BY <2>3 DEF StoreInv
    <3>2. 1..Len(pending') = 1..Len(pending) \union {Len(pending) + 1}
      BY <3>1
    <3> QED
      BY <3>1, <3>2 DEF Elements
  <2> QED
    BY <2>1, <2>2, <2>3, <2>4
<1>2. ASSUME NEW m \in Messages, Announce(m)
      PROVE  StoreTypeOK'
  <2>1. PICK t \in Times : created' = [created EXCEPT ![m] = t]
    BY <1>2 DEF Announce
  <2>2. created' \in [Messages -> 0..MaxTime] /\ created'[m] # 0
    BY <2>1, HistoryAssumption DEF Times
  <2>3. PICK n \in (1..MaxId) \ {id[x] : x \in Messages} : id' = [id EXCEPT ![m] = n]
    BY <1>2 DEF Announce
  <2>4. n \in 0..MaxId /\ n # 0 /\ \A x \in Messages : id[x] # n
    BY <2>3, MaxIdNat
  <2>5. /\ id' \in [Messages -> 0..MaxId] /\ Stored' = Stored \union {m}
        /\ \A x \in Messages : id'[x] = IF x = m THEN n ELSE id[x]
    BY <2>3, <2>4 DEF Stored
  <2>6. \A x, y \in Stored' : id'[x] = id'[y] => x = y
    BY <2>4, <2>5 DEF Stored
  <2>7. Elements(batch') = Elements(batch) /\ Elements(pending') = Elements(pending)
    BY <1>2 DEF Announce, Elements
  <2> QED
    BY <2>1, <2>2, <2>5, <2>6, <2>7
<1>3. CASE SaveInserts
  <2> DEFINE new == Elements(batch') \ Stored
             free == (1..MaxId) \ {id[x] : x \in Messages}
  <2>1. PICK number \in [new -> free] :
           /\ \A i, j \in DOMAIN batch' :
                 i < j /\ {batch'[i], batch'[j]} \subseteq new =>
                     number[batch'[i]] < number[batch'[j]]
           /\ id' = [m \in Messages |-> IF m \in new THEN number[m] ELSE id[m]]
    BY <1>3 DEF SaveInserts
  <2>2. batch' \in Seq(Messages) /\ Elements(batch') \subseteq Elements(pending)
    <3>1. PICK n \in 1..Len(pending) : batch' = SubSeq(pending, 1, n)
      BY <1>3 DEF SaveInserts
    <3> QED
      BY <3>1, PieceOfSequence DEF StoreInv
  <2>3. /\ created' = created /\ pending' = pending
        /\ Elements(pending') = Elements(pending) /\ Elements(pending) \subseteq Messages
    BY <1>3 DEF SaveInserts, Elements, StoreInv
  <2>4. \A x \in new : /\ number[x] \in 1..MaxId /\ number[x] # 0
                       /\ \A y \in Messages : id[y] # number[x]
    BY <2>1, MaxIdNat
  <2>5. \A x \in Messages : id'[x] = IF x \in new THEN number[x] ELSE id[x]
    BY <2>1
  <2>6. id' \in [Messages -> 0..MaxId]
    BY <2>1, <2>4, <2>5, MaxIdNat
  <2>7. Stored' = Stored \union Elements(batch')
    BY <2>2, <2>3, <2>4, <2>5 DEF Stored
  <2>8. ASSUME NEW x \in new, NEW y \in new, number[x] = number[y]
        PROVE  x = y
    <3>1. PICK i \in 1..Len(batch') : x = batch'[i]
      BY DEF Elements
    <3>2. PICK j \in 1..Len(batch') : y = batch'[j]
      BY DEF Elements
    <3>3. i \in DOMAIN batch' /\ j \in DOMAIN batch' /\ i \in Int /\ j \in Int
      BY <2>2
    <3>4. ~ (i < j) /\ ~ (j < i)
      <4>1. number[x] \in Int
        BY <2>4
      <4> QED
        BY <2>1, <2>8, <3>1, <3>2, <3>3, <4>1
    <3> QED
      BY <3>1, <3>2, <3>3, <3>4
  <2>9. ASSUME NEW x \in Stored', NEW y \in Stored', id'[x] = id'[y]
        PROVE  x = y
    <3>1. x \in Messages /\ y \in Messages
      BY DEF Stored
    <3>2. x \in new \/ x \in Stored
      BY <2>7
    <3>3. y \in new \/ y \in Stored
      BY <2>7
    <3> QED
      BY <2>4, <2>5, <2>8, <2>9, <3>1, <3>2, <3>3
  <2> QED
    BY <2>2, <2>3, <2>6, <2>7, <2>9
<1>4. CASE SaveDeletes
  <2>1. /\ UNCHANGED <<created, id>> /\ Stored' = Stored /\ batch' = <<>>
        /\ pending' = SubSeq(pending, Len(batch) + 1, Len(pending))
    BY <1>4 DEF SaveDeletes, Stored
  <2>2. Elements(pending') \subseteq Elements(pending)
    <3>1. Len(batch) + 1 \in Nat \ {0} /\ Len(pending) \in 0..Len(pending)
      BY DEF StoreInv
    <3> QED
      BY <2>1, <3>1, PieceOfSequence DEF StoreInv
  <2>3. Elements(batch') = {}
    BY <2>1 DEF Elements
  <2> QED
    BY <2>1, <2>2, <2>3
<1>5. CASE SaveFails
  <2>1. /\ UNCHANGED <<created, id, pending>> /\ Stored' = Stored
        /\ Elements(pending') = Elements(pending) /\ Elements(batch') = {}
    BY <1>5 DEF SaveFails, Stored, Elements
  <2> QED
    BY <2>1
<1> QED
  BY <1>1, <1>2, <1>3, <1>4, <1>5

\* A row keeps its place among the rows, and its side of the cursor: what the
\* store does disturbs no walk.
LEMMA StoreKeepsWalk ==
  ASSUME HistoryInv, PageFits, WalkInv, RowsKept, UNCHANGED <<reader, walk>>
  PROVE  PageFits' /\ WalkInv'
<1> DEFINE R == RowsOf(walk.stored)
           k == reader.limit + 1
<1>1. Stored \subseteq Stored' /\ walk.stored \subseteq Stored
  BY DEF Stored, RowsKept, WalkInv
<1>2. ASSUME NEW d \in R, NEW e \in R
      PROVE  Before(e, d)' <=> Before(e, d)
  <2>1. d.msg \in Stored /\ e.msg \in Stored
    BY <1>1, RowsSettled DEF Settled
  <2> QED
    BY <2>1 DEF Before, Number, RowsKept
<1>3. ASSUME NEW e \in R
      PROVE  {d \in R : Before(e, d)'} = {d \in R : Before(e, d)}
  BY <1>2
<1>4. Newest(R, k)' = Newest(R, k)
  <2>1. R' = R /\ k' = k
    BY DEF RowsOf, Row
  <2>2. Newest(R, k)' = {e \in R : Cardinality({d \in R : Before(e, d)'}) < k}
    BY <2>1 DEF Newest
  <2>3. Newest(R, k) = {e \in R : Cardinality({d \in R : Before(e, d)}) < k}
    BY DEF Newest
  <2> HIDE DEF R, k
  <2> QED
    BY <1>3, <2>2, <2>3
<1>5. AllShown => AllShown'
  BY DEF AllShown, Row
<1>6. ASSUME NEW m \in walk.stored
      PROVE  BelowCursor(m)' <=> BelowCursor(m)
  BY <1>1 DEF BelowCursor, RowsKept
<1>7. ShownOrBelow => ShownOrBelow'
  BY <1>6 DEF ShownOrBelow, Row
<1>8. PageFits'
  BY DEF PageFits
<1> QED
  BY <1>1, <1>4, <1>5, <1>7, <1>8 DEF WalkInv

\* An answer cut from the newest rows of X keeps the invariant, when X holds
\* all that the walk has still to show.
LEMMA AnswerKeepsWalk ==
  ASSUME CompleteInv, UNCHANGED store,
         NEW X \in SUBSET Stored,
         \A m \in walk.stored : Row(m) \in walk.seen \/ m \in X,
         NEW waiting \in SUBSET Entries, \A e \in waiting : ~ e.persisted,
         waiting # {} => walk.pages = 0,
         NEW rows, rows = Newest(RowsOf(X), reader.limit + 1),
         Answer(rows, waiting)
  PROVE  PageFits' /\ WalkInv'
<1> DEFINE page == Page(rows, waiting)
           any == \E e \in page : FirstPersisted(e, page)
           more == Cardinality(rows) > reader.limit /\ any
           first == CHOOSE e \in page : FirstPersisted(e, page)
           cursor == IF more THEN [time |-> created[first.msg], id |-> id[first.msg]]
                             ELSE reader.cursor
           pages == IF walk.pages = 0 THEN 1 ELSE 2
           crowded == IF walk.pages = 0 THEN waiting # {} ELSE walk.crowded
<1>1. reader' = [at |-> "shown", limit |-> reader.limit, rows |-> {}, listed |-> {},
                 page |-> page, more |-> more, cursor |-> cursor]
  BY DEF Answer
<1>2. walk' = [walk EXCEPT !.pages = pages, !.crowded = crowded]
  BY DEF Answer
<1>3. /\ reader.limit \in Nat \ {0} /\ walk.stored \subseteq Stored
      /\ StoreInv /\ StoreTypeOK
      /\ walk \in [stored : SUBSET Messages, crowded : BOOLEAN, pages : 0..2,
                   seen : SUBSET Entries]
  BY DEF CompleteInv, WalkInv, HistoryInv, ReaderInv
<1>4. UNCHANGED <<created, id>> /\ Stored' = Stored
  BY DEF store, Stored
<1>5. /\ Cardinality(page) <= reader.limit
      /\ \A e \in page : FirstPersisted(e, page) =>
            \A m \in X : Row(m) \in page \/ Before(Row(m), e)
      /\ waiting = {} /\ ~ more => RowsOf(X) \subseteq page
  BY <1>3, PageCovers
<1>6. any => first \in page /\ FirstPersisted(first, page)
  <2> HIDE DEF page
  <2> QED
    OBVIOUS
<1>7. any => first.msg \in Stored
  <2>1. \A e \in page : e.persisted => e \in RowsOf(X)
    <3>1. Page(rows, waiting) \subseteq rows \union waiting
      BY PageIn
    <3>2. rows \subseteq RowsOf(X)
      BY NewestIn
    <3> QED
      BY <3>1, <3>2
  <2>2. \A e \in RowsOf(X) : e.msg \in Stored
    BY RowsSettled DEF Settled
  <2> HIDE DEF page, first
  <2> QED
    BY <1>6, <2>1, <2>2 DEF FirstPersisted
<1>8. walk'.stored = walk.stored /\ walk'.seen = walk.seen /\ walk'.pages = pages
      /\ walk'.crowded = crowded
  <2> HIDE DEF pages, crowded
  <2> QED
    BY <1>2, <1>3
<1>9. pages # 0 /\ (pages = 2 \/ ~ crowded => waiting = {})
  BY <1>3
<1> HIDE DEF page, any, first, pages, crowded
<1>10. /\ reader'.at = "shown" /\ reader'.limit = reader.limit /\ reader'.page = page
       /\ reader'.more = more
       /\ more => reader'.cursor = [time |-> created[first.msg], id |-> id[first.msg]]
  BY <1>1
<1>11. ASSUME more, NEW m \in walk.stored
       PROVE  Row(m) \in walk.seen \union page \/ BelowCursor(m)'
  <2>1. CASE Row(m) \in walk.seen
    BY <2>1
  <2>2. CASE m \in X
    <3>1. Row(m) \in page \/ Before(Row(m), first)
      BY <1>5, <1>6, <1>11, <2>2
    <3>2. ASSUME Row(m) \notin page, Before(Row(m), first)
          PROVE  BelowCursor(m)'
      <4>1. /\ first.persisted /\ first.msg \in Stored /\ first \in page /\ first \in Entries
        <5>1. page \subseteq Entries
          <6>1. page \subseteq rows \union waiting
            BY PageIn DEF page
          <6>2. rows \subseteq Entries
            BY NewestIn, RowsSettled DEF Settled
          <6> QED
            BY <6>1, <6>2
        <5> QED
          BY <1>6, <1>7, <1>11, <5>1 DEF FirstPersisted
      <4>2. first = Row(first.msg)
        BY <4>1 DEF Row, Entries
      <4>3. first.msg # m /\ m \in Stored
        BY <1>3, <3>2, <4>1, <4>2
      <4>4. id[m] # id[first.msg]
        BY <1>3, <4>1, <4>3 DEF StoreTypeOK
      <4>5. \/ created[m] < created[first.msg]
            \/ created[m] = created[first.msg] /\ id[m] < id[first.msg]
        BY <3>2, <4>1, <4>4 DEF Before, Number, Row
      <4> QED
        BY <1>4, <1>10, <1>11, <4>5 DEF BelowCursor
    <3> QED
      BY <3>1, <3>2
  <2> QED
    BY <1>11, <2>1, <2>2
<1>12. more => ShownOrBelow'
  BY <1>8, <1>10, <1>11 DEF ShownOrBelow, Row
<1>13. ASSUME ~ more, pages = 2 \/ ~ crowded
       PROVE  AllShown'
  <2>1. RowsOf(X) \subseteq page
    BY <1>5, <1>9, <1>13
  <2>2. \A m \in walk.stored : Row(m) \in walk.seen \union page
    BY <2>1 DEF RowsOf
  <2> QED
    BY <1>8, <1>10, <2>2 DEF AllShown, Row
<1>14. PageFits'
  BY <1>5, <1>10 DEF PageFits
<1> QED
  BY <1>3, <1>4, <1>8, <1>9, <1>10, <1>12, <1>13, <1>14 DEF WalkInv

\* Initially nothing is stored and nobody reads.
LEMMA InitWalk == Init => CompleteInv
<1> SUFFICES ASSUME Init
             PROVE  CompleteInv
  OBVIOUS
<1>1. Stored = {} /\ Elements(pending) = {} /\ Elements(batch) = {}
  BY DEF Init, Stored, Elements
<1>2. StoreTypeOK
  BY <1>1, MaxIdNat, HistoryAssumption DEF Init, StoreTypeOK
<1>3. PageFits
  BY FS_EmptySet DEF Init, PageFits
<1>4. WalkInv
  BY DEF Init, WalkInv, AllShown
<1> QED
  BY <1>2, <1>3, <1>4, InitHistory DEF CompleteInv

\* Every step of the store and of the reader keeps the invariant.
LEMMA StepWalk == CompleteInv /\ [Next]_vars => CompleteInv'
<1> SUFFICES ASSUME CompleteInv, [Next]_vars
             PROVE  CompleteInv'
  OBVIOUS
<1>1. HistoryInv /\ StoreTypeOK /\ PageFits /\ WalkInv /\ StoreInv /\ ReaderInv /\ CursorInv
  BY DEF CompleteInv, HistoryInv
<1>2. HistoryInv'
  BY <1>1, StepHistory
<1>3. SUFFICES StoreTypeOK' /\ PageFits' /\ WalkInv'
  BY <1>2 DEF CompleteInv
<1>4. ASSUME NEW m \in Messages, Send(m) \/ Announce(m)
      PROVE  StoreTypeOK' /\ PageFits' /\ WalkInv'
  <2>1. RowsKept /\ UNCHANGED <<reader, walk>>
    BY <1>1, <1>4, SentKeepsStore DEF Send, Announce
  <2> QED
    BY <1>1, <1>4, <2>1, StoreTypesKept, StoreKeepsWalk
<1>5. CASE SaveInserts \/ SaveDeletes \/ SaveFails
  <2>1. RowsKept /\ UNCHANGED <<reader, walk>>
    BY <1>1, <1>5, SaveKeepsStore DEF SaveInserts, SaveDeletes, SaveFails
  <2> QED
    BY <1>1, <1>5, <2>1, StoreTypesKept, StoreKeepsWalk
<1>6. ASSUME UNCHANGED store
      PROVE  StoreTypeOK' /\ RowsKept /\ Stored' = Stored /\ UNCHANGED <<created, id>>
  BY <1>1, <1>6 DEF store, StoreTypeOK, StoreInv, RowsKept, Stored, Elements
<1> DEFINE Rec == [at : Stages, limit : Nat, cursor : [time : Nat, id : Nat],
                   rows : SUBSET Entries, listed : SUBSET Messages,
                   page : SUBSET Entries, more : BOOLEAN]
           Hist == [stored : SUBSET Messages, crowded : BOOLEAN, pages : 0..2,
                    seen : SUBSET Entries]
<1>7. reader \in Rec /\ walk \in Hist
  BY <1>1 DEF ReaderInv
<1>8. CASE Begin
  <2>1. UNCHANGED <<store, walk>> /\ reader.at = "idle" /\ reader.page = {}
        /\ reader.cursor = NoCursor /\ walk.pages = 0
    BY <1>1, <1>8 DEF Begin, ReaderInv, WalkInv
  <2>2. PICK n \in 1..Limit : reader' = [reader EXCEPT !.at = "querying", !.limit = n]
    BY <1>8 DEF Begin
  <2>3. /\ reader'.at = "querying" /\ reader'.limit = n /\ reader'.page = {}
        /\ reader'.cursor = NoCursor
    BY <1>7, <2>1, <2>2
  <2>4. n \in Nat \ {0}
    BY HistoryAssumption
  <2>5. Cardinality({}) = 0
    BY FS_EmptySet
  <2> QED
    BY <1>1, <1>6, <2>1, <2>3, <2>4, <2>5 DEF PageFits, WalkInv
<1>9. CASE QueryFirst
  <2>1. UNCHANGED store /\ reader.at = "querying" /\ reader.cursor = NoCursor
        /\ walk.pages = 0
    BY <1>1, <1>9 DEF QueryFirst, WalkInv
  <2>2. /\ reader' = [reader EXCEPT !.at = "listing", !.rows = RecentByChat(reader.limit + 1)]
        /\ walk' = [walk EXCEPT !.stored = Stored]
    BY <1>9 DEF QueryFirst
  <2>3. /\ reader'.at = "listing" /\ reader'.limit = reader.limit
        /\ reader'.page = reader.page /\ reader'.cursor = NoCursor
        /\ reader'.rows = RecentByChat(reader.limit + 1)
        /\ walk'.stored = Stored /\ walk'.pages = 0
    BY <1>7, <2>1, <2>2
  <2>4. RecentByChat(reader.limit + 1) = Newest(RowsOf(Stored), reader.limit + 1)
    <3>1. {x \in Stored : BelowCursor(x)} = Stored
      BY <2>1 DEF BelowCursor
    <3> QED
      BY <3>1 DEF RecentByChat, RowsOf
  <2>5. Newest(RowsOf(Stored), reader.limit + 1)' = Newest(RowsOf(Stored), reader'.limit + 1)
    BY <1>6, <2>1 DEF Newest, Before, Number, RowsOf, Row
  <2>6. reader'.rows = Newest(RowsOf(walk.stored), reader.limit + 1)'
    <3>1. RowsOf(walk.stored)' = RowsOf(Stored)
      BY <2>3 DEF RowsOf, Row
    <3>2. UNCHANGED <<created, id>>
      BY <1>6, <2>1
    <3> QED
      BY <2>3, <2>4, <3>1, <3>2 DEF Newest, Before, Number
  <2> QED
    BY <1>1, <1>6, <2>1, <2>3, <2>6 DEF PageFits, WalkInv
<1>10. CASE ListPending
  <2>1. /\ UNCHANGED <<store, walk>> /\ reader.at = "listing"
        /\ reader' = [reader EXCEPT !.at = "loading", !.listed = Elements(pending)]
    BY <1>10 DEF ListPending
  <2>2. /\ reader'.at = "loading" /\ reader'.limit = reader.limit /\ reader'.rows = reader.rows
        /\ reader'.page = reader.page /\ reader'.cursor = reader.cursor
    BY <1>7, <2>1
  <2>3. Newest(RowsOf(walk.stored), reader.limit + 1)'
          = Newest(RowsOf(walk.stored), reader.limit + 1)
    <3>1. RowsOf(walk.stored)' = RowsOf(walk.stored) /\ UNCHANGED <<created, id>>
      BY <1>6, <2>1 DEF RowsOf, Row
    <3> QED
      BY <2>2, <3>1 DEF Newest, Before, Number
  <2> QED
    BY <1>1, <1>6, <2>1, <2>2, <2>3 DEF PageFits, WalkInv
<1>11. CASE LoadPending
  <2> DEFINE waiting == {Waiting(m) : m \in reader.listed \intersect Elements(pending)}
  <2>1. UNCHANGED store /\ reader.at = "loading" /\ Answer(reader.rows, waiting)
    BY <1>11 DEF LoadPending
  <2>2. /\ walk.pages = 0 /\ walk.stored \subseteq Stored
        /\ reader.rows = Newest(RowsOf(walk.stored), reader.limit + 1)
    BY <1>1, <2>1 DEF WalkInv
  <2>3. waiting \in SUBSET Entries /\ \A e \in waiting : ~ e.persisted
    <3>1. reader.listed \subseteq Messages
      BY <1>7
    <3>2. \A m \in Messages : Waiting(m) \in Entries /\ ~ Waiting(m).persisted
      BY DEF Waiting, Entries
    <3> QED
      BY <3>1, <3>2
  <2> HIDE DEF waiting
  <2> QED
    BY <1>6, <2>1, <2>2, <2>3, AnswerKeepsWalk
<1>12. CASE QueryNext
  <2> DEFINE X == {x \in Stored : BelowCursor(x)}
  <2>1. /\ UNCHANGED store /\ reader.at = "querying" /\ reader.cursor # NoCursor
        /\ Answer(RecentByChat(reader.limit + 1), {})
    BY <1>12 DEF QueryNext
  <2>2. RecentByChat(reader.limit + 1) = Newest(RowsOf(X), reader.limit + 1)
    BY DEF RecentByChat, RowsOf
  <2>3. \A m \in walk.stored : Row(m) \in walk.seen \/ m \in X
    <3>1. reader.page = {}
      BY <1>1, <2>1 DEF ReaderInv
    <3> QED
      BY <1>1, <2>1, <3>1 DEF WalkInv, ShownOrBelow
  <2> HIDE DEF X
  <2>4. X \in SUBSET Stored
    BY DEF X
  <2>5. {} \in SUBSET Entries /\ (\A e \in {} : ~ e.persisted) /\ ({} # {} => walk.pages = 0)
    OBVIOUS
  <2> QED
    BY <1>6, <2>1, <2>2, <2>3, <2>4, <2>5, AnswerKeepsWalk
<1>13. CASE TakePage
  <2>1. /\ UNCHANGED store /\ reader.at = "shown"
        /\ walk' = [walk EXCEPT !.seen = @ \union reader.page]
    BY <1>13 DEF TakePage
  <2>2. /\ walk'.seen = walk.seen \union reader.page
        /\ walk'.stored = walk.stored /\ walk'.pages = walk.pages /\ walk'.crowded = walk.crowded
    BY <1>7, <2>1
  <2>3. PICK n \in Nat \ {0} :
           \/ /\ reader.more
              /\ reader'.at = "querying" /\ reader'.limit = n /\ reader'.page = {}
              /\ reader'.cursor = reader.cursor
           \/ /\ ~ reader.more
              /\ reader'.at = "ended" /\ reader'.limit = n /\ reader'.page = {}
    <3>1. CASE reader.more
      <4>1. PICK n \in 1..Limit :
               reader' = [reader EXCEPT !.at = "querying", !.limit = n, !.page = {}]
        BY <1>13, <3>1 DEF TakePage
      <4>2. n \in Nat \ {0}
        BY HistoryAssumption
      <4> QED
        BY <1>7, <3>1, <4>1, <4>2
    <3>2. CASE ~ reader.more
      <4>1. reader' = [reader EXCEPT !.at = "ended", !.limit = 1, !.page = {},
                                     !.cursor = NoCursor]
        BY <1>13, <3>2 DEF TakePage
      <4> QED
        BY <1>7, <3>2, <4>1
    <3> QED
      BY <3>1, <3>2
  <2>4. /\ UNCHANGED <<created, id>> /\ Stored' = Stored /\ reader'.page = {}
        /\ Cardinality({}) = 0 /\ reader'.limit \in Nat \ {0}
    BY <1>6, <2>1, <2>3, FS_EmptySet
  <2>5. AllShown => AllShown'
    BY <2>2 DEF AllShown, Row
  <2>6. reader.more => reader.cursor # NoCursor /\ walk.pages # 0 /\ ShownOrBelow
    BY <1>1, <2>1 DEF CursorInv, WalkInv
  <2>7. reader.more => ShownOrBelow'
    BY <2>2, <2>3, <2>4, <2>6 DEF ShownOrBelow, BelowCursor, Row
  <2>8. ~ reader.more => (walk.pages = 2 \/ ~ walk.crowded => AllShown)
    BY <1>1, <2>1 DEF WalkInv
  <2>9. walk.stored \subseteq Stored
    BY <1>1 DEF WalkInv
  <2>10. PageFits'
    BY <2>4 DEF PageFits
  <2>11. WalkInv'
    BY <2>2, <2>3, <2>4, <2>5, <2>6, <2>7, <2>8, <2>9 DEF WalkInv
  <2> QED
    BY <1>6, <2>1, <2>10, <2>11
<1>14. CASE UNCHANGED vars
  <2>1. UNCHANGED <<store, reader, walk>>
    BY <1>14 DEF vars, store
  <2> QED
    BY <1>1, <1>6, <2>1, StoreKeepsWalk
<1> QED
  BY <1>4, <1>5, <1>8, <1>9, <1>10, <1>11, <1>12, <1>13, <1>14 DEF Next, Reads, Quiet

\* Rows have ids of their own, a batch is pending and stored, and no page is
\* longer than the client asked for, whatever the two reads returned.
THEOREM HistoryTypeCorrect == Spec => []HistoryTypeOK
<1>1. Init => CompleteInv
  BY InitWalk
<1>2. CompleteInv /\ [Next]_vars => CompleteInv'
  BY StepWalk
<1>3. CompleteInv => HistoryTypeOK
  BY DEF CompleteInv, HistoryInv, ReaderInv, StoreTypeOK, PageFits, HistoryTypeOK
<1> QED
  BY <1>1, <1>2, <1>3, PTL DEF Spec

\* A client that follows the cursors to the end has been shown every row that
\* was stored when it began, for any page sizes and whatever was sent and
\* saved meanwhile, unless its only page was cut with pending messages on it.
THEOREM HistoryShowsRows == Spec => []WalkShowsRows
<1>1. Init => CompleteInv
  BY InitWalk
<1>2. CompleteInv /\ [Next]_vars => CompleteInv'
  BY StepWalk
<1>3. CompleteInv => WalkShowsRows
  BY DEF CompleteInv, HistoryInv, ReaderInv, WalkInv, WalkShowsRows, AllShown
<1> QED
  BY <1>1, <1>2, <1>3, PTL DEF Spec
=============================================================================
