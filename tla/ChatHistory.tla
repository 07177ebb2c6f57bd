----------------------------- MODULE ChatHistory -----------------------------
(***************************************************************************)
(* A client reads the history of a chat page by page                       *)
(* (application/usecases/message/get_chat_history.py) while messages are   *)
(* sent and saved.  The first page merges two reads, PostgreSQL and then   *)
(* the pending messages in Redis; a page asked for with a cursor is one    *)
(* read of PostgreSQL.  Between any two reads messages arrive, and a save  *)
(* moves pending ones into rows: an insert, later a delete.                *)
(*                                                                         *)
(* A row's id is drawn before its transaction commits, and a message's     *)
(* time stamp is taken before the await that makes it visible; both may    *)
(* take any time, so rows appear in any order of id and of time stamp.     *)
(* Only the rows of one batch get ids in their order.                      *)
(***************************************************************************)
EXTENDS Integers, Sequences, FiniteSets

CONSTANTS
    Messages,       \* numbers that order messages as their runtime ids do
    Limit,          \* the most messages the service puts on a page
    MaxTime         \* bound: time stamps are 1 .. MaxTime

ASSUME HistoryAssumption ==
    /\ Messages \subseteq Nat /\ IsFiniteSet(Messages)
    /\ Limit \in Nat \ {0}
    /\ MaxTime \in Nat \ {0}

VARIABLES
    created,        \* of each message, its time stamp; 0 before it is sent
    id,             \* of each message, the id of its row; 0 without a row
    pending,        \* Redis: the pending messages in the order of appending
    batch,          \* what a save has inserted and not yet deleted
    reader,         \* the request that is being answered
    walk            \* history: what the client has been shown since page one

store == <<created, id, pending, batch>>
vars == <<created, id, pending, batch, reader, walk>>

MaxId == Cardinality(Messages)
Times == 1..MaxTime
NoCursor == [time |-> 0, id |-> 0]

Stages == {"idle", "querying", "listing", "loading", "shown", "ended"}

Elements(s) == {s[i] : i \in 1..Len(s)}
Stored == {m \in Messages : id[m] # 0}

\* Entries of a page: a message from its row, or from Redis.
Row(m) == [msg |-> m, persisted |-> TRUE]
Waiting(m) == [msg |-> m, persisted |-> FALSE]

Number(e) == IF e.persisted THEN id[e.msg] ELSE 0

\* The order of a page: time stamp, id (0 for a pending one), runtime id.
Before(d, e) ==
    \/ created[d.msg] < created[e.msg]
    \/ /\ created[d.msg] = created[e.msg]
       /\ \/ Number(d) < Number(e)
          \/ Number(d) = Number(e) /\ d.msg < e.msg

\* The last n entries of a set in that order.
Newest(entries, n) ==
    {e \in entries : Cardinality({d \in entries : Before(e, d)}) < n}

Init ==
    /\ created = [m \in Messages |-> 0]
    /\ id = [m \in Messages |-> 0]
    /\ pending = <<>> /\ batch = <<>>
    /\ reader = [at |-> "idle", limit |-> 1, cursor |-> NoCursor, rows |-> {}, listed |-> {},
                 page |-> {}, more |-> FALSE]
    /\ walk = [stored |-> {}, crowded |-> FALSE, pages |-> 0, seen |-> {}]

-----------------------------------------------------------------------------
(* The store.                                                              *)

Send(m) ==
    /\ created[m] = 0
    /\ \E t \in Times : created' = [created EXCEPT ![m] = t]
    /\ pending' = Append(pending, m)
    /\ UNCHANGED <<id, batch, reader, walk>>

\* A system message, which is stored without a save.
Announce(m) ==
    /\ created[m] = 0
    /\ \E t \in Times : created' = [created EXCEPT ![m] = t]
    /\ \E n \in (1..MaxId) \ {id[x] : x \in Messages} : id' = [id EXCEPT ![m] = n]
    /\ UNCHANGED <<pending, batch, reader, walk>>

\* A save inserts what was pending when it looked, and skips rows that are
\* there from a save whose delete failed.
SaveInserts ==
    /\ batch = <<>>
    /\ \E n \in 1..Len(pending) : batch' = SubSeq(pending, 1, n)
    /\ LET new == Elements(batch') \ Stored
           free == (1..MaxId) \ {id[x] : x \in Messages}
       IN  \E number \in [new -> free] :
              /\ \A i, j \in DOMAIN batch' :
                    i < j /\ {batch'[i], batch'[j]} \subseteq new =>
                        number[batch'[i]] < number[batch'[j]]
              /\ id' = [m \in Messages |-> IF m \in new THEN number[m] ELSE id[m]]
    /\ UNCHANGED <<created, pending, reader, walk>>

\* Messages are appended behind the batch and only a save removes any, so
\* the batch is still what pending begins with.
SaveDeletes ==
    /\ batch # <<>>
    /\ pending' = SubSeq(pending, Len(batch) + 1, Len(pending))
    /\ batch' = <<>>
    /\ UNCHANGED <<created, id, reader, walk>>

SaveFails ==
    /\ batch # <<>>
    /\ batch' = <<>>
    /\ UNCHANGED <<created, id, pending, reader, walk>>

-----------------------------------------------------------------------------
(* The reader.                                                             *)

\* Mutant: the row of the cursor is read again.
BelowOrAtCursor(m) ==
    \/ reader.cursor = NoCursor
    \/ created[m] < reader.cursor.time
    \/ created[m] = reader.cursor.time /\ id[m] <= reader.cursor.id

\* Mutant: rows of the same time stamp as the cursor's are skipped.
EarlierThanCursor(m) ==
    \/ reader.cursor = NoCursor
    \/ created[m] < reader.cursor.time

\* recent_by_chat: the newest n rows, below the cursor if there is one.
BelowCursor(m) ==
    \/ reader.cursor = NoCursor
    \/ created[m] < reader.cursor.time
    \/ created[m] = reader.cursor.time /\ id[m] < reader.cursor.id

RecentByChat(n) == Newest({Row(m) : m \in {x \in Stored : BelowCursor(x)}}, n)

\* The request for a first page is made.  Each request has a limit of its own.
Begin ==
    /\ reader.at = "idle"
    /\ \E n \in 1..Limit : reader' = [reader EXCEPT !.at = "querying", !.limit = n]
    /\ UNCHANGED <<store, walk>>

\* Mutant: the merge is not cut.
PageUncut(rows, waiting) == Newest(rows, reader.limit) \union waiting

\* The merge of the two reads, cut to the last entries.
Page(rows, waiting) == Newest(Newest(rows, reader.limit) \union waiting, reader.limit)

\* Mutant: the last persisted entry.
LastPersisted(e, page) ==
    /\ e \in page /\ e.persisted
    /\ \A d \in page : d.persisted => d = e \/ Before(d, e)

FirstPersisted(e, page) ==
    /\ e \in page /\ e.persisted
    /\ \A d \in page : d.persisted => d = e \/ Before(e, d)

\* The answer, and where to go on: one row more than a page was asked for,
\* to learn whether there is one.
Answer(rows, waiting) ==
    LET page == Page(rows, waiting)
        more == Cardinality(rows) > reader.limit /\ \E e \in page : FirstPersisted(e, page)
        first == CHOOSE e \in page : FirstPersisted(e, page)
    IN  /\ reader' = [at |-> "shown", limit |-> reader.limit, rows |-> {}, listed |-> {},
                      page |-> page, more |-> more,
                      cursor |-> IF more
                                 THEN [time |-> created[first.msg], id |-> id[first.msg]]
                                 ELSE reader.cursor]
        /\ walk' = [walk EXCEPT !.pages = IF @ = 0 THEN 1 ELSE 2,
                                !.crowded = IF walk.pages = 0 THEN waiting # {} ELSE @]

QueryFirst ==
    /\ reader.at = "querying" /\ reader.cursor = NoCursor
    /\ reader' = [reader EXCEPT !.at = "listing", !.rows = RecentByChat(reader.limit + 1)]
    /\ walk' = [walk EXCEPT !.stored = Stored]
    /\ UNCHANGED store

QueryNext ==
    /\ reader.at = "querying" /\ reader.cursor # NoCursor
    /\ Answer(RecentByChat(reader.limit + 1), {})
    /\ UNCHANGED store

\* list_pending_messages: the order of the messages, then their contents.
ListPending ==
    /\ reader.at = "listing"
    /\ reader' = [reader EXCEPT !.at = "loading", !.listed = Elements(pending)]
    /\ UNCHANGED <<store, walk>>

LoadPending ==
    /\ reader.at = "loading"
    /\ Answer(reader.rows, {Waiting(m) : m \in reader.listed \intersect Elements(pending)})
    /\ UNCHANGED store

\* The client takes the page, and asks for the one before it if there is one.
TakePage ==
    /\ reader.at = "shown"
    /\ IF reader.more
       THEN \E n \in 1..Limit :
               reader' = [reader EXCEPT !.at = "querying", !.limit = n, !.page = {}]
       ELSE reader' = [reader EXCEPT !.at = "ended", !.limit = 1, !.page = {},
                                     !.cursor = NoCursor]
    /\ walk' = [walk EXCEPT !.seen = @ \union reader.page]
    /\ UNCHANGED store

Reads == Begin \/ QueryFirst \/ QueryNext \/ ListPending \/ LoadPending \/ TakePage

\* The client has all pages and nothing is left to send or to save.
Quiet ==
    /\ reader.at = "ended" /\ pending = <<>> /\ \A m \in Messages : created[m] # 0
    /\ UNCHANGED vars

Next ==
    \/ \E m \in Messages : Send(m) \/ Announce(m)
    \/ SaveInserts \/ SaveDeletes \/ SaveFails
    \/ Reads
    \/ Quiet

Spec == Init /\ [][Next]_vars

\* Requests are answered and the client goes on asking.
FairSpec == Spec /\ WF_vars(Reads)

-----------------------------------------------------------------------------
Entries == [msg : Messages, persisted : BOOLEAN]
PageRows == {e \in reader.page : e.persisted}

(* Ids are unique, a save's batch is pending, pages are full at most.      *)
HistoryTypeOK ==
    /\ created \in [Messages -> 0..MaxTime]
    /\ id \in [Messages -> 0..MaxId]
    /\ \A m, x \in Stored : id[m] = id[x] => m = x
    /\ Elements(batch) \subseteq Elements(pending) \intersect Stored
    /\ Elements(pending) \union Stored \subseteq {m \in Messages : created[m] # 0}
    /\ reader.at \in Stages
    /\ reader.page \subseteq Entries /\ Cardinality(reader.page) <= reader.limit

(* The rows of each page lie before all rows shown on earlier pages of the *)
(* walk, whatever is sent and saved meanwhile: none comes twice, and the   *)
(* client can put pages in front of each other.                            *)
PagesDescend == \A e \in PageRows : \A d \in walk.seen :
    d.persisted => Before(e, d)

(* Following the cursors to the end shows every row that was stored when   *)
(* the first page was read, unless the walk ended on a first page with     *)
(* pending messages: when they fill it, the code says has_more = False     *)
(* although it left rows out.                                              *)
WalkShowsRows ==
    reader.at = "ended" /\ (walk.pages = 2 \/ ~walk.crowded) =>
        \A m \in walk.stored : Row(m) \in walk.seen

(* A client that follows the cursors reaches the end: each leads further   *)
(* back, and messages saved meanwhile do not make the walk endless.        *)
WalkEnds == reader.at = "querying" ~> reader.at = "ended"

(* The merge of persisted and pending messages has each message once       *)
(* (tests/application/test_chat_session_usecases.py).                      *)
MergedOnce == \A d, e \in reader.page : d.msg = e.msg => d = e
=============================================================================
