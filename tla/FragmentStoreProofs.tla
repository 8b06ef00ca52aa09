------------------------- MODULE FragmentStoreProofs -------------------------
(***************************************************************************)
(* Theorems about FragmentStore, for every number of threads and every set *)
(* of bodies, requests and faults.                                         *)
(***************************************************************************)
EXTENDS FragmentStore, FiniteSetTheorems, TLAPS

-----------------------------------------------------------------------------
(***************************************************************************)
(* The statements of database.cpp.                                         *)
(***************************************************************************)
\* INSERT OR IGNORE keeps ids unique and leaves what is there alone.
LEMMA InsertKeepsIds ==
  ASSUME NEW rows, NEW f, UniqueIds(rows)
  PROVE  /\ UniqueIds(InsertOrIgnore(rows, f))
         /\ \/ InsertOrIgnore(rows, f) = rows
            \/ /\ f.id \notin IdsOf(rows)
               /\ InsertOrIgnore(rows, f) = rows \cup {f}
               /\ f \notin rows
  BY DEF UniqueIds, InsertOrIgnore, IdsOf

\* Where ids are unique, DELETE by id takes away one row or none.
LEMMA DeleteTakesOne ==
  ASSUME NEW rows, NEW id, UniqueIds(rows)
  PROVE  \/ DeleteById(rows, id) = rows
         \/ \E r \in rows : r.id = id /\ DeleteById(rows, id) = rows \ {r}
<1>1. CASE \E r \in rows : r.id = id
  <2>1. PICK r \in rows : r.id = id
    BY <1>1
  <2>2. DeleteById(rows, id) = rows \ {r}
    BY <2>1 DEF DeleteById, UniqueIds
  <2> QED
    BY <2>1, <2>2
<1>2. CASE ~ \E r \in rows : r.id = id
  BY <1>2 DEF DeleteById
<1> QED
  BY <1>1, <1>2

\* Taking rows away keeps ids unique.
LEMMA FewerRows ==
  ASSUME NEW rows, NEW fewer \in SUBSET rows, UniqueIds(rows)
  PROVE  UniqueIds(fewer)
  BY DEF UniqueIds

-----------------------------------------------------------------------------
(***************************************************************************)
(* The table.                                                              *)
(***************************************************************************)
\* The only steps that touch the table or the clock.
LEMMA TableFrame ==
  ASSUME [Next]_vars
  PROVE  \/ UNCHANGED <<table, now>>
         \/ \E t \in Threads : Insert(t) \/ Delete(t)
         \/ PurgeExpired
         \/ Tick
<1>1. ASSUME NEW t \in Threads, HandlerNext(t)
      PROVE  UNCHANGED <<table, now>> \/ Insert(t) \/ Delete(t)
  BY <1>1 DEF HandlerNext, ReceivePost, InsertFails, AnswerPost,
              ReceiveDelete, DeleteFails, AnswerDelete, ReceiveGet, ScanRow,
              ScanEnd, ScanFails, ReadMessage, ReadMessageFails, SelectFails,
              Health, Finish
<1>2. CASE CleanerNext
  BY <1>2 DEF CleanerNext, StartPurge, PurgeFails
<1>3. CASE Crash
  BY <1>3 DEF Crash
<1>4. CASE UNCHANGED vars
  BY <1>4 DEF vars
<1> QED
  BY <1>1, <1>2, <1>3, <1>4 DEF Next

\* The type invariant needs a finite table for the count of changed rows, and
\* the refinement unique ids.
StoreInv == TypeOK /\ IsFiniteSet(table) /\ UniqueIds(table)

\* A handler that has run its statement, and one that sees rows leave.
Ran(h, pc, did) == [h EXCEPT !.pc = pc, !.did = did]

\* A handler whose statement has run is well formed.
LEMMA RanType ==
  ASSUME NEW h \in Handler, NEW pc \in {"inserted", "deleted"},
         NEW did \in BOOLEAN
  PROVE  LET g == Ran(h, pc, did) IN
         g \in Handler /\ g.pc = pc /\ g.in = h.in /\ g.reply = h.reply
  BY DEF Handler, Ran

\* So is one that saw rows leave.
LEMMA WitnessType ==
  ASSUME NEW h \in Handler, NEW gone \in SUBSET Rows
  PROVE  LET g == Witness(h, gone) IN
         g \in Handler /\ g.pc = h.pc /\ g.in = h.in /\ g.reply = h.reply
  BY DEF Handler, Witness

\* A handler that replies, and one that reads a row.
LEMMA ReplyType ==
  ASSUME NEW h \in Handler
  PROVE  /\ \A reply \in Replies :
              LET g == [h EXCEPT !.pc = "done", !.reply = reply]
              IN  g \in Handler /\ g.pc = "done" /\ g.reply = reply
         /\ \A r \in Rows :
              LET g == [h EXCEPT !.got = @ \cup {r}]
              IN  /\ g \in Handler
                  /\ g.pc = h.pc /\ g.in = h.in /\ g.reply = h.reply
  BY DEF Handler

\* A handler that starts with a row, an id or a query.
LEMMA StartType ==
  /\ \A r \in Rows :
       LET h == [Idle EXCEPT !.pc = "insert", !.in = r]
       IN  h \in Handler /\ h.pc = "insert" /\ h.in = r /\ h.reply = "none"
  /\ \A id \in Ids :
       LET h == [Idle EXCEPT !.pc = "delete", !.in = id]
       IN  h \in Handler /\ h.pc = "delete" /\ h.reply = "none"
  /\ \A rows \in SUBSET Rows :
       LET h == [Idle EXCEPT !.pc = "done", !.reply = "rows",
                             !.got = rows]
       IN  h \in Handler /\ h.pc = "done" /\ h.reply = "rows"
  BY DEF Idle, Handler, Replies

\* So is one that has read a row or ended its scan.
LEMMA ScanType ==
  ASSUME NEW q \in Query, NEW begun \in SUBSET Rows
  PROVE  LET h == [Idle EXCEPT !.pc = "scan", !.in = q, !.begun = begun]
         IN  h \in Handler /\ h.pc = "scan" /\ h.in = q /\ h.reply = "none"
  BY DEF Idle, Handler, Replies

\* A request comes in.
LEMMA ReceiveStep ==
  ASSUME StoreInv, NEW t \in Threads,
         \/ ReceivePost(t) \/ ReceiveDelete(t) \/ ReceiveGet(t)
         \/ ReadMessage(t) \/ ReadMessageFails(t)
  PROVE  StoreInv'
<1>1. UNCHANGED <<now, table, changes, cleaner>>
  BY DEF ReceivePost, ReceiveDelete, ReceiveGet, ReadMessage, ReadMessageFails
<1>2. PICK h \in Handler :
        /\ handler' = [handler EXCEPT ![t] = h]
        /\ h.pc \in {"insert", "inserted"} => h.in \in Rows
        /\ h.pc = "scan" => h.in \in Query
        /\ (h.reply # "none") <=> (h.pc = "done")
  <2>1. CASE ReceivePost(t)
    <3>1. PICK b \in Bodies :
            handler' = [handler EXCEPT ![t] =
                          [Idle EXCEPT !.pc = "insert", !.in = Row(b, now)]]
      BY <2>1 DEF ReceivePost
    <3> DEFINE h == [Idle EXCEPT !.pc = "insert", !.in = Row(b, now)]
    <3>2. Row(b, now) \in Rows
      BY DEF Rows, StoreInv, TypeOK
    <3>3. /\ h \in Handler /\ h.pc = "insert" /\ h.in = Row(b, now)
          /\ h.reply = "none"
      BY <3>2, StartType
    <3>4. handler' = [handler EXCEPT ![t] = h]
      BY <3>1
    <3> HIDE DEF h
    <3> QED
      BY <3>2, <3>3, <3>4
  <2>2. CASE ReceiveDelete(t)
    <3>1. PICK id \in Ids :
            handler' = [handler EXCEPT ![t] =
                          [Idle EXCEPT !.pc = "delete", !.in = id]]
      BY <2>2 DEF ReceiveDelete
    <3> DEFINE h == [Idle EXCEPT !.pc = "delete", !.in = id]
    <3>2. h \in Handler /\ h.pc = "delete" /\ h.reply = "none"
      BY StartType
    <3>3. handler' = [handler EXCEPT ![t] = h]
      BY <3>1
    <3> HIDE DEF h
    <3> QED
      BY <3>2, <3>3
  <2>3. CASE ReceiveGet(t)
    <3>1. PICK q \in Query :
            handler' = [handler EXCEPT ![t] =
                          [Idle EXCEPT !.pc = "scan", !.in = q,
                                       !.begun = SelectSince(table, q.chat_id,
                                                             q.since)]]
      BY <2>3 DEF ReceiveGet
    <3> DEFINE begun == SelectSince(table, q.chat_id, q.since)
               h == [Idle EXCEPT !.pc = "scan", !.in = q, !.begun = begun]
    <3>2. begun \in SUBSET Rows
      BY DEF SelectSince, StoreInv, TypeOK
    <3>3. handler' = [handler EXCEPT ![t] = h]
      BY <3>1
    <3> HIDE DEF begun
    <3>4. h \in Handler /\ h.pc = "scan" /\ h.in = q /\ h.reply = "none"
      BY <3>2, ScanType
    <3> HIDE DEF h
    <3> QED
      BY <3>3, <3>4
  <2>4. CASE ReadMessage(t)
    <3>1. PICK m \in MessageIds :
            handler' = [handler EXCEPT ![t] =
                          [Idle EXCEPT !.pc = "done", !.reply = "rows",
                                       !.got = SelectMessage(table, m)]]
      BY <2>4 DEF ReadMessage
    <3> DEFINE rows == SelectMessage(table, m)
               h == [Idle EXCEPT !.pc = "done", !.reply = "rows",
                                 !.got = rows]
    <3>2. rows \in SUBSET Rows
      BY DEF SelectMessage, StoreInv, TypeOK
    <3>3. handler' = [handler EXCEPT ![t] = h]
      BY <3>1
    <3> HIDE DEF rows
    <3>4. h \in Handler /\ h.pc = "done" /\ h.reply = "rows"
      BY <3>2, StartType
    <3> HIDE DEF h
    <3> QED
      BY <3>3, <3>4
  <2>5. CASE ReadMessageFails(t)
    <3> DEFINE h == [Idle EXCEPT !.pc = "done", !.reply = "rows", !.got = {}]
    <3>1. handler' = [handler EXCEPT ![t] = h]
      BY <2>5 DEF ReadMessageFails
    <3>2. h \in Handler /\ h.pc = "done" /\ h.reply = "rows"
      BY StartType
    <3> HIDE DEF h
    <3> QED
      BY <3>1, <3>2
  <2> QED
    BY <2>1, <2>2, <2>3, <2>4, <2>5
<1> QED
  BY <1>1, <1>2 DEF StoreInv, TypeOK, UniqueIds

\* A handler replies, reads a row or ends.
LEMMA ReplyStep ==
  ASSUME StoreInv, NEW t \in Threads,
         \/ InsertFails(t) \/ AnswerPost(t) \/ DeleteFails(t)
         \/ AnswerDelete(t) \/ ScanRow(t) \/ ScanEnd(t) \/ ScanFails(t)
         \/ SelectFails(t) \/ Health(t) \/ Finish(t)
  PROVE  StoreInv'
<1>1. UNCHANGED <<now, table, cleaner>> /\ (changes' = changes \/ changes' = 0)
  BY DEF InsertFails, AnswerPost, DeleteFails, AnswerDelete, ScanRow, ScanEnd,
         ScanFails, SelectFails, Health, Finish, StatementFails
<1>2. handler \in [Threads -> Handler] /\ handler[t] \in Handler
  BY DEF StoreInv, TypeOK
<1>3. CASE \E reply \in Replies \ {"none"} : Answer(t, reply)
  <2>1. PICK reply \in Replies \ {"none"} :
          handler' = [handler EXCEPT ![t].pc = "done", ![t].reply = reply]
    BY <1>3 DEF Answer
  <2> DEFINE h == [handler[t] EXCEPT !.pc = "done", !.reply = reply]
  <2>2. h \in Handler /\ h.pc = "done" /\ h.reply = reply
    BY <1>2, ReplyType
  <2>3. handler' = [handler EXCEPT ![t] = h]
    BY <1>2, <2>1
  <2> HIDE DEF h
  <2> QED
    BY <1>1, <2>2, <2>3 DEF StoreInv, TypeOK, UniqueIds
<1>4. CASE ScanRow(t)
  <2>1. PICK r \in Rows : handler' = [handler EXCEPT ![t].got = @ \cup {r}]
    BY <1>4 DEF ScanRow, Ahead, Matching, SelectSince, StoreInv, TypeOK
  <2> DEFINE h == [handler[t] EXCEPT !.got = @ \cup {r}]
  <2>2. /\ h \in Handler
        /\ h.pc = handler[t].pc /\ h.in = handler[t].in
        /\ h.reply = handler[t].reply
    BY <1>2, ReplyType
  <2>3. handler' = [handler EXCEPT ![t] = h]
    BY <2>1
  <2> HIDE DEF h
  <2> QED
    BY <1>1, <2>2, <2>3 DEF StoreInv, TypeOK, UniqueIds
<1>5. CASE ScanEnd(t)
  <2> DEFINE h == [handler[t] EXCEPT !.pc = "done", !.reply = "rows",
                                     !.did = TRUE]
  <2>1. h \in Handler /\ h.pc = "done" /\ h.reply = "rows"
    BY <1>2 DEF Handler, Replies
  <2>2. handler' = [handler EXCEPT ![t] = h]
    BY <1>2, <1>5 DEF ScanEnd
  <2> HIDE DEF h
  <2> QED
    BY <1>1, <2>1, <2>2 DEF StoreInv, TypeOK, UniqueIds
<1>6. CASE Finish(t)
  <2>1. Idle \in Handler /\ handler' = [handler EXCEPT ![t] = Idle]
    BY <1>6 DEF Finish, Idle, Handler, Replies
  <2> QED
    BY <1>1, <2>1 DEF StoreInv, TypeOK, UniqueIds, Idle
<1> QED
  BY <1>3, <1>4, <1>5, <1>6
  DEF InsertFails, AnswerPost, DeleteFails, AnswerDelete, ScanFails,
      SelectFails, Health, Replies

\* Rows leave the table.
LEMMA GoneStep ==
  ASSUME StoreInv, NEW gone \in SUBSET table,
         table' = table \ gone, changes' = Cardinality(gone), now' = now,
         NEW h \in [Threads -> Handler], handler' = Witnessing(h, gone),
         \A t \in Threads :
           /\ h[t].pc \in {"insert", "inserted"} => h[t].in \in Rows
           /\ h[t].pc = "scan" => h[t].in \in Query
           /\ (h[t].reply # "none") <=> (h[t].pc = "done"),
         cleaner' \in [pc : {"asleep", "purge"}, cutoff : 0 .. now]
  PROVE  StoreInv'
<1>1. /\ table' \subseteq Rows
      /\ IsFiniteSet(table')
      /\ UniqueIds(table')
      /\ changes' \in Nat
  <2>1. IsFiniteSet(gone)
    BY FS_Subset DEF StoreInv
  <2>2. IsFiniteSet(table \ gone)
    BY FS_Subset DEF StoreInv
  <2> QED
    BY <2>1, <2>2, FS_CardinalityType, FewerRows DEF StoreInv, TypeOK
<1>2. ASSUME NEW t \in Threads
      PROVE  /\ handler'[t] \in Handler
             /\ handler'[t].pc = h[t].pc
             /\ handler'[t].in = h[t].in
             /\ handler'[t].reply = h[t].reply
  <2>1. /\ handler'[t] = Witness(h[t], gone) /\ h[t] \in Handler
        /\ gone \in SUBSET Rows
    BY DEF Witnessing, StoreInv, TypeOK
  <2> QED
    BY <2>1, WitnessType
<1>3. handler' \in [Threads -> Handler]
  BY <1>2 DEF Witnessing
<1>4. now' \in 1 .. MaxTime
  BY DEF StoreInv, TypeOK
<1> QED
  BY <1>1, <1>2, <1>3, <1>4 DEF StoreInv, TypeOK

\* Each action keeps types, finiteness and unique ids.
LEMMA StoreInvStep == StoreInv /\ [Next]_vars => StoreInv'
<1> SUFFICES ASSUME StoreInv, [Next]_vars PROVE StoreInv'
  OBVIOUS
<1>1. ASSUME NEW t \in Threads, Insert(t) PROVE StoreInv'
  <2> DEFINE f == handler[t].in
             new == f.id \notin IdsOf(table)
             h == Ran(handler[t], "inserted", new)
  <2>1. f \in Rows /\ handler[t] \in Handler /\ handler[t].pc = "insert"
    BY <1>1 DEF Insert, StoreInv, TypeOK
  <2>2. /\ h \in Handler
        /\ h.pc = "inserted" /\ h.in = f /\ h.reply = handler[t].reply
    <3>1. new \in BOOLEAN
      OBVIOUS
    <3> HIDE DEF new
    <3> QED
      BY <2>1, <3>1, RanType
  <2>3. handler' = [handler EXCEPT ![t] = h]
    BY <1>1 DEF Insert, Ran
  <2>4. /\ table' = InsertOrIgnore(table, f)
        /\ changes' \in Nat
        /\ UNCHANGED <<now, cleaner>>
    BY <1>1 DEF Insert
  <2> HIDE DEF h, f
  <2>5. table' \subseteq Rows /\ IsFiniteSet(table') /\ UniqueIds(table')
    BY <2>1, <2>4, InsertKeepsIds, FS_AddElement DEF StoreInv, TypeOK
  <2> QED
    BY <2>1, <2>2, <2>3, <2>4, <2>5 DEF StoreInv, TypeOK
<1>2. ASSUME NEW t \in Threads, Delete(t) PROVE StoreInv'
  <2> DEFINE gone == table \ DeleteById(table, handler[t].in)
             some == gone # {}
             g == Ran(handler[t], "deleted", some)
             h == [handler EXCEPT ![t] = g]
  <2>1. handler \in [Threads -> Handler] /\ handler[t].pc = "delete"
    BY <1>2 DEF Delete, StoreInv, TypeOK
  <2>2. g \in Handler /\ g.pc = "deleted" /\ g.reply = handler[t].reply
    <3>1. handler[t] \in Handler /\ some \in BOOLEAN
      BY <2>1
    <3> HIDE DEF some
    <3> QED
      BY <2>1, <3>1, RanType
  <2>3. handler' = Witnessing(h, gone)
    <3>1. handler' = [Witnessing(handler, gone)
                       EXCEPT ![t].pc = "deleted", ![t].did = gone # {}]
      BY <1>2 DEF Delete
    <3>2. [Witnessing(handler, gone)[t]
             EXCEPT !.pc = "deleted", !.did = gone # {}]
            = Witness(g, gone)
      BY <2>1 DEF Witnessing, Handler, Ran, Witness
    <3> QED
      BY <2>1, <3>1, <3>2 DEF Witnessing, Witness
  <2>4. /\ table' = table \ gone
        /\ changes' = Cardinality(gone)
        /\ UNCHANGED <<now, cleaner>>
    BY <1>2 DEF Delete
  <2>5. cleaner' \in [pc : {"asleep", "purge"}, cutoff : 0 .. now]
    BY <2>4 DEF StoreInv, TypeOK
  <2>6. /\ h \in [Threads -> Handler]
        /\ \A u \in Threads :
             /\ h[u].pc \in {"insert", "inserted"} => h[u].in \in Rows
             /\ h[u].pc = "scan" => h[u].in \in Query
             /\ (h[u].reply # "none") <=> (h[u].pc = "done")
    <3> HIDE DEF g
    <3> QED
      BY <2>1, <2>2 DEF StoreInv, TypeOK
  <2>7. gone \in SUBSET table
    OBVIOUS
  <2> HIDE DEF gone, h
  <2> QED
    BY <2>3, <2>4, <2>5, <2>6, <2>7, GoneStep
<1>3. CASE PurgeExpired
  <2> DEFINE gone == Expired(table, cleaner.cutoff)
  <2>1. gone \in SUBSET table
    BY DEF Expired
  <2>2. cleaner' \in [pc : {"asleep", "purge"}, cutoff : 0 .. now]
    BY <1>3 DEF PurgeExpired, StoreInv, TypeOK
  <2>3. /\ table' = table \ gone
        /\ changes' = Cardinality(gone)
        /\ now' = now
        /\ handler' = Witnessing(handler, gone)
    BY <1>3 DEF PurgeExpired
  <2> HIDE DEF gone
  <2> QED
    BY <2>1, <2>2, <2>3, GoneStep DEF StoreInv, TypeOK
<1>4. CASE Tick
  <2>1. now' \in 1 .. MaxTime /\ now < now'
    BY <1>4, StoreAssumption DEF Tick, StoreInv, TypeOK, StoreAssumption
  <2> QED
    BY <1>4, <2>1 DEF Tick, StoreInv, TypeOK, UniqueIds
<1>5. CASE StartPurge \/ PurgeFails
  BY <1>5 DEF StartPurge, PurgeFails, StatementFails, StoreInv, TypeOK, UniqueIds
<1>6. CASE Crash
  <2>1. Idle \in Handler
    BY DEF Idle, Handler, Replies
  <2> QED
    BY <1>6, <2>1 DEF Crash, StoreInv, TypeOK, UniqueIds, Idle
<1>7. CASE UNCHANGED vars
  BY <1>7 DEF vars, StoreInv, TypeOK, UniqueIds
<1> QED
  BY <1>1, <1>2, <1>3, <1>4, <1>5, <1>6, <1>7, ReceiveStep, ReplyStep
  DEF Next, HandlerNext, CleanerNext

\* They hold at the start.
LEMMA StoreInvInit == Init => StoreInv
<1> SUFFICES ASSUME Init PROVE StoreInv
  OBVIOUS
<1>1. Idle \in Handler
  BY DEF Idle, Handler, Replies
<1>2. IsFiniteSet(table)
  BY FS_EmptySet DEF Init
<1> QED
  BY <1>1, <1>2, StoreAssumption
  DEF Init, StoreInv, TypeOK, UniqueIds, Idle, StoreAssumption

\* Clock, table, change counter, handlers and cleanup thread keep their types,
\* and the cleanup never looks ahead of the clock.
THEOREM StoreTypes == Spec => []TypeOK
  BY StoreInvInit, StoreInvStep, PTL DEF Spec, StoreInv

\* No interleaving of handlers, cleanup, failures and crashes gives the table
\* two rows of one id (INSERT OR IGNORE on the primary key, database.cpp:61).
THEOREM IdsStayUnique == Spec => []OneRowPerId
  BY StoreInvInit, StoreInvStep, PTL DEF Spec, OneRowPerId, StoreInv

\* A step of the node is a step of the registry, or none.
LEMMA RegistryStep ==
  StoreInv /\ [Next]_vars => [Registry!Next]_<<table, now>>
<1> SUFFICES ASSUME StoreInv, [Next]_vars
             PROVE  [Registry!Next]_<<table, now>>
  OBVIOUS
<1>1. CASE UNCHANGED <<table, now>>
  BY <1>1
<1>2. ASSUME NEW t \in Threads, Insert(t)
      PROVE  [Registry!Next]_<<table, now>>
  <2> DEFINE f == handler[t].in
  <2>1. now' = now /\ table' = InsertOrIgnore(table, f)
    BY <1>2 DEF Insert
  <2> HIDE DEF f
  <2>2. \/ table' = table
        \/ f.id \notin IdsOf(table) /\ table' = table \cup {f} /\ f \notin table
    BY <2>1, InsertKeepsIds DEF StoreInv
  <2> QED
    BY <2>1, <2>2 DEF Registry!Next, Registry!Admit, Registry!IdsOf, IdsOf
<1>3. ASSUME NEW t \in Threads, Delete(t)
      PROVE  [Registry!Next]_<<table, now>>
  <2> DEFINE id == handler[t].in
  <2>1. now' = now /\ table' = DeleteById(table, id)
    BY <1>3 DEF Delete, DeleteById
  <2>2. id \in Asked
    BY <1>3 DEF Delete, Asked
  <2> HIDE DEF id
  <2>3. \/ table' = table
        \/ \E r \in table : r.id = id /\ table' = table \ {r}
    BY <2>1, DeleteTakesOne DEF StoreInv
  <2> QED
    BY <2>1, <2>2, <2>3 DEF Registry!Next, Registry!Withdraw
<1>4. CASE PurgeExpired
  <2>1. now' = now /\ table' = table \ Expired(table, cleaner.cutoff)
    BY <1>4 DEF PurgeExpired
  <2>2. \A r \in table : r.timestamp \in Nat /\ r.ttl \in Nat
    BY StoreAssumption DEF StoreInv, TypeOK, Rows, Row, StoreAssumption
  <2>3. cleaner.cutoff \in Nat /\ now \in Nat /\ cleaner.cutoff <= now
    BY DEF StoreInv, TypeOK
  <2>4. table \ table' \subseteq Registry!Expired(table, now)
    BY <2>1, <2>2, <2>3 DEF Expired, Registry!Expired
  <2>5. table' \subseteq table
    BY <2>1
  <2> QED
    BY <2>1, <2>4, <2>5 DEF Registry!Next, Registry!Retire
<1>5. CASE Tick
  BY <1>5 DEF Tick, StoreInv, TypeOK, Registry!Next, Registry!Pass
<1> QED
  BY <1>1, <1>2, <1>3, <1>4, <1>5, TableFrame

\* The node of handlers.cpp, database.cpp and the cleanup thread implements
\* the registry: the first post of an id wins, nothing is altered, and only
\* what has expired or is asked to be deleted disappears.
THEOREM StoreRefinesRegistry == Spec => RefinesRegistry
<1>1. Init => Registry!Init
  BY DEF Init, Registry!Init
<1> QED
  BY <1>1, StoreInvInit, StoreInvStep, RegistryStep, PTL
  DEF Spec, RefinesRegistry, Registry!Spec

-----------------------------------------------------------------------------
(***************************************************************************)
(* What the handlers answer.                                               *)
(***************************************************************************)
\* From its insert on, a post's fragment is in the table or was seen leaving.
PostKept(h, rows) ==
  h.pc = "inserted" \/ h.reply \in {"created", "duplicate"} =>
    h.in.id \in IdsOf(rows) \cup IdsOf(h.gone)

\* What a scan matched at its beginning was read, is still ahead of it, or was
\* seen leaving.
ScanKept(h, rows) ==
  /\ h.pc = "scan" => ~h.did
  /\ h.pc = "scan" =>
       \A r \in h.begun \ h.gone :
         \/ r \in h.got
         \/ /\ r \in SelectSince(rows, h.in.chat_id, h.in.since)
            /\ \A g \in h.got : g.timestamp <= r.timestamp
  /\ h.reply = "rows" /\ h.did => h.begun \ h.gone \subseteq h.got

HandlerInv ==
  \A t \in Threads :
    PostKept(handler[t], table) /\ ScanKept(handler[t], table)

\* What is kept on the way is what the answer needs.
LEMMA HandlerInvImplies == HandlerInv => AnsweredIsStored /\ ScanMissesNothing
  BY DEF HandlerInv, PostKept, ScanKept, AnsweredIsStored, ScanMissesNothing

\* More rows do no harm.
LEMMA MoreRows ==
  ASSUME NEW h, NEW rows, NEW more, rows \subseteq more,
         PostKept(h, rows), ScanKept(h, rows)
  PROVE  PostKept(h, more) /\ ScanKept(h, more)
  BY DEF PostKept, ScanKept, IdsOf, SelectSince

\* Rows that leave are seen leaving.
LEMMA FewerRowsKept ==
  ASSUME NEW h \in Handler, (h.reply # "none") => (h.pc = "done"),
         NEW rows, NEW gone \in SUBSET rows, gone \subseteq Rows,
         PostKept(h, rows), ScanKept(h, rows)
  PROVE  LET g == Witness(h, gone) IN
         PostKept(g, rows \ gone) /\ ScanKept(g, rows \ gone)
<1> DEFINE g == Witness(h, gone)
<1>1. CASE h.pc = "idle"
  BY <1>1 DEF Witness, PostKept, ScanKept
<1>2. CASE h.pc # "idle"
  <2>1. /\ g.pc = h.pc /\ g.in = h.in /\ g.reply = h.reply /\ g.did = h.did
        /\ g.got = h.got /\ g.begun = h.begun /\ g.gone = h.gone \cup gone
    BY <1>2 DEF Handler, Witness
  <2> HIDE DEF g
  <2>2. PostKept(g, rows \ gone)
    BY <2>1 DEF PostKept, IdsOf
  <2>3. ScanKept(g, rows \ gone)
    BY <2>1 DEF ScanKept, SelectSince
  <2> QED
    BY <2>2, <2>3 DEF g
<1> QED
  BY <1>1, <1>2

\* A step of one handler that takes no row away.
LEMMA OneMoves ==
  ASSUME StoreInv, HandlerInv, NEW t \in Threads, NEW h,
         handler' = [handler EXCEPT ![t] = h], table \subseteq table',
         PostKept(h, table'), ScanKept(h, table')
  PROVE  HandlerInv'
<1> SUFFICES ASSUME NEW u \in Threads
             PROVE  /\ PostKept(handler'[u], table')
                    /\ ScanKept(handler'[u], table')
  BY DEF HandlerInv
<1>1. handler'[u] = IF u = t THEN h ELSE handler[u]
  BY DEF StoreInv, TypeOK
<1>2. CASE u = t
  BY <1>1, <1>2
<1>3. CASE u # t
  BY <1>1, <1>3, MoreRows DEF HandlerInv
<1> QED
  BY <1>2, <1>3

\* Of a scan's row: it was read, or the scan is not past it.
LEMMA ScanRowKept ==
  ASSUME StoreInv, HandlerInv, NEW t \in Threads, ScanRow(t)
  PROVE  HandlerInv'
<1>1. PICK r \in Ahead(t) :
        /\ \A s \in Ahead(t) : r.timestamp <= s.timestamp
        /\ handler' = [handler EXCEPT ![t].got = @ \cup {r}]
  BY DEF ScanRow
<1> DEFINE h == [handler[t] EXCEPT !.got = @ \cup {r}]
<1>2. handler[t] \in Handler /\ handler[t].pc = "scan"
      /\ handler[t].reply = "none" /\ table' = table
  BY DEF ScanRow, StoreInv, TypeOK
<1>3. /\ h.pc = "scan" /\ h.in = handler[t].in /\ h.reply = "none"
      /\ h.begun = handler[t].begun /\ h.gone = handler[t].gone
      /\ h.got = handler[t].got \cup {r} /\ h.did = handler[t].did
  BY <1>2 DEF Handler
<1>4. handler' = [handler EXCEPT ![t] = h]
  BY <1>1
<1> HIDE DEF h
<1>5. PostKept(h, table)
  BY <1>3 DEF PostKept
<1>6. ScanKept(h, table)
  <2>1. ScanKept(handler[t], table)
    BY DEF HandlerInv
  <2>2. ~h.did
    BY <1>2, <1>3, <2>1 DEF ScanKept
  <2> SUFFICES ASSUME NEW s \in h.begun \ h.gone, s \notin h.got
               PROVE  /\ s \in SelectSince(table, h.in.chat_id, h.in.since)
                      /\ \A g \in h.got : g.timestamp <= s.timestamp
    BY <1>3, <2>2 DEF ScanKept
  <2>3. s \in Ahead(t)
    BY <1>2, <1>3, <2>1 DEF ScanKept, Ahead, Matching
  <2> QED
    BY <1>1, <1>3, <2>3 DEF Ahead, Matching
<1> QED
  BY <1>2, <1>4, <1>5, <1>6, OneMoves

\* Each action keeps it.
LEMMA HandlerInvStep == StoreInv /\ HandlerInv /\ [Next]_vars => HandlerInv'
<1> SUFFICES ASSUME StoreInv, HandlerInv, [Next]_vars PROVE HandlerInv'
  OBVIOUS
<1>1. ASSUME NEW t \in Threads, Insert(t) PROVE HandlerInv'
  <2> DEFINE new == handler[t].in.id \notin IdsOf(table)
             h == Ran(handler[t], "inserted", new)
  <2>1. handler[t] \in Handler /\ handler[t].pc = "insert"
        /\ handler[t].reply = "none"
    BY <1>1 DEF Insert, StoreInv, TypeOK
  <2>2. h.pc = "inserted" /\ h.in = handler[t].in /\ h.reply = "none"
    BY <2>1 DEF Handler, Ran
  <2>3. handler' = [handler EXCEPT ![t] = h]
    BY <1>1 DEF Insert, Ran
  <2> HIDE DEF h
  <2>4. table \subseteq table' /\ h.in.id \in IdsOf(table')
    BY <1>1, <2>2 DEF Insert, InsertOrIgnore, IdsOf
  <2>5. PostKept(h, table') /\ ScanKept(h, table')
    BY <2>2, <2>4 DEF PostKept, ScanKept
  <2> QED
    BY <2>3, <2>4, <2>5, OneMoves
<1>2. ASSUME NEW t \in Threads, Delete(t) PROVE HandlerInv'
  <2> DEFINE gone == table \ DeleteById(table, handler[t].in)
  <2>1. /\ handler[t] \in Handler /\ handler[t].pc = "delete"
        /\ handler[t].reply = "none" /\ gone \subseteq Rows
    BY <1>2 DEF Delete, StoreInv, TypeOK
  <2>2. table' = table \ gone /\ gone \in SUBSET table
    BY <1>2 DEF Delete
  <2>3. ASSUME NEW u \in Threads
        PROVE  /\ PostKept(handler'[u], table')
               /\ ScanKept(handler'[u], table')
    <3>1. CASE u = t
      <4>1. handler'[t].pc = "deleted" /\ handler'[t].reply = "none"
        BY <1>2, <2>1 DEF Delete, Witnessing, Witness, Handler
      <4> QED
        BY <3>1, <4>1 DEF PostKept, ScanKept
    <3>2. CASE u # t
      <4>1. handler'[u] = Witness(handler[u], gone)
        BY <1>2, <3>2 DEF Delete, Witnessing
      <4>2. handler[u] \in Handler
            /\ (handler[u].reply # "none" => handler[u].pc = "done")
        BY DEF StoreInv, TypeOK
      <4>3. PostKept(handler[u], table) /\ ScanKept(handler[u], table)
        BY DEF HandlerInv
      <4> HIDE DEF gone
      <4> QED
        BY <2>1, <2>2, <4>1, <4>2, <4>3, FewerRowsKept
    <3> QED
      BY <3>1, <3>2
  <2> QED
    BY <2>3 DEF HandlerInv
<1>3. CASE PurgeExpired
  <2> DEFINE gone == Expired(table, cleaner.cutoff)
  <2>1. /\ gone \in SUBSET table /\ gone \subseteq Rows
        /\ table' = table \ gone
        /\ handler' = Witnessing(handler, gone)
    BY <1>3 DEF PurgeExpired, Expired, StoreInv, TypeOK
  <2> HIDE DEF gone
  <2>2. ASSUME NEW u \in Threads
        PROVE  /\ PostKept(handler'[u], table')
               /\ ScanKept(handler'[u], table')
    <3>1. handler'[u] = Witness(handler[u], gone)
      BY <2>1 DEF Witnessing
    <3>2. handler[u] \in Handler
          /\ (handler[u].reply # "none" => handler[u].pc = "done")
      BY DEF StoreInv, TypeOK
    <3>3. PostKept(handler[u], table) /\ ScanKept(handler[u], table)
      BY DEF HandlerInv
    <3> QED
      BY <2>1, <3>1, <3>2, <3>3, FewerRowsKept
  <2> QED
    BY <2>2 DEF HandlerInv
<1>4. ASSUME NEW t \in Threads, NEW reply \in Replies \ {"none"},
             Answer(t, reply), UNCHANGED table,
             handler[t].pc = "inserted" \/ reply \notin {"created", "duplicate"},
             reply = "rows" => handler[t].pc = "scan"
      PROVE  HandlerInv'
  <2> DEFINE h == [handler[t] EXCEPT !.pc = "done", !.reply = reply]
  <2>1. handler[t] \in Handler
    BY DEF StoreInv, TypeOK
  <2>2. /\ h.pc = "done" /\ h.reply = reply /\ h.in = handler[t].in
        /\ h.gone = handler[t].gone /\ h.did = handler[t].did
    BY <2>1 DEF Handler
  <2>3. handler' = [handler EXCEPT ![t] = h]
    BY <1>4, <2>1 DEF Answer
  <2> HIDE DEF h
  <2>4. PostKept(h, table) /\ ScanKept(h, table)
    BY <1>4, <2>2 DEF HandlerInv, PostKept, ScanKept
  <2> QED
    BY <1>4, <2>3, <2>4, OneMoves
<1>5. ASSUME NEW t \in Threads, ScanEnd(t) PROVE HandlerInv'
  <2> DEFINE h == [handler[t] EXCEPT !.pc = "done", !.reply = "rows",
                                     !.did = TRUE]
  <2>1. handler[t] \in Handler /\ handler[t].pc = "scan" /\ Ahead(t) = {}
    BY <1>5 DEF ScanEnd, StoreInv, TypeOK
  <2>2. /\ h.pc = "done" /\ h.reply = "rows" /\ h.got = handler[t].got
        /\ h.begun = handler[t].begun /\ h.gone = handler[t].gone
    BY <2>1 DEF Handler
  <2>3. handler' = [handler EXCEPT ![t] = h] /\ table' = table
    BY <1>5, <2>1 DEF ScanEnd
  <2> HIDE DEF h
  <2>4. handler[t].begun \ handler[t].gone \subseteq handler[t].got
    BY <2>1 DEF HandlerInv, ScanKept, Ahead, Matching
  <2>5. PostKept(h, table) /\ ScanKept(h, table)
    BY <2>2, <2>4 DEF PostKept, ScanKept
  <2> QED
    BY <2>3, <2>5, OneMoves
<1>6. ASSUME NEW t \in Threads,
             \/ ReceivePost(t) \/ ReceiveDelete(t) \/ ReceiveGet(t)
             \/ ReadMessage(t) \/ ReadMessageFails(t) \/ Finish(t)
      PROVE  HandlerInv'
  <2>1. table' = table
    BY <1>6 DEF ReceivePost, ReceiveDelete, ReceiveGet, ReadMessage,
                ReadMessageFails, Finish
  <2>2. CASE ReceivePost(t)
    <3>1. PICK b \in Bodies :
            handler' = [handler EXCEPT ![t] =
                          [Idle EXCEPT !.pc = "insert", !.in = Row(b, now)]]
      BY <2>2 DEF ReceivePost
    <3> DEFINE h == [Idle EXCEPT !.pc = "insert", !.in = Row(b, now)]
    <3>2. PostKept(h, table) /\ ScanKept(h, table)
      BY DEF Idle, PostKept, ScanKept
    <3> QED
      BY <2>1, <3>1, <3>2, OneMoves
  <2>3. CASE ReceiveDelete(t)
    <3>1. PICK id \in Ids :
            handler' = [handler EXCEPT ![t] =
                          [Idle EXCEPT !.pc = "delete", !.in = id]]
      BY <2>3 DEF ReceiveDelete
    <3> DEFINE h == [Idle EXCEPT !.pc = "delete", !.in = id]
    <3>2. PostKept(h, table) /\ ScanKept(h, table)
      BY DEF Idle, PostKept, ScanKept
    <3> QED
      BY <2>1, <3>1, <3>2, OneMoves
  <2>4. CASE ReceiveGet(t)
    <3>1. PICK q \in Query :
            handler' = [handler EXCEPT ![t] =
                          [Idle EXCEPT !.pc = "scan", !.in = q,
                                       !.begun = SelectSince(table, q.chat_id,
                                                             q.since)]]
      BY <2>4 DEF ReceiveGet
    <3> DEFINE begun == SelectSince(table, q.chat_id, q.since)
               h == [Idle EXCEPT !.pc = "scan", !.in = q, !.begun = begun]
    <3>2. /\ h.pc = "scan" /\ h.in = q /\ h.begun = begun /\ h.did = FALSE
          /\ h.got = {} /\ h.gone = {} /\ h.reply = "none"
      BY DEF Idle
    <3>3. PostKept(h, table) /\ ScanKept(h, table)
      <4> HIDE DEF h
      <4> QED
        BY <3>2 DEF PostKept, ScanKept
    <3> QED
      BY <2>1, <3>1, <3>3, OneMoves
  <2>5. CASE ReadMessage(t)
    <3>1. PICK m \in MessageIds :
            handler' = [handler EXCEPT ![t] =
                          [Idle EXCEPT !.pc = "done", !.reply = "rows",
                                       !.got = SelectMessage(table, m)]]
      BY <2>5 DEF ReadMessage
    <3> DEFINE h == [Idle EXCEPT !.pc = "done", !.reply = "rows",
                                 !.got = SelectMessage(table, m)]
    <3>2. PostKept(h, table) /\ ScanKept(h, table)
      BY DEF Idle, PostKept, ScanKept
    <3> QED
      BY <2>1, <3>1, <3>2, OneMoves
  <2>6. CASE Finish(t)
    <3>1. PostKept(Idle, table) /\ ScanKept(Idle, table)
      BY DEF Idle, PostKept, ScanKept
    <3> QED
      BY <2>1, <2>6, <3>1, OneMoves DEF Finish
  <2>7. CASE ReadMessageFails(t)
    <3> DEFINE h == [Idle EXCEPT !.pc = "done", !.reply = "rows", !.got = {}]
    <3>1. handler' = [handler EXCEPT ![t] = h]
      BY <2>7 DEF ReadMessageFails
    <3>2. PostKept(h, table) /\ ScanKept(h, table)
      BY DEF Idle, PostKept, ScanKept
    <3> QED
      BY <2>1, <3>1, <3>2, OneMoves
  <2> QED
    BY <1>6, <2>2, <2>3, <2>4, <2>5, <2>6, <2>7
<1>7. CASE Crash
  <2>1. PostKept(Idle, table) /\ ScanKept(Idle, table)
    BY DEF Idle, PostKept, ScanKept
  <2> QED
    BY <1>7, <2>1 DEF Crash, HandlerInv
<1>8. CASE UNCHANGED <<table, handler>>
  BY <1>8 DEF HandlerInv
<1>9. ASSUME NEW t \in Threads, HandlerNext(t) PROVE HandlerInv'
  <2>1. CASE \/ InsertFails(t) \/ DeleteFails(t) \/ AnswerDelete(t)
              \/ SelectFails(t) \/ Health(t)
    <3>1. \E reply \in {"error", "deleted", "not found", "count"} :
            Answer(t, reply) /\ UNCHANGED table
      BY <2>1 DEF InsertFails, DeleteFails, AnswerDelete, SelectFails, Health
    <3> QED
      BY <3>1, <1>4 DEF Replies
  <2>2. CASE AnswerPost(t)
    <3>1. /\ \E reply \in {"created", "duplicate"} : Answer(t, reply)
          /\ UNCHANGED table /\ handler[t].pc = "inserted"
      BY <2>2 DEF AnswerPost
    <3> QED
      BY <3>1, <1>4 DEF Replies
  <2>3. CASE ScanFails(t)
    <3>1. Answer(t, "rows") /\ UNCHANGED table /\ handler[t].pc = "scan"
      BY <2>3 DEF ScanFails
    <3> QED
      BY <3>1, <1>4 DEF Replies
  <2> QED
    BY <1>1, <1>2, <1>5, <1>6, <1>9, <2>1, <2>2, <2>3, ScanRowKept
    DEF HandlerNext
<1>10. CASE StartPurge \/ PurgeFails \/ Tick \/ UNCHANGED vars
  BY <1>8, <1>10 DEF StartPurge, PurgeFails, Tick, vars
<1> QED
  BY <1>3, <1>7, <1>9, <1>10 DEF Next, CleanerNext

\* It holds at the start.
LEMMA HandlerInvInit == Init => HandlerInv
<1>1. PostKept(Idle, {}) /\ ScanKept(Idle, {})
  BY DEF Idle, PostKept, ScanKept
<1> QED
  BY <1>1 DEF Init, HandlerInv

\* A post answered 201 or 200 was stored, whatever other threads' statements,
\* errors and crashes come in between (handlers.cpp:145-157).
THEOREM AnswersAreTrue == Spec => []AnsweredIsStored
  BY StoreInvInit, StoreInvStep, HandlerInvInit, HandlerInvStep,
     HandlerInvImplies, PTL DEF Spec

\* A scan returns whatever was there from its beginning to its end, however
\* many rows come and go behind and before it (database.cpp:95-109).
THEOREM ScansAreWhole == Spec => []ScanMissesNothing
  BY StoreInvInit, StoreInvStep, HandlerInvInit, HandlerInvStep,
     HandlerInvImplies, PTL DEF Spec

=============================================================================
