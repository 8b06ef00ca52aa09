---------------------------- MODULE FragmentStore ----------------------------
(***************************************************************************)
(* One backend node: the request handlers of handlers.cpp, each on a       *)
(* thread of its own, over the one SQLite connection of database.cpp that  *)
(* they share with the cleanup thread.                                     *)
(*                                                                         *)
(* SQLite serializes the calls made on a connection, not sequences of      *)
(* them.  A step is therefore one sqlite3_step or one sqlite3_changes, and *)
(* other threads come in between.  Requests that handlers.cpp refuses      *)
(* before it touches the clock or the database (400, 401, 413) leave no    *)
(* trace and are left out.                                                 *)
(***************************************************************************)
EXTENDS FragmentRows

CONSTANTS
  Threads,    \* the handler threads that run at a time
  Bodies,     \* the fragments clients post: rows but for the timestamp
  Requests,   \* the requests clients make, a subset of RequestKinds
  Faults,     \* "io": a statement fails; "crash": the process dies
  MaxTime     \* bound on the node's clock

RequestKinds == {"POST", "GET", "GET all", "DELETE", "HEALTH"}

ASSUME StoreAssumption ==
  /\ \A b \in Bodies : b.ttl \in Nat
  /\ Requests \subseteq RequestKinds
  /\ Faults \subseteq {"io", "crash"}
  /\ MaxTime \in Nat \ {0}

VARIABLES
  now,       \* the node's system clock, whole seconds
  table,     \* the rows of the fragments table
  changes,   \* what sqlite3_changes would return
  handler,   \* [Threads -> Handler]
  cleaner    \* the cleanup thread: its state and its cut-off time

vars == <<now, table, changes, handler, cleaner>>

-----------------------------------------------------------------------------
\* The row a body posted at time t becomes.
Row(b, t) ==
  [id |-> b.id, message_id |-> b.message_id, chat_id |-> b.chat_id,
   payload |-> b.payload, timestamp |-> t, ttl |-> b.ttl]

Rows == { Row(b, t) : b \in Bodies, t \in 1 .. MaxTime }

Ids == { b.id : b \in Bodies }
ChatIds == { b.chat_id : b \in Bodies }
MessageIds == { b.message_id : b \in Bodies }

Replies ==
  {"none", "created", "duplicate", "rows", "deleted", "not found", "count",
   "error"}

Query == [chat_id : ChatIds, since : 0 .. MaxTime]

Nothing == [none |-> TRUE]

(***************************************************************************)
(* A handler's local variables: in is the row posted, the id to delete or  *)
(* the query to answer, got the rows read so far.  The rest observes: did, *)
(* whether the handler's own statement did what it was to do (change the   *)
(* table, or scan to the end); begun, the rows a scan matched when it      *)
(* began; gone, the rows that left the table since the request came in.    *)
(***************************************************************************)
Handler ==
  [pc : {"idle", "insert", "inserted", "delete", "deleted", "scan", "done"},
   in : Rows \cup Ids \cup Query \cup {Nothing},
   got : SUBSET Rows, begun : SUBSET Rows, gone : SUBSET Rows,
   did : BOOLEAN, reply : Replies]

Idle ==
  [pc |-> "idle", in |-> Nothing, got |-> {}, begun |-> {}, gone |-> {},
   did |-> FALSE, reply |-> "none"]

Answer(t, reply) ==
  handler' = [handler EXCEPT ![t].pc = "done", ![t].reply = reply]

\* A handler, and all handlers, when some rows have left the table.
Witness(h, gone) ==
  IF h.pc = "idle" THEN h ELSE [h EXCEPT !.gone = @ \cup gone]

Witnessing(hs, gone) == [t \in Threads |-> Witness(hs[t], gone)]

\* A statement that fails has changed no row; one that cannot be prepared leaves
\* sqlite3_changes to the statement before it.
StatementFails == changes' \in {0, changes}

-----------------------------------------------------------------------------
(***************************************************************************)
(* POST /api/fragments.                                                    *)
(***************************************************************************)
\* The body is accepted and gets its timestamp; the insert is still to come.
ReceivePost(t) ==
  /\ "POST" \in Requests
  /\ handler[t].pc = "idle"
  /\ \E b \in Bodies :
       handler' = [handler EXCEPT ![t] =
                     [Idle EXCEPT !.pc = "insert", !.in = Row(b, now)]]
  /\ UNCHANGED <<now, table, changes, cleaner>>

\* A slip in the statement: INSERT OR REPLACE.
InsertReplacing(t) ==
  LET f == handler[t].in IN
  /\ handler[t].pc = "insert"
  /\ table' = InsertOrReplace(table, f)
  /\ changes' = 1
  /\ handler' = [handler EXCEPT ![t].pc = "inserted", ![t].did = TRUE]
  /\ UNCHANGED <<now, cleaner>>

\* A slip in the schema: id is no key.
InsertUnkeyed(t) ==
  LET f == handler[t].in IN
  /\ handler[t].pc = "insert"
  /\ table' = InsertWithoutKey(table, f)
  /\ changes' = 1
  /\ handler' = [handler EXCEPT ![t].pc = "inserted", ![t].did = TRUE]
  /\ UNCHANGED <<now, cleaner>>

\* INSERT OR IGNORE runs.
Insert(t) ==
  LET f == handler[t].in
      new == f.id \notin IdsOf(table)
  IN
  /\ handler[t].pc = "insert"
  /\ table' = InsertOrIgnore(table, f)
  /\ changes' = IF new THEN 1 ELSE 0
  /\ handler' = [handler EXCEPT ![t].pc = "inserted", ![t].did = new]
  /\ UNCHANGED <<now, cleaner>>

\* A slip in the error handling: the result of the insert is not looked at.
InsertFailsUnnoticed(t) ==
  /\ "io" \in Faults
  /\ handler[t].pc = "insert"
  /\ StatementFails
  /\ handler' = [handler EXCEPT ![t].pc = "inserted"]
  /\ UNCHANGED <<now, table, cleaner>>

\* The insert fails: insert_fragment throws, the answer is 500.
InsertFails(t) ==
  /\ "io" \in Faults
  /\ handler[t].pc = "insert"
  /\ StatementFails
  /\ Answer(t, "error")
  /\ UNCHANGED <<now, table, cleaner>>

\* insert_fragment asks the connection, which is not its own, how many rows
\* the last statement changed: 201 or 200 "duplicate".
AnswerPost(t) ==
  /\ handler[t].pc = "inserted"
  /\ Answer(t, IF changes > 0 THEN "created" ELSE "duplicate")
  /\ UNCHANGED <<now, table, changes, cleaner>>

-----------------------------------------------------------------------------
(***************************************************************************)
(* DELETE /api/fragments/:id.                                              *)
(***************************************************************************)
ReceiveDelete(t) ==
  /\ "DELETE" \in Requests
  /\ handler[t].pc = "idle"
  /\ \E id \in Ids :
       handler' = [handler EXCEPT ![t] =
                     [Idle EXCEPT !.pc = "delete", !.in = id]]
  /\ UNCHANGED <<now, table, changes, cleaner>>

Delete(t) ==
  LET id == handler[t].in
      gone == table \ DeleteById(table, id)
  IN
  /\ handler[t].pc = "delete"
  /\ table' = table \ gone
  /\ changes' = Cardinality(gone)
  /\ handler' = [Witnessing(handler, gone) EXCEPT ![t].pc = "deleted",
                                                  ![t].did = gone # {}]
  /\ UNCHANGED <<now, cleaner>>

DeleteFails(t) ==
  /\ "io" \in Faults
  /\ handler[t].pc = "delete"
  /\ StatementFails
  /\ Answer(t, "error")
  /\ UNCHANGED <<now, table, cleaner>>

\* 204, or 404 when the connection says nothing was changed.
AnswerDelete(t) ==
  /\ handler[t].pc = "deleted"
  /\ Answer(t, IF changes > 0 THEN "deleted" ELSE "not found")
  /\ UNCHANGED <<now, table, changes, cleaner>>

-----------------------------------------------------------------------------
(***************************************************************************)
(* GET /api/fragments, GET /api/fragments/:message_id/all, GET /health.    *)
(***************************************************************************)
ReceiveGet(t) ==
  /\ "GET" \in Requests
  /\ handler[t].pc = "idle"
  /\ \E q \in Query :
       handler' = [handler EXCEPT ![t] =
                     [Idle EXCEPT !.pc = "scan", !.in = q,
                                  !.begun = SelectSince(table, q.chat_id,
                                                        q.since)]]
  /\ UNCHANGED <<now, table, changes, cleaner>>

Matching(t) == SelectSince(table, handler[t].in.chat_id, handler[t].in.since)

\* The rows a scan has still ahead of it.  The index on (chat_id, timestamp)
\* gives them oldest first, and the scan never goes back to an older one.
Ahead(t) ==
  { r \in Matching(t) \ handler[t].got :
      \A g \in handler[t].got : g.timestamp <= r.timestamp }

\* A slip in the scan: rows are counted off, so that one deleted behind the
\* scan makes it skip another.
ScanRowByOffset(t) ==
  /\ handler[t].pc = "scan"
  /\ \E r \in Matching(t) :
       /\ Cardinality({ s \in Matching(t) : s.timestamp < r.timestamp })
            = Cardinality(handler[t].got)
       /\ handler' = [handler EXCEPT ![t].got = @ \cup {r}]
  /\ UNCHANGED <<now, table, changes, cleaner>>

\* sqlite3_step returns the next row.
ScanRow(t) ==
  /\ handler[t].pc = "scan"
  /\ \E r \in Ahead(t) :
       /\ \A s \in Ahead(t) : r.timestamp <= s.timestamp
       /\ handler' = [handler EXCEPT ![t].got = @ \cup {r}]
  /\ UNCHANGED <<now, table, changes, cleaner>>

\* sqlite3_step has no more rows.
ScanEnd(t) ==
  /\ handler[t].pc = "scan"
  /\ Ahead(t) = {}
  /\ handler' = [handler EXCEPT ![t].pc = "done", ![t].reply = "rows",
                                ![t].did = TRUE]
  /\ UNCHANGED <<now, table, changes, cleaner>>

\* sqlite3_step fails: the loop ends as if there were no more rows.
ScanFails(t) ==
  /\ "io" \in Faults
  /\ handler[t].pc = "scan"
  /\ Answer(t, "rows")
  /\ UNCHANGED <<now, table, changes, cleaner>>

\* No index gives the rows of a message in order: the first sqlite3_step reads
\* and sorts them all.
ReadMessage(t) ==
  /\ "GET all" \in Requests
  /\ handler[t].pc = "idle"
  /\ \E m \in MessageIds :
       handler' = [handler EXCEPT ![t] =
                     [Idle EXCEPT !.pc = "done", !.reply = "rows",
                                  !.got = SelectMessage(table, m)]]
  /\ UNCHANGED <<now, table, changes, cleaner>>

\* That sqlite3_step fails, and no row is read.
ReadMessageFails(t) ==
  /\ "io" \in Faults
  /\ "GET all" \in Requests
  /\ handler[t].pc = "idle"
  /\ handler' = [handler EXCEPT ![t] =
                   [Idle EXCEPT !.pc = "done", !.reply = "rows", !.got = {}]]
  /\ UNCHANGED <<now, table, changes, cleaner>>

\* The SELECT of either cannot be prepared: 500.
SelectFails(t) ==
  /\ "io" \in Faults
  /\ {"GET", "GET all"} \cap Requests # {}
  /\ handler[t].pc = "idle"
  /\ Answer(t, "error")
  /\ UNCHANGED <<now, table, changes, cleaner>>

\* The health check counts the rows; an error counts none.
Health(t) ==
  /\ "HEALTH" \in Requests
  /\ handler[t].pc = "idle"
  /\ Answer(t, "count")
  /\ UNCHANGED <<now, table, changes, cleaner>>

\* A slip in the connection handling: the next request finds the old reply.
FinishKeepingReply(t) ==
  /\ handler[t].pc = "done"
  /\ handler' = [handler EXCEPT ![t].pc = "idle"]
  /\ UNCHANGED <<now, table, changes, cleaner>>

\* The response is sent, the connection closed, the thread over.
Finish(t) ==
  /\ handler[t].pc = "done"
  /\ handler' = [handler EXCEPT ![t] = Idle]
  /\ UNCHANGED <<now, table, changes, cleaner>>

-----------------------------------------------------------------------------
(***************************************************************************)
(* The cleanup thread, the clock, the process.                             *)
(***************************************************************************)
\* cleanup_interval_sec are over: purge_expired takes the time.
StartPurge ==
  /\ cleaner.pc = "asleep"
  /\ cleaner' = [pc |-> "purge", cutoff |-> now]
  /\ UNCHANGED <<now, table, changes, handler>>

\* Its DELETE removes what had expired by then.
PurgeExpired ==
  /\ cleaner.pc = "purge"
  /\ table' = table \ Expired(table, cleaner.cutoff)
  /\ changes' = Cardinality(Expired(table, cleaner.cutoff))
  /\ handler' = Witnessing(handler, Expired(table, cleaner.cutoff))
  /\ cleaner' = [cleaner EXCEPT !.pc = "asleep"]
  /\ UNCHANGED now

\* Its DELETE fails; nobody looks at the result.
PurgeFails ==
  /\ "io" \in Faults
  /\ cleaner.pc = "purge"
  /\ StatementFails
  /\ cleaner' = [cleaner EXCEPT !.pc = "asleep"]
  /\ UNCHANGED <<now, table, handler>>

Tick ==
  /\ now < MaxTime
  /\ now' = now + 1
  /\ UNCHANGED <<table, changes, handler, cleaner>>

\* The process dies and is started again: what was committed is in the log.
Crash ==
  /\ "crash" \in Faults
  /\ changes' = 0
  /\ handler' = [t \in Threads |-> Idle]
  /\ cleaner' = [pc |-> "asleep", cutoff |-> 0]
  /\ UNCHANGED <<now, table>>

-----------------------------------------------------------------------------
Init ==
  /\ now = 1
  /\ table = {}
  /\ changes = 0
  /\ handler = [t \in Threads |-> Idle]
  /\ cleaner = [pc |-> "asleep", cutoff |-> 0]

HandlerNext(t) ==
  \/ ReceivePost(t) \/ Insert(t) \/ InsertFails(t) \/ AnswerPost(t)
  \/ ReceiveDelete(t) \/ Delete(t) \/ DeleteFails(t) \/ AnswerDelete(t)
  \/ ReceiveGet(t) \/ ScanRow(t) \/ ScanEnd(t) \/ ScanFails(t)
  \/ ReadMessage(t) \/ ReadMessageFails(t) \/ SelectFails(t) \/ Health(t)
  \/ Finish(t)

CleanerNext == StartPurge \/ PurgeExpired \/ PurgeFails

Next ==
  \/ \E t \in Threads : HandlerNext(t)
  \/ CleanerNext
  \/ Tick
  \/ Crash

Spec == Init /\ [][Next]_vars

-----------------------------------------------------------------------------
(***************************************************************************)
(* Properties.                                                             *)
(***************************************************************************)
\* The state has the shape described above (database.cpp's schema and the
\* handlers' local variables).
TypeOK ==
  /\ now \in 1 .. MaxTime
  /\ table \subseteq Rows
  /\ changes \in Nat
  /\ handler \in [Threads -> Handler]
  /\ \A t \in Threads :
       /\ handler[t].pc \in {"insert", "inserted"} => handler[t].in \in Rows
       /\ handler[t].pc = "scan" => handler[t].in \in Query
       /\ (handler[t].reply # "none") <=> (handler[t].pc = "done")
  /\ cleaner \in [pc : {"asleep", "purge"}, cutoff : 0 .. now]

\* However posts, deletes and the cleanup interleave, the table holds one row
\* per fragment id (PRIMARY KEY, database.cpp:44).
OneRowPerId == UniqueIds(table)

\* The ids whose deletion handlers are asking for.
Asked == { handler[t].in : t \in { u \in Threads : handler[u].pc = "delete" } }

Registry ==
  INSTANCE FragmentRegistry WITH table <- table, now <- now, asked <- Asked

\* Threads, cleanup, failing statements and crashes together do to the table
\* what the registry allows: the first post of an id wins, and a fragment
\* leaves only when it has expired or its deletion is asked for.
RefinesRegistry == Registry!Spec

\* A post that was answered 201 or 200 is in the table, unless it has expired
\* or was deleted meanwhile: an answer never hides a failed insert, nor does
\* another thread's statement behind the answer (handlers.cpp:145-157).
AnsweredIsStored ==
  \A t \in Threads :
    handler[t].reply \in {"created", "duplicate"} =>
      handler[t].in.id \in IdsOf(table) \cup IdsOf(handler[t].gone)

\* A scan beside inserts, deletes and the cleanup answers with every row that
\* it matched at its beginning and that stayed there (database.cpp:84-112).
ScanMissesNothing ==
  \A t \in Threads :
    handler[t].reply = "rows" /\ handler[t].did =>
      handler[t].begun \ handler[t].gone \subseteq handler[t].got

-----------------------------------------------------------------------------
(***************************************************************************)
(* What the documents and comments say beyond that.                        *)
(***************************************************************************)
\* database.hpp:34: an insert returns false if the fragment already exists, so
\* the answer tells a new fragment from a duplicate.
AnswerTellsDuplicates ==
  \A t \in Threads :
    /\ handler[t].reply = "created" => handler[t].did
    /\ handler[t].reply = "duplicate" => ~handler[t].did

=============================================================================
