---------------------------- MODULE FragmentRows ----------------------------
(***************************************************************************)
(* The SQL of backend/src/database.cpp as operators on a set of rows.  A   *)
(* row is a record with (at least) the columns id, message_id, chat_id,    *)
(* timestamp and ttl.  Every module that holds a node's table uses these.  *)
(***************************************************************************)
EXTENDS Integers, FiniteSets

IdsOf(rows) == { r.id : r \in rows }

\* The PRIMARY KEY of the schema: a table never holds two rows of one id.
UniqueIds(rows) == \A r, s \in rows : r.id = s.id => r = s

(***************************************************************************)
(* Faulty variants, each a plausible slip in the statement after it.       *)
(***************************************************************************)
InsertOrReplace(rows, f) == { r \in rows : r.id # f.id } \cup {f}
InsertWithoutKey(rows, f) == rows \cup {f}
ExpiredIgnoringZero(rows, now) == { r \in rows : r.timestamp + r.ttl <= now }
ExpiredStrictly(rows, now) ==
  { r \in rows : r.ttl > 0 /\ r.timestamp + r.ttl < now }

(***************************************************************************)
(* The statements.                                                         *)
(***************************************************************************)
InsertOrIgnore(rows, f) == IF f.id \in IdsOf(rows) THEN rows ELSE rows \cup {f}

SelectSince(rows, chat, since) ==
  { r \in rows : r.chat_id = chat /\ r.timestamp > since }

SelectMessage(rows, m) == { r \in rows : r.message_id = m }

DeleteById(rows, id) == { r \in rows : r.id # id }

Expired(rows, now) == { r \in rows : r.ttl > 0 /\ r.timestamp + r.ttl <= now }
=============================================================================
