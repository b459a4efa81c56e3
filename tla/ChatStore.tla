----------------------------- MODULE ChatStore -----------------------------
(***************************************************************************)
(* The two stores of the messenger (app/store.py): SqlStore for one        *)
(* process, DynamoStore for the cluster.  Their operations as functions of *)
(* the tables, to compare what they answer.  ChatOwner and Membership say  *)
(* what happens when the calls of several actors mix.                      *)
(***************************************************************************)
EXTENDS Integers, Sequences, FiniteSetsExt, SequencesExt, Functions

\* chat: the committed chats; membership: pairs <<chat, user>>; chat_state: what
\* <<user, chat>> has read; message: rows; client_msg: <<chat, client_msg_id>>
\* to the message that has it (DynamoDB only: SQLite has a UNIQUE index).
EmptyDb == [chat |-> {}, membership |-> {}, chat_state |-> <<>>, message |-> {}, client_msg |-> <<>>]

With(f, k, v) == [x \in DOMAIN f \cup {k} |-> IF x = k THEN v ELSE f[x]]
Dropped(f, k) == [x \in DOMAIN f \ {k} |-> f[x]]

\* What a call leaves in the tables, and what it answers.
Answers(db, answer) == [db |-> db, answer |-> answer]

-----------------------------------------------------------------------------
(* Chats.                                                                  *)

sql_create_chat(db, chat, people) ==
  IF chat \in db.chat \/ \E u \in people : <<chat, u>> \in db.membership THEN Answers(db, "raises")
  ELSE Answers([db EXCEPT !.chat = @ \cup {chat},
                          !.membership = @ \cup ({chat} \X people),
                          !.chat_state = @ @@ [k \in people \X {chat} |-> 0]], "ok")

\* Members and states first, whatever is there; then the chat, if it is new.
dynamo_create_chat(db, chat, people) ==
  Answers([db EXCEPT !.membership = @ \cup ({chat} \X people),
                     !.chat_state = [k \in people \X {chat} |-> 0] @@ @,
                     !.chat = @ \cup {chat}],
          IF chat \in db.chat THEN "raises" ELSE "ok")

sql_add_member(db, chat, user, last_read) ==
  Answers([db EXCEPT !.membership = @ \cup {<<chat, user>>}, !.chat_state = With(@, <<user, chat>>, last_read)], "ok")

sql_remove_member(db, chat, user) ==
  Answers([db EXCEPT !.membership = @ \ {<<chat, user>>}, !.chat_state = Dropped(@, <<user, chat>>)], "ok")

sql_list_members(db, chat) == {m[2] : m \in {m \in db.membership : m[1] = chat}}
sql_get_chats(db, ids) == ids \cap db.chat

\* The chats of a user, as far as they are committed, and what was read of each.
sql_list_user_chats(db, user) ==
  {<<k[2], db.chat_state[k]>> : k \in {k \in DOMAIN db.chat_state : k[1] = user /\ k[2] \in db.chat}}

\* A state that is there, and behind, moves on.
sql_update_last_read(db, user, chat, id) ==
  Answers(IF <<user, chat>> \in DOMAIN db.chat_state /\ db.chat_state[<<user, chat>>] < id
          THEN [db EXCEPT !.chat_state[<<user, chat>>] = id] ELSE db, "ok")

sql_get_last_read(db, user, chat) ==
  IF <<user, chat>> \in DOMAIN db.chat_state THEN db.chat_state[<<user, chat>>] ELSE 0

-----------------------------------------------------------------------------
(* Messages.                                                               *)

IdTaken(db, chat, id) == \E m \in db.message : m.chat = chat /\ m.id = id
Stored(db, chat, id, cmid) == [db EXCEPT !.message = @ \cup {[chat |-> chat, id |-> id, cmid |-> cmid]}]

sql_append_message(db, chat, id, cmid) ==
  LET same == {m \in db.message : m.chat = chat /\ m.cmid = cmid} IN
  IF same # {} THEN Answers(db, <<"Duplicate", (CHOOSE m \in same : TRUE).id>>)
  ELSE IF IdTaken(db, chat, id) THEN Answers(db, <<"IdConflict", id>>)
  ELSE Answers(Stored(db, chat, id, cmid), <<"Appended", id>>)

dynamo_append_message(db, chat, id, cmid) ==
  LET key == <<chat, cmid>> IN
  IF key \in DOMAIN db.client_msg THEN Answers(db, <<"Duplicate", db.client_msg[key]>>)
  ELSE IF IdTaken(db, chat, id) THEN Answers(db, <<"IdConflict", id>>)
  ELSE Answers([Stored(db, chat, id, cmid) EXCEPT !.client_msg = With(@, key, id)], <<"Appended", id>>)

\* DEDUPE_TTL_S later.
DedupeExpires(db) == [db EXCEPT !.client_msg = <<>>]

sql_max_message_id(db, chat) == Max({0} \cup {m.id : m \in {m \in db.message : m.chat = chat}})

sql_messages_after(db, chat, after, limit) ==
  LET ids == SetToSortSeq({m.id : m \in {m \in db.message : m.chat = chat /\ m.id > after}}, <) IN
  <<SubSeq(ids, 1, Min({limit, Len(ids)})), Len(ids) > limit>>

-----------------------------------------------------------------------------
(* A row of the message table, and the item of it that DynamoDB keeps: a   *)
(* column that is NULL has no attribute.                                   *)

NULL == "NULL"
_item(row) == [a \in {a \in DOMAIN row : row[a] # NULL} |-> row[a]]
_get(row, column) == IF column \in DOMAIN row THEN row[column] ELSE NULL
_row_msg(row) ==
  [message_id |-> row.message_id, text |-> _get(row, "text"), client_ts |-> _get(row, "client_ts"),
   kind |-> IF _get(row, "kind") \in {NULL, ""} THEN "user" ELSE row.kind,
   created_at |-> IF _get(row, "created_at") = NULL THEN "0" ELSE row.created_at]

=============================================================================
