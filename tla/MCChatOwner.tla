---------------------------- MODULE MCChatOwner -----------------------------
(* A small instance of ChatOwner for TLC, in which a handler on an old     *)
(* ChatSeq of the chat meets those on the new one; and the two stores side *)
(* by side.                                                                *)
EXTENDS ChatOwner, SequencesExt

S == INSTANCE ChatStore

-----------------------------------------------------------------------------
\* Sequences of calls on one chat of the users u and v; `create` is not called
\* for a chat that is there.
Calls ==
  {[op |-> "create", people |-> p] : p \in {{"u"}, {"u", "v"}}}
    \cup [op : {"add", "remove"}, user : {"u", "v"}]
    \cup [op : {"read"}, user : {"u"}, id : 1..2]
    \cup [op : {"append"}, id : 1..2, cmid : {"k1", "k2"}]
History == UNION {[1..n -> Calls] : n \in 0..4}

Call(db, c, create(_, _, _), append(_, _, _, _)) ==
  CASE c.op = "create" -> IF "c" \in db.chat THEN S!Answers(db, "skipped") ELSE create(db, "c", c.people)
    [] c.op = "add" -> S!sql_add_member(db, "c", c.user, S!sql_max_message_id(db, "c"))
    [] c.op = "remove" -> S!sql_remove_member(db, "c", c.user)
    [] c.op = "read" -> S!sql_update_last_read(db, c.user, "c", c.id)
    [] c.op = "append" -> append(db, "c", c.id, c.cmid)

\* Where a sequence of calls leads a store, and all that it answers.
Ran(seq, create(_, _, _), append(_, _, _, _)) ==
  LET Step(s, c) == LET r == Call(s.db, c, create, append) IN [db |-> r.db, answers |-> Append(s.answers, r.answer)] IN
  FoldLeft(Step, [db |-> S!EmptyDb, answers |-> <<>>], seq)

\* What the readers of a store see.
Seen(db) ==
  [members |-> S!sql_list_members(db, "c"), chats |-> S!sql_get_chats(db, {"c", "d"}),
   mine |-> [u \in {"u", "v"} |-> <<S!sql_list_user_chats(db, u), S!sql_get_last_read(db, u, "c")>>],
   head |-> S!sql_max_message_id(db, "c"), page |-> [a \in 0..1 |-> S!sql_messages_after(db, "c", a, 1)]]

\* Both stores answer every call alike and show the same to every reader, but
\* for a chat whose members were there before it.
ASSUME StoresAlike ==
  \A seq \in {s \in History : \A i \in DOMAIN s : s[i].op = "create" => i = 1} :
    LET sql == Ran(seq, S!sql_create_chat, S!sql_append_message)
        dynamo == Ran(seq, S!dynamo_create_chat, S!dynamo_append_message) IN
    sql.answers = dynamo.answers /\ Seen(sql.db) = Seen(dynamo.db)

\* A chat that is created again is refused by both, but what its members have
\* read is lost in one.
ASSUME RecreateForgets ==
  LET before == [S!EmptyDb EXCEPT !.chat = {"c"}, !.membership = {<<"c", "u">>}, !.chat_state = (<<"u", "c">> :> 1)]
      sql == S!sql_create_chat(before, "c", {"u"})
      dynamo == S!dynamo_create_chat(before, "c", {"u"}) IN
  /\ sql.answer = "raises" /\ dynamo.answer = "raises"
  /\ S!sql_get_last_read(sql.db, "u", "c") = 1 /\ S!sql_get_last_read(dynamo.db, "u", "c") = 0

\* A message that is sent again is known for ever to SQLite, and to DynamoDB
\* until its entry expires.
ASSUME DedupeEnds ==
  LET once == [sql |-> S!sql_append_message(S!EmptyDb, "c", 1, "k1").db,
               dynamo |-> S!DedupeExpires(S!dynamo_append_message(S!EmptyDb, "c", 1, "k1").db)] IN
  /\ S!sql_append_message(once.sql, "c", 2, "k1").answer = <<"Duplicate", 1>>
  /\ S!dynamo_append_message(once.dynamo, "c", 2, "k1").answer = <<"Appended", 2>>

\* A message reads the same from a row and from the item made of it.
Columns == [message_id : {"1"}, text : {"", "x", "NULL"}, client_ts : {"7", "NULL"}, kind : {"user", "system", "", "NULL"},
            created_at : {"5", "NULL"}]
ASSUME RowsAlike == \A row \in Columns : S!_row_msg(S!_item(row)) = S!_row_msg(row)

=============================================================================
