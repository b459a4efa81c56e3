-------------------------- MODULE ChatOwnerProofs ---------------------------
(***************************************************************************)
(* ChatOwner, for every number of nodes, requests, ChatSeq objects and     *)
(* client_msg_ids: its type invariant, the inductive invariant with the    *)
(* three safety properties it carries, the order of the fan-out, and the   *)
(* implementation of the append-only log.  And NodeLink, for any calls,    *)
(* peers, events and faults: no request waits on a connection that is      *)
(* lost, and a connection carries events without a hole.                   *)
(***************************************************************************)
EXTENDS ChatOwner, NodeLink, SequenceTheorems, TLAPS

-----------------------------------------------------------------------------
(* Lemmas about the operators.                                             *)

\* COALESCE(MAX(..), 0) over the ids 1..n is n.
LEMMA MaxOfInterval ==
  ASSUME NEW n \in Nat, NEW S, S = 1..n
  PROVE  Max(S \cup {0}) = n
<1>1. n \in S \cup {0} /\ \A y \in S \cup {0} : n >= y
  OBVIOUS
<1>2. \A x \in S \cup {0} : (\A y \in S \cup {0} : x >= y) => x = n
  BY <1>1
<1>3. QED
  BY <1>1, <1>2 DEF Max

\* _dedupe_put keeps or evicts the other entries and sets its own.
LEMMA DedupePutEntries ==
  ASSUME NEW table \in [Cmid -> Nat], NEW k \in Cmid, NEW i \in Nat,
         NEW t \in DedupePut(table, k, i)
  PROVE  /\ t \in [Cmid -> Nat]
         /\ \A c \in Cmid : t[c] # 0 => t[c] = IF c = k THEN i ELSE table[c]
<1> DEFINE put == [table EXCEPT ![k] = i]
           entries == {c \in Cmid : put[c] # 0}
<1>1. put \in [Cmid -> Nat] /\ \A c \in Cmid : put[c] = IF c = k THEN i ELSE table[c]
  OBVIOUS
<1>2. CASE t = put
  BY <1>1, <1>2
<1>3. CASE \E c \in entries \ {k} : t = [put EXCEPT ![c] = 0]
  BY <1>1, <1>3
<1>4. QED
  BY <1>2, <1>3 DEF DedupePut

\* MessageIdOf finds the row of a stored client_msg_id.
LEMMA MessageIdOfStored ==
  ASSUME NEW k, StoredCmid(k)
  PROVE  MessageIdOf(k) \in DOMAIN message /\ message[MessageIdOf(k)] = k
BY DEF MessageIdOf, StoredCmid, Range

-----------------------------------------------------------------------------
(* Type correctness.                                                       *)

LEMMA ForgetType ==
  ASSUME TypeOK, NEW n \in Node, Forget(n)
  PROVE  /\ chats' \in [Node -> ChatSeq \cup {NoSeq}]
         /\ dedupe' \in [Node -> [Cmid -> Nat]]
BY DEF TypeOK, Forget, NoDedupe

LEMMA InitType == Init => TypeOK
BY DEF Init, TypeOK, OwnershipInit, OwnershipTypeOK, NoDedupe, Range

\* What an active handler is.
LEMMA ActiveHandler ==
  ASSUME TypeOK, NEW r \in Request, req[r] # Idle
  PROVE  req[r] \in Handler
BY DEF TypeOK

\* The next local state of r is a handler or Idle.
LEMMA SuspendedType ==
  ASSUME TypeOK, NEW r \in Request, NEW v \in Handler \cup {Idle}, Suspended(r, v)
  PROVE  req' \in [Request -> Handler \cup {Idle}]
BY DEF TypeOK, Suspended

LEMMA IdleIsIdle == Idle.at = "idle"
BY DEF Idle

LEMMA TryAppendType ==
  ASSUME TypeOK, NEW r \in Request, req[r] # Idle, NEW turn \in Nat, TryAppend(r, turn)
  PROVE  req' \in [Request -> Handler \cup {Idle}]
<1>1. req[r] \in Handler
  BY ActiveHandler
<1>2. CASE can_serve(req[r].node)
  <2> DEFINE v == [req[r] EXCEPT !.at = "append", !.attempt = turn,
                                 !.mid = head[req[r].seq] + 1]
  <2>1. head[req[r].seq] + 1 \in Nat
    BY <1>1 DEF TypeOK, Handler
  <2>2. v \in Handler
    BY <1>1, <2>1 DEF Handler, InLock
  <2>3. Suspended(r, v)
    BY <1>2 DEF TryAppend
  <2>4. QED
    BY <2>2, <2>3, SuspendedType
<1>3. CASE ~ can_serve(req[r].node)
  BY <1>3, SuspendedType DEF TryAppend, Ends
<1>4. QED
  BY <1>2, <1>3

LEMMA AdmitType ==
  ASSUME TypeOK, NEW r \in Request, NEW v \in Handler, Admit(r, v)
  PROVE  /\ req' \in [Request -> Handler \cup {Idle}]
         /\ acked' \subseteq Cmid \X Nat
<1>1. dedupe[v.node][v.cmid] \in Nat /\ v.cmid \in Cmid
  BY DEF TypeOK, Handler
<1>2. CASE dedupe[v.node][v.cmid] # 0
  <2>1. Replies(v.cmid, dedupe[v.node][v.cmid]) /\ Ends(r)
    BY <1>2 DEF Admit
  <2>2. QED
    BY <1>1, <2>1, SuspendedType DEF Ends, Replies, TypeOK
<1>3. CASE dedupe[v.node][v.cmid] = 0
  <2>1. Suspended(r, [v EXCEPT !.at = "lock"]) /\ acked' = acked
    BY <1>3 DEF Admit
  <2>2. [v EXCEPT !.at = "lock"] \in Handler
    BY DEF Handler
  <2>3. QED
    BY <2>1, <2>2, SuspendedType DEF TypeOK
<1>4. QED
  BY <1>2, <1>3

LEMMA GoesToType ==
  ASSUME TypeOK, NEW r \in Request, req[r] # Idle,
         NEW place \in InLock \cup {"load", "lock", "orphan"}, GoesTo(r, place)
  PROVE  req' \in [Request -> Handler \cup {Idle}]
<1>1. [req[r] EXCEPT !.at = place] \in Handler
  BY ActiveHandler DEF Handler
<1>2. QED
  BY <1>1, SuspendedType DEF GoesTo

LEMMA AnswerType ==
  ASSUME TypeOK, NEW r \in Request, req[r] # Idle,
         NEW result \in {"appended", "duplicate", "conflict", "store_error"},
         result = "duplicate" => StoredCmid(req[r].cmid),
         Answer(r, result)
  PROVE  req' \in [Request -> Handler \cup {Idle}]
<1>1. CASE req[r].at = "orphan"
  BY <1>1, SuspendedType DEF Answer, Ends
<1>2. CASE req[r].at # "orphan" /\ result = "duplicate"
  <2>1. MessageIdOf(req[r].cmid) \in Nat
    BY <1>2, MessageIdOfStored DEF TypeOK
  <2>2. [req[r] EXCEPT !.at = result, !.mid = MessageIdOf(req[r].cmid)] \in Handler
    BY <1>2, <2>1, ActiveHandler DEF Handler, InLock
  <2>3. QED
    BY <1>2, <2>2, SuspendedType DEF Answer
<1>3. CASE req[r].at # "orphan" /\ result # "duplicate"
  BY <1>3, GoesToType DEF Answer, InLock
<1>4. QED
  BY <1>1, <1>2, <1>3

LEMMA RememberType ==
  ASSUME TypeOK, NEW v \in Handler, Remember(v)
  PROVE  dedupe' \in [Node -> [Cmid -> Nat]]
<1>1. v.node \in Node /\ v.cmid \in Cmid /\ v.mid \in Nat
  BY DEF Handler
<1>2. dedupe[v.node] \in [Cmid -> Nat]
  BY <1>1 DEF TypeOK
<1>3. PICK t \in DedupePut(dedupe[v.node], v.cmid, v.mid) :
        dedupe' = [dedupe EXCEPT ![v.node] = t]
  BY DEF Remember
<1>4. t \in [Cmid -> Nat]
  BY <1>1, <1>2, DedupePutEntries
<1>5. QED
  BY <1>3, <1>4 DEF TypeOK

LEMMA MessageType ==
  ASSUME TypeOK, NEW v \in Handler, v.mid # 0,
         message' = IF StoreOutcome(v) = "appended" THEN Insert(v.mid, v.cmid) ELSE message
  PROVE  /\ DOMAIN message' \subseteq Nat \ {0}
         /\ message' = [i \in DOMAIN message' |-> message'[i]]
         /\ Range(message') \subseteq Cmid
<1>1. CASE message' = message
  BY <1>1 DEF TypeOK
<1>2. CASE message' = Insert(v.mid, v.cmid)
  <2>1. v.mid \in Nat \ {0} /\ v.cmid \in Cmid
    BY DEF Handler
  <2>2. DOMAIN message' = DOMAIN message \cup {v.mid}
    BY <1>2 DEF Insert
  <2>3. \A i \in DOMAIN message' : message'[i] \in Cmid
    BY <1>2, <2>1, <2>2 DEF Insert, TypeOK, Range
  <2>4. message' = [i \in DOMAIN message' |-> message'[i]]
    BY <1>2, <2>2 DEF Insert
  <2>5. QED
    BY <2>1, <2>2, <2>3, <2>4 DEF TypeOK, Range
<1>3. QED
  BY <1>1, <1>2

\* A step keeps the types of the ownership part.
LEMMA OwnershipType ==
  ASSUME OwnershipTypeOK, NEW n \in Node,
         ClaimKey(n) \/ Claimed(n) \/ KeyGone \/ SuspensionChanges
           \/ Drop(n) \/ Restart(n)
           \/ UNCHANGED ownershipVars
  PROVE  OwnershipTypeOK'
BY DEF OwnershipTypeOK, ClaimKey, Claimed, KeyGone, SuspensionChanges, Drop,
       Restart, ownershipVars

\* What is left of a handler after a crash is a handler or Idle.
LEMMA AfterCrashType ==
  ASSUME NEW v \in Handler \cup {Idle}, NEW n
  PROVE  AfterCrash(v, n) \in Handler \cup {Idle}
BY DEF AfterCrash, Handler, InLock

\* TypeOK is preserved by every step that starts where the ids are gap-free
\* and the pending writes have an id above 0.
LEMMA TypeStep ==
  ASSUME TypeOK, max_message_id \in Nat, WritesNext, [Next]_vars
  PROVE  TypeOK'
<1> USE DEF seqVars
<1>1. ASSUME NEW n \in Node, ClaimShard(n) \/ DropShard(n)
      PROVE  TypeOK'
  <2>1. OwnershipTypeOK'
    BY <1>1, OwnershipType DEF ClaimShard, DropShard, TypeOK
  <2>2. QED
    BY <1>1, <2>1, ForgetType DEF ClaimShard, DropShard, TypeOK
<1>2. ASSUME NEW n \in Node, CrashNode(n)
      PROVE  TypeOK'
  <2>1. OwnershipTypeOK'
    BY <1>2, OwnershipType DEF CrashNode, TypeOK
  <2>2. req' \in [Request -> Handler \cup {Idle}]
    BY <1>2, AfterCrashType DEF CrashNode, TypeOK
  <2>3. QED
    BY <1>2, <2>1, <2>2 DEF CrashNode, TypeOK, NoDedupe
<1>3. CASE LeaseEvent
  <2>1. OwnershipTypeOK'
    BY <1>3 DEF LeaseEvent, TypeOK, OwnershipTypeOK, KeyGone, ClaimKey, SuspensionChanges
  <2>2. QED
    BY <1>3, <2>1 DEF LeaseEvent, TypeOK
<1>4. ASSUME NEW r \in Request, NEW n \in Node, NEW k \in Cmid, NEW c \in ChatSeq,
             Publish(r, n, k, c)
      PROVE  TypeOK'
  <2> DEFINE v == [at |-> "load", node |-> n, seq |-> c, cmid |-> k,
                   attempt |-> 0, mid |-> 0]
  <2>1. v \in Handler
    BY DEF Handler
  <2>2. /\ req' \in [Request -> Handler \cup {Idle}]
        /\ acked' \subseteq Cmid \X Nat
    <3>1. CASE Admit(r, v)
      BY <2>1, <3>1, AdmitType
    <3>2. CASE Suspended(r, v) /\ acked' = acked
      BY <2>1, <3>2, SuspendedType DEF TypeOK
    <3>3. QED
      BY <1>4, <3>1, <3>2 DEF Publish
  <2>3. /\ chats' \in [Node -> ChatSeq \cup {NoSeq}]
        /\ head' \in [ChatSeq -> Nat]
        /\ loaded' \in [ChatSeq -> BOOLEAN]
    <3>1. \/ UNCHANGED <<chats, head, loaded>>
          \/ /\ chats' = [chats EXCEPT ![n] = c]
             /\ head' = [head EXCEPT ![c] = 0]
             /\ loaded' = [loaded EXCEPT ![c] = FALSE]
      BY <1>4 DEF Publish
    <3>2. /\ chats \in [Node -> ChatSeq \cup {NoSeq}]
          /\ head \in [ChatSeq -> Nat]
          /\ loaded \in [ChatSeq -> BOOLEAN]
      BY DEF TypeOK
    <3>3. loaded' \in [ChatSeq -> BOOLEAN]
      BY <3>1, <3>2, Zenon
    <3>4. QED
      BY <3>1, <3>2, <3>3
  <2>4. OwnershipTypeOK' /\ message' = message /\ dedupe' = dedupe
    BY <1>4 DEF Publish, TypeOK, OwnershipTypeOK, ownershipVars
  <2>5. QED
    BY <2>2, <2>3, <2>4 DEF TypeOK
<1>5. ASSUME NEW r \in Request, LoadChat(r)
      PROVE  TypeOK'
  <2>1. req[r] \in Handler
    BY <1>5, ActiveHandler, IdleIsIdle DEF LoadChat
  <2>2. /\ req' \in [Request -> Handler \cup {Idle}]
        /\ acked' \subseteq Cmid \X Nat
    BY <1>5, <2>1, AdmitType DEF LoadChat
  <2>3. head' \in [ChatSeq -> Nat] /\ loaded' \in [ChatSeq -> BOOLEAN]
    BY <1>5, <2>1 DEF LoadChat, TypeOK, Handler
  <2>4. QED
    BY <1>5, <2>2, <2>3 DEF LoadChat, TypeOK, OwnershipTypeOK, ownershipVars
<1>6. ASSUME NEW r \in Request, Acquire(r) \/ VerifiedOwner(r)
      PROVE  TypeOK'
  <2>1. req[r] \in Handler
    BY <1>6, ActiveHandler, IdleIsIdle DEF Acquire, VerifiedOwner
  <2>2. req' \in [Request -> Handler \cup {Idle}]
    <3>1. CASE Ends(r)
      BY <3>1, SuspendedType DEF Ends
    <3>2. ASSUME NEW turn \in Nat, TryAppend(r, turn)
          PROVE  req' \in [Request -> Handler \cup {Idle}]
      BY <3>2, <1>6, IdleIsIdle, TryAppendType DEF Acquire, VerifiedOwner
    <3>3. 1 \in Nat /\ req[r].attempt + 1 \in Nat
      BY <2>1 DEF Handler
    <3>4. QED
      BY <1>6, <3>1, <3>2, <3>3 DEF Acquire, VerifiedOwner
  <2>3. QED
    BY <1>6, <2>2 DEF Acquire, VerifiedOwner, TypeOK, OwnershipTypeOK, ownershipVars
<1>7. ASSUME NEW r \in Request,
             LoadFails(r) \/ StoreErrorReply(r) \/ ConflictHandlingFails(r)
      PROVE  TypeOK'
  <2>1. req' \in [Request -> Handler \cup {Idle}]
    BY <1>7, SuspendedType DEF LoadFails, StoreErrorReply, ConflictHandlingFails, Ends
  <2>2. QED
    BY <1>7, <2>1
       DEF LoadFails, StoreErrorReply, ConflictHandlingFails, TypeOK,
           OwnershipTypeOK, ownershipVars
<1>8. ASSUME NEW r \in Request, StoreAppend(r)
      PROVE  TypeOK'
  <2>1. req[r] # Idle /\ req[r] \in Handler
    BY <1>8, ActiveHandler, IdleIsIdle DEF StoreAppend
  <2>2. req' \in [Request -> Handler \cup {Idle}]
    <3>1. ASSUME NEW result \in {StoreOutcome(req[r]), "store_error"}, Answer(r, result)
          PROVE  req' \in [Request -> Handler \cup {Idle}]
      BY <2>1, <3>1, AnswerType DEF StoreOutcome
    <3>2. QED
      BY <1>8, <3>1 DEF StoreAppend
  <2>3. req[r].mid # 0
    BY <1>8 DEF WritesNext, StoreAppend
  <2>4. QED
    BY <1>8, <2>1, <2>2, <2>3, MessageType
       DEF StoreAppend, TypeOK, OwnershipTypeOK, ownershipVars
<1>9. ASSUME NEW r \in Request, StoreRefuses(r)
      PROVE  TypeOK'
  <2>1. req' \in [Request -> Handler \cup {Idle}]
    BY <1>9, IdleIsIdle, AnswerType DEF StoreRefuses
  <2>2. QED
    BY <1>9, <2>1 DEF StoreRefuses, TypeOK, OwnershipTypeOK, ownershipVars
<1>10. ASSUME NEW r \in Request, Appended(r) \/ Duplicate(r)
       PROVE  TypeOK'
  <2>1. req[r] \in Handler
    BY <1>10, ActiveHandler, IdleIsIdle DEF Appended, Duplicate
  <2>2. dedupe' \in [Node -> [Cmid -> Nat]]
    BY <1>10, <2>1, RememberType DEF Appended, Duplicate
  <2>3. req' \in [Request -> Handler \cup {Idle}]
    BY <1>10, SuspendedType DEF Appended, Duplicate, Ends
  <2>4. head' \in [ChatSeq -> Nat] /\ acked' \subseteq Cmid \X Nat
    BY <1>10, <2>1 DEF Appended, Duplicate, Replies, TypeOK, Handler
  <2>5. QED
    BY <1>10, <2>2, <2>3, <2>4
       DEF Appended, Duplicate, TypeOK, OwnershipTypeOK, ownershipVars
<1>11. ASSUME NEW r \in Request, RereadHead(r)
       PROVE  TypeOK'
  <2>1. req' \in [Request -> Handler \cup {Idle}]
    BY <1>11, IdleIsIdle, GoesToType DEF RereadHead, InLock
  <2>2. head' \in [ChatSeq -> Nat]
    BY <1>11 DEF RereadHead, TypeOK
  <2>3. QED
    BY <1>11, <2>1, <2>2 DEF RereadHead, TypeOK, OwnershipTypeOK, ownershipVars
<1>12. ASSUME NEW r \in Request, NotOwner(r)
       PROVE  TypeOK'
  <2>1. req[r] \in Handler
    BY <1>12, ActiveHandler, IdleIsIdle DEF NotOwner
  <2>2. req[r].node \in Node
    BY <2>1 DEF Handler
  <2>3. OwnershipTypeOK'
    BY <1>12, <2>2, OwnershipType DEF NotOwner, TypeOK
  <2>4. req' \in [Request -> Handler \cup {Idle}]
    BY <1>12, SuspendedType DEF NotOwner, Ends
  <2>5. QED
    BY <1>12, <2>2, <2>3, <2>4, ForgetType DEF NotOwner, TypeOK
<1>13. CASE UNCHANGED vars
  BY <1>13 DEF vars, TypeOK, OwnershipTypeOK, ownershipVars
<1>14. QED
  BY <1>1, <1>2, <1>3, <1>4, <1>5, <1>6, <1>7, <1>8, <1>9, <1>10, <1>11, <1>12, <1>13
     DEF Next, StoreStep, Resumes

-----------------------------------------------------------------------------
(* The inductive invariant.                                                *)

IInv == TypeOK /\ max_message_id \in Nat /\ Inductive

\* The table only grows: every row stays, and the largest id does not fall.
Grows ==
  /\ max_message_id' \in Nat /\ max_message_id <= max_message_id'
  /\ Contiguous' /\ StoredOnce'
  /\ \A i \in DOMAIN message : i \in DOMAIN message' /\ message'[i] = message[i]

LEMMA UnchangedGrows ==
  ASSUME IInv, message' = message
  PROVE  Grows /\ max_message_id' = max_message_id
BY DEF IInv, Inductive, Grows, max_message_id, Contiguous, StoredOnce

\* append_message adds the row max + 1 or nothing; afterwards the row that
\* the outcome speaks of is in the table.
LEMMA StoreEffect ==
  ASSUME IInv, NEW r \in Request, req[r].at \in {"append", "orphan"},
         message' = IF StoreOutcome(req[r]) = "appended"
                    THEN Insert(req[r].mid, req[r].cmid) ELSE message
  PROVE  /\ Grows
         /\ StoreOutcome(req[r]) = "appended" =>
              /\ req[r].mid \in DOMAIN message'
              /\ message'[req[r].mid] = req[r].cmid
         /\ StoreOutcome(req[r]) = "duplicate" =>
              /\ MessageIdOf(req[r].cmid) \in DOMAIN message'
              /\ message'[MessageIdOf(req[r].cmid)] = req[r].cmid
<1> DEFINE v == req[r]
           n == max_message_id
<1>1. n \in Nat /\ DOMAIN message = 1..n
  BY DEF IInv, Inductive, Contiguous
<1>2. CASE StoreOutcome(v) = "appended"
  <2>1. ~ StoredCmid(v.cmid) /\ v.mid \notin DOMAIN message
    BY <1>2 DEF StoreOutcome
  <2>2. v.mid = n + 1
    <3>1. v.mid \in 1 .. n + 1
      BY DEF IInv, Inductive, WritesNext
    <3>2. QED
      BY <1>1, <2>1, <3>1
  <2>3. message' = Insert(v.mid, v.cmid)
    BY <1>2
  <2>4. /\ DOMAIN message' = 1 .. n + 1
        /\ message'[n + 1] = v.cmid
        /\ \A i \in 1..n : message'[i] = message[i]
    <3>1. message' = [j \in DOMAIN message \cup {n + 1} |->
                        IF j = n + 1 THEN v.cmid ELSE message[j]]
      BY <2>2, <2>3 DEF Insert
    <3>2. DOMAIN message \cup {n + 1} = 1 .. n + 1 /\ n + 1 \notin 1..n
      BY <1>1
    <3>3. QED
      BY <1>1, <3>1, <3>2
  <2>5. max_message_id' = n + 1
    BY <1>1, <2>4, MaxOfInterval DEF max_message_id
  <2>6. StoredOnce'
    <3>1. \A i \in 1..n : message[i] # v.cmid
      BY <1>1, <2>1 DEF StoredCmid, Range
    <3>2. \A i, j \in 1..n : message[i] = message[j] => i = j
      BY <1>1 DEF IInv, Inductive, StoredOnce, IsInjective
    <3>3. \A i, j \in 1 .. n + 1 : message'[i] = message'[j] => i = j
      BY <1>1, <2>4, <3>1, <3>2
    <3>4. QED
      BY <2>4, <3>3 DEF StoredOnce, IsInjective
  <2>7. QED
    BY <1>1, <1>2, <2>2, <2>4, <2>5, <2>6 DEF Grows, Contiguous
<1>3. CASE StoreOutcome(v) # "appended"
  <2>1. Grows /\ message' = message
    BY <1>3, UnchangedGrows
  <2>2. StoreOutcome(v) = "duplicate" => StoredCmid(v.cmid)
    BY DEF StoreOutcome
  <2>3. QED
    BY <1>3, <2>1, <2>2, MessageIdOfStored
<1>4. QED
  BY <1>2, <1>3

\* Only the handler of r moves.
LEMMA OneMoves ==
  ASSUME TypeOK, NEW r \in Request, NEW v, Suspended(r, v)
  PROVE  req'[r] = v /\ \A p \in Request : p # r => req'[p] = req[p]
BY DEF TypeOK, Suspended

\* What a step owes to the handlers that do not move: the table grows, and
\* the head of a ChatSeq whose lock is taken stays, or moves with its owner.
LEMMA HandlersStand ==
  ASSUME IInv, Grows, NEW r \in Request,
         \A p \in Request : p # r => req'[p] = req[p],
         \A p \in Request : p # r /\ req[p].at \in {"append", "appended"} =>
            head'[req[p].seq] = head[req[p].seq]
  PROVE  \A p \in Request : p # r =>
           /\ req'[p].at \in {"append", "orphan"} =>
                req'[p].mid \in 1 .. max_message_id' + 1
           /\ req'[p].at \in {"appended", "duplicate"} =>
                req'[p].mid \in DOMAIN message' /\ message'[req'[p].mid] = req'[p].cmid
           /\ req'[p].at \in {"append", "appended"} =>
                req'[p].mid = head'[req'[p].seq] + 1
<1> TAKE p \in Request
<1> HAVE p # r
<1>1. req'[p] = req[p]
  OBVIOUS
<1>2. req[p].at \in {"append", "orphan"} => req[p].mid \in 1 .. max_message_id' + 1
  BY DEF IInv, Inductive, WritesNext, Grows
<1>3. req[p].at \in {"appended", "duplicate"} =>
        req[p].mid \in DOMAIN message' /\ message'[req[p].mid] = req[p].cmid
  BY DEF IInv, Inductive, FoundIsStored, Grows
<1>4. req[p].at \in {"append", "appended"} => req[p].mid = head'[req[p].seq] + 1
  BY DEF IInv, Inductive, HeadFrozen
<1>5. QED
  BY <1>1, <1>2, <1>3, <1>4

\* The request part of the invariant, after a step of the handler of r.
LEMMA HandlersStep ==
  ASSUME IInv, Grows, NEW r \in Request, NEW v, Suspended(r, v),
         \A p \in Request : p # r /\ req[p].at \in {"append", "appended"} =>
            head'[req[p].seq] = head[req[p].seq],
         v.at \in {"append", "orphan"} => v.mid \in 1 .. max_message_id' + 1,
         v.at \in {"appended", "duplicate"} =>
            v.mid \in DOMAIN message' /\ message'[v.mid] = v.cmid,
         v.at \in {"append", "appended"} => v.mid = head'[v.seq] + 1,
         v.at \in InLock =>
            \/ req[r].at \in InLock /\ req[r].seq = v.seq
            \/ ~ Locked(v.seq)
  PROVE  WritesNext' /\ FoundIsStored' /\ HeadFrozen' /\ OneInLock'
<1>1. req'[r] = v /\ \A p \in Request : p # r => req'[p] = req[p]
  BY OneMoves DEF IInv
<1>2. WritesNext' /\ FoundIsStored' /\ HeadFrozen'
  BY <1>1, HandlersStand DEF WritesNext, FoundIsStored, HeadFrozen
<1>3. OneInLock'
  BY <1>1 DEF OneInLock, IInv, Inductive, Locked
<1>4. QED
  BY <1>2, <1>3

\* What a step owes to the acknowledgements and to the dedupe tables.
LEMMA RecordsStand ==
  ASSUME IInv, Grows
  PROVE  /\ acked' = acked => AckedIsStored'
         /\ dedupe' = dedupe => DedupeIsStored'
         /\ head' = head => HeadBehind'
<1>1. acked' = acked => AckedIsStored'
  BY DEF IInv, Inductive, AckedIsStored, Grows
<1>2. dedupe' = dedupe => DedupeIsStored'
  BY DEF IInv, Inductive, DedupeIsStored, Grows
<1>3. head' = head => HeadBehind'
  BY DEF IInv, Inductive, HeadBehind, Grows, TypeOK
<1>4. QED
  BY <1>1, <1>2, <1>3

\* A reply that names a stored row keeps AckedIsStored.
LEMMA ReplyStored ==
  ASSUME IInv, Grows, NEW k, NEW i \in DOMAIN message', message'[i] = k, Replies(k, i)
  PROVE  AckedIsStored'
BY DEF IInv, Inductive, AckedIsStored, Grows, Replies

\* So does a dedupe entry for a stored row.
LEMMA RememberStored ==
  ASSUME IInv, Grows, NEW v \in Handler,
         v.mid \in DOMAIN message', message'[v.mid] = v.cmid, Remember(v)
  PROVE  DedupeIsStored'
<1>1. v.node \in Node /\ v.cmid \in Cmid /\ v.mid \in Nat
  BY DEF Handler
<1>2. dedupe \in [Node -> [Cmid -> Nat]]
  BY DEF IInv, TypeOK
<1>3. PICK t \in DedupePut(dedupe[v.node], v.cmid, v.mid) :
        dedupe' = [dedupe EXCEPT ![v.node] = t]
  BY DEF Remember
<1>4. \A c \in Cmid : t[c] # 0 =>
        t[c] = IF c = v.cmid THEN v.mid ELSE dedupe[v.node][c]
  BY <1>1, <1>2, DedupePutEntries
<1>5. \A n \in Node, c \in Cmid : dedupe[n][c] # 0 =>
        dedupe[n][c] \in DOMAIN message' /\ message'[dedupe[n][c]] = c
  BY DEF IInv, Inductive, DedupeIsStored, Grows
<1>6. QED
  BY <1>1, <1>2, <1>3, <1>4, <1>5 DEF DedupeIsStored

\* Forgetting empties a table or leaves it.
LEMMA ForgetStored ==
  ASSUME IInv, Grows, NEW n \in Node, Forget(n)
  PROVE  DedupeIsStored'
BY DEF IInv, Inductive, TypeOK, DedupeIsStored, Grows, Forget, NoDedupe

\* What a step has to establish.
Kept ==
  /\ Grows
  /\ AckedIsStored' /\ DedupeIsStored' /\ HeadBehind'
  /\ WritesNext' /\ FoundIsStored' /\ HeadFrozen' /\ OneInLock'

\* Handlers stand still, heads too: claims, drops, lease events.
LEMMA NobodyMoves ==
  ASSUME IInv, UNCHANGED <<message, head, req, acked>>, DedupeIsStored'
  PROVE  Kept
<1>1. Grows
  BY UnchangedGrows
<1>2. AckedIsStored' /\ HeadBehind'
  BY <1>1, RecordsStand
<1>3. WritesNext' /\ FoundIsStored' /\ HeadFrozen' /\ OneInLock'
  BY <1>1, UnchangedGrows
     DEF IInv, Inductive, WritesNext, FoundIsStored, HeadFrozen, OneInLock
<1>4. QED
  BY <1>1, <1>2, <1>3 DEF Kept

LEMMA CrashKept ==
  ASSUME IInv, NEW n \in Node, CrashNode(n)
  PROVE  Kept
<1>1. Grows /\ max_message_id' = max_message_id /\ message' = message
  BY UnchangedGrows DEF CrashNode
<1>2. AckedIsStored' /\ HeadBehind' /\ head' = head
  BY <1>1, RecordsStand DEF CrashNode, seqVars
<1>3. DedupeIsStored'
  BY <1>1 DEF CrashNode, IInv, Inductive, TypeOK, DedupeIsStored, NoDedupe
<1>4. \A r \in Request :
        \/ req'[r] = req[r]
        \/ req'[r].at = "idle"
        \/ req[r].at = "append" /\ req'[r] = [req[r] EXCEPT !.at = "orphan"]
  BY IdleIsIdle DEF CrashNode, AfterCrash
<1>5. \A r \in Request : req[r].at = "append" => req[r] \in Handler
  BY IdleIsIdle, ActiveHandler DEF IInv
<1>6. \A r \in Request : req'[r].at \in InLock => req'[r] = req[r]
  BY <1>4, <1>5 DEF InLock, Handler
<1>7. WritesNext'
  BY <1>1, <1>4, <1>5 DEF WritesNext, IInv, Inductive, Handler
<1>8. FoundIsStored' /\ HeadFrozen' /\ OneInLock'
  BY <1>1, <1>2, <1>6 DEF FoundIsStored, HeadFrozen, OneInLock, IInv, Inductive, InLock
<1>9. QED
  BY <1>1, <1>2, <1>3, <1>7, <1>8 DEF Kept

\* A handler stays outside of the lock, leaves it or ends, and no head moves
\* that another handler relies on.
LEMMA OutsideKept ==
  ASSUME IInv, NEW r \in Request, NEW v,
         v.at \in {"load", "lock", "idle"}, Suspended(r, v), message' = message,
         \A p \in Request : p # r /\ req[p].at \in {"append", "appended"} =>
            head'[req[p].seq] = head[req[p].seq],
         AckedIsStored', DedupeIsStored', HeadBehind'
  PROVE  Kept
<1>1. Grows
  BY UnchangedGrows
<1>2. v.at \notin InLock \cup {"orphan"}
  BY DEF InLock
<1>3. WritesNext' /\ FoundIsStored' /\ HeadFrozen' /\ OneInLock'
  BY <1>1, <1>2, HandlersStep DEF InLock
<1>4. QED
  BY <1>1, <1>3 DEF Kept

\* The handler ends and only replies, dedupe and ownership change.
LEMMA EndsKept ==
  ASSUME IInv, NEW r \in Request, Ends(r), UNCHANGED <<message, head>>,
         AckedIsStored', DedupeIsStored'
  PROVE  Kept
<1>1. HeadBehind'
  BY UnchangedGrows, RecordsStand
<1>2. \A p \in Request : p # r /\ req[p].at \in {"append", "appended"} =>
         head'[req[p].seq] = head[req[p].seq]
  OBVIOUS
<1>3. QED
  BY <1>1, <1>2, IdleIsIdle, OutsideKept DEF Ends

LEMMA AdmitKept ==
  ASSUME IInv, NEW r \in Request, NEW v \in Handler, Admit(r, v),
         UNCHANGED <<message, dedupe>>,
         \A p \in Request : p # r /\ req[p].at \in {"append", "appended"} =>
            head'[req[p].seq] = head[req[p].seq],
         HeadBehind'
  PROVE  Kept
<1>1. Grows /\ DedupeIsStored'
  BY UnchangedGrows, RecordsStand
<1>2. v.node \in Node /\ v.cmid \in Cmid
  BY DEF Handler
<1>3. CASE dedupe[v.node][v.cmid] # 0
  <2>1. Ends(r) /\ Replies(v.cmid, dedupe[v.node][v.cmid])
    BY <1>3 DEF Admit
  <2>2. /\ dedupe[v.node][v.cmid] \in DOMAIN message'
        /\ message'[dedupe[v.node][v.cmid]] = v.cmid
    BY <1>2, <1>3 DEF IInv, Inductive, DedupeIsStored
  <2>3. AckedIsStored'
    BY <1>1, <2>1, <2>2, ReplyStored
  <2>4. QED
    BY <1>1, <2>1, <2>3, IdleIsIdle, OutsideKept DEF Ends
<1>4. CASE dedupe[v.node][v.cmid] = 0
  <2> DEFINE w == [v EXCEPT !.at = "lock"]
  <2>1. Suspended(r, w) /\ acked' = acked
    BY <1>4 DEF Admit
  <2>2. w.at = "lock"
    BY DEF Handler
  <2>3. AckedIsStored'
    BY <1>1, <2>1, RecordsStand
  <2> HIDE DEF w
  <2>4. QED
    BY <1>1, <2>1, <2>2, <2>3, OutsideKept
<1>5. QED
  BY <1>3, <1>4

LEMMA PublishKept ==
  ASSUME IInv, NEW r \in Request, NEW n \in Node, NEW k \in Cmid, NEW c \in ChatSeq,
         Publish(r, n, k, c)
  PROVE  Kept
<1> DEFINE v == [at |-> "load", node |-> n, seq |-> c, cmid |-> k,
                 attempt |-> 0, mid |-> 0]
<1>1. v \in Handler /\ v.at = "load"
  BY DEF Handler
<1>2. Grows /\ message' = message /\ dedupe' = dedupe /\ DedupeIsStored'
  BY UnchangedGrows, RecordsStand DEF Publish
<1>3. /\ \A p \in Request : p # r /\ req[p].at \in {"append", "appended"} =>
            head'[req[p].seq] = head[req[p].seq]
      /\ HeadBehind'
  <2>1. CASE head' = head
    BY <2>1, <1>2, RecordsStand
  <2>2. CASE Fresh(c) /\ head' = [head EXCEPT ![c] = 0]
    <3>1. \A p \in Request : req[p].at \in {"append", "appended"} => req[p].seq # c
      BY <2>2, IdleIsIdle DEF Fresh
    <3>2. \A p \in Request : req[p].at \in {"append", "appended"} => req[p].seq \in ChatSeq
      BY IdleIsIdle, ActiveHandler DEF IInv, Handler
    <3>3. HeadBehind'
      BY <1>2, <2>2, UnchangedGrows DEF HeadBehind, IInv, Inductive, TypeOK
    <3>4. QED
      BY <2>2, <3>1, <3>2, <3>3 DEF IInv, TypeOK
  <2>3. QED
    BY <2>1, <2>2 DEF Publish, seqVars
<1>4. CASE Admit(r, v)
  BY <1>1, <1>2, <1>3, <1>4, AdmitKept
<1>5. CASE Suspended(r, v) /\ acked' = acked
  BY <1>1, <1>2, <1>3, <1>5, RecordsStand, OutsideKept
<1>6. QED
  BY <1>4, <1>5 DEF Publish

LEMMA LoadChatKept ==
  ASSUME IInv, NEW r \in Request, LoadChat(r)
  PROVE  Kept
<1>1. req[r] \in Handler
  BY IdleIsIdle, ActiveHandler DEF LoadChat, IInv
<1>2. Grows
  BY UnchangedGrows DEF LoadChat
<1>3. /\ \A p \in Request : p # r /\ req[p].at \in {"append", "appended"} =>
            head'[req[p].seq] = head[req[p].seq]
      /\ HeadBehind'
  <2>1. CASE head' = head
    BY <2>1, <1>2, RecordsStand
  <2>2. CASE head' = [head EXCEPT ![req[r].seq] = max_message_id]
    <3>1. \A p \in Request : req[p].at \in {"append", "appended"} => req[p].seq # req[r].seq
      BY DEF LoadChat, Locked, InLock
    <3>2. \A p \in Request : req[p].at \in {"append", "appended"} => req[p].seq \in ChatSeq
      BY IdleIsIdle, ActiveHandler DEF IInv, Handler
    <3>3. HeadBehind'
      BY <2>2, UnchangedGrows DEF LoadChat, HeadBehind, IInv, Inductive, TypeOK
    <3>4. QED
      BY <2>2, <3>1, <3>2, <3>3 DEF IInv, TypeOK
  <2>3. QED
    BY <2>1, <2>2 DEF LoadChat, seqVars
<1>4. QED
  BY <1>1, <1>2, <1>3, AdmitKept DEF LoadChat

\* A turn of the append loop by a handler that has, or now takes, the lock.
LEMMA TryAppendKept ==
  ASSUME IInv, NEW r \in Request, req[r] # Idle, NEW turn, TryAppend(r, turn),
         req[r].at \in InLock \/ ~ Locked(req[r].seq),
         UNCHANGED <<message, dedupe, head, acked>>
  PROVE  Kept
<1>1. req[r] \in Handler
  BY ActiveHandler DEF IInv
<1>2. Grows /\ AckedIsStored' /\ DedupeIsStored' /\ HeadBehind'
  BY UnchangedGrows, RecordsStand
<1>3. CASE Ends(r)
  BY <1>2, <1>3, EndsKept
<1>4. CASE can_serve(req[r].node)
  <2> DEFINE v == [req[r] EXCEPT !.at = "append", !.attempt = turn,
                                 !.mid = head[req[r].seq] + 1]
  <2>1. Suspended(r, v)
    BY <1>4 DEF TryAppend
  <2>2. v.at = "append" /\ v.seq = req[r].seq /\ v.mid = head[req[r].seq] + 1
    BY <1>1 DEF Handler
  <2>3. v.mid \in 1 .. max_message_id' + 1
    BY <1>1, <2>2, UnchangedGrows DEF IInv, Inductive, HeadBehind, TypeOK, Handler
  <2>4. WritesNext' /\ FoundIsStored' /\ HeadFrozen' /\ OneInLock'
    BY <1>2, <2>1, <2>2, <2>3, HandlersStep
  <2>5. QED
    BY <1>2, <2>4 DEF Kept
<1>5. QED
  BY <1>3, <1>4 DEF TryAppend

\* A handler goes on inside the lock; the heads stay or only its own moves.
LEMMA InsideKept ==
  ASSUME IInv, NEW r \in Request, req[r].at \in InLock, NEW v, Suspended(r, v),
         v.seq = req[r].seq, v.at \in {"appended", "duplicate", "conflict", "store_error", "verify"},
         Grows,
         v.at \in {"appended", "duplicate"} =>
            v.mid \in DOMAIN message' /\ message'[v.mid] = v.cmid,
         v.at = "appended" => v.mid = head'[v.seq] + 1,
         \A p \in Request : p # r /\ req[p].at \in {"append", "appended"} =>
            head'[req[p].seq] = head[req[p].seq],
         HeadBehind', UNCHANGED <<dedupe, acked>>
  PROVE  Kept
<1>1. AckedIsStored' /\ DedupeIsStored'
  BY RecordsStand
<1>2. v.at \notin {"append", "orphan"}
  OBVIOUS
<1>3. WritesNext' /\ FoundIsStored' /\ HeadFrozen' /\ OneInLock'
  BY <1>2, HandlersStep
<1>4. QED
  BY <1>1, <1>3 DEF Kept

\* The store's answer, with what StoreEffect says of the table.
LEMMA AnswerKept ==
  ASSUME IInv, NEW r \in Request, req[r].at \in {"append", "orphan"},
         NEW result \in {"appended", "duplicate", "conflict", "store_error"},
         Answer(r, result), Grows, UNCHANGED <<dedupe, acked, head>>,
         result = "appended" =>
            req[r].mid \in DOMAIN message' /\ message'[req[r].mid] = req[r].cmid,
         result = "duplicate" =>
            /\ MessageIdOf(req[r].cmid) \in DOMAIN message'
            /\ message'[MessageIdOf(req[r].cmid)] = req[r].cmid
  PROVE  Kept
<1>1. req[r] \in Handler
  BY IdleIsIdle, ActiveHandler DEF IInv
<1>2. HeadBehind' /\ AckedIsStored' /\ DedupeIsStored'
  BY RecordsStand
<1>3. CASE req[r].at = "orphan"
  <2>1. Suspended(r, Idle) /\ Idle.at \notin InLock \cup {"orphan"}
    BY <1>3, IdleIsIdle DEF Answer, Ends, InLock
  <2>2. WritesNext' /\ FoundIsStored' /\ HeadFrozen' /\ OneInLock'
    BY <2>1, HandlersStep DEF InLock
  <2>3. QED
    BY <1>2, <2>2 DEF Kept
<1>4. CASE req[r].at = "append" /\ result = "duplicate"
  <2> DEFINE v == [req[r] EXCEPT !.at = result, !.mid = MessageIdOf(req[r].cmid)]
  <2>1. Suspended(r, v)
    BY <1>4 DEF Answer
  <2>2. /\ v.at = "duplicate" /\ v.seq = req[r].seq
        /\ v.mid = MessageIdOf(req[r].cmid) /\ v.cmid = req[r].cmid
    BY <1>1, <1>4 DEF Handler
  <2> HIDE DEF v
  <2>3. QED
    BY <1>2, <1>4, <2>1, <2>2, InsideKept DEF InLock
<1>5. CASE req[r].at = "append" /\ result # "duplicate"
  <2> DEFINE v == [req[r] EXCEPT !.at = result]
  <2>1. Suspended(r, v)
    BY <1>5 DEF Answer, GoesTo
  <2>2. /\ v.at = result /\ v.seq = req[r].seq
        /\ v.mid = req[r].mid /\ v.cmid = req[r].cmid
    BY <1>1, <1>5 DEF Handler
  <2>3. req[r].mid = head'[req[r].seq] + 1
    BY <1>5 DEF IInv, Inductive, HeadFrozen
  <2> HIDE DEF v
  <2>4. QED
    BY <1>2, <1>5, <2>1, <2>2, <2>3, InsideKept DEF InLock
<1>6. QED
  BY <1>3, <1>4, <1>5

LEMMA StoreKept ==
  ASSUME IInv, NEW r \in Request, StoreStep(r)
  PROVE  Kept
<1>1. CASE StoreAppend(r)
  <2>1. Grows
    BY <1>1, StoreEffect DEF StoreAppend
  <2>2. ASSUME NEW result \in {StoreOutcome(req[r]), "store_error"}, Answer(r, result)
        PROVE  Kept
    <3>1. result \in {"appended", "duplicate", "conflict", "store_error"}
      BY DEF StoreOutcome
    <3>2. QED
      BY <1>1, <2>1, <2>2, <3>1, StoreEffect, AnswerKept DEF StoreAppend, seqVars
  <2>3. QED
    BY <1>1, <2>2 DEF StoreAppend
<1>2. CASE StoreRefuses(r)
  BY <1>2, UnchangedGrows, AnswerKept DEF StoreRefuses, seqVars
<1>3. QED
  BY <1>1, <1>2 DEF StoreStep

\* The handler inside the lock is the only one that relies on its head.
LEMMA OthersElsewhere ==
  ASSUME IInv, NEW r \in Request, req[r].at \in InLock,
         NEW h, head' = [head EXCEPT ![req[r].seq] = h]
  PROVE  /\ \A p \in Request : p # r /\ req[p].at \in {"append", "appended"} =>
              head'[req[p].seq] = head[req[p].seq]
         /\ head'[req[r].seq] = h
<1>1. \A p \in Request : p # r /\ req[p].at \in {"append", "appended"} =>
        req[p].seq # req[r].seq
  BY DEF IInv, Inductive, OneInLock, InLock
<1>2. \A p \in Request : req[p].at \in InLock => req[p].seq \in ChatSeq
  BY IdleIsIdle, ActiveHandler DEF IInv, Handler, InLock
<1>3. QED
  BY <1>1, <1>2 DEF IInv, TypeOK, InLock

LEMMA FoundKept ==
  ASSUME IInv, NEW r \in Request, Appended(r) \/ Duplicate(r)
  PROVE  Kept
<1>1. req[r] \in Handler /\ req[r].at \in {"appended", "duplicate"}
  BY IdleIsIdle, ActiveHandler DEF Appended, Duplicate, IInv
<1>2. Grows
  BY UnchangedGrows DEF Appended, Duplicate
<1>3. req[r].mid \in DOMAIN message' /\ message'[req[r].mid] = req[r].cmid
  BY <1>1 DEF IInv, Inductive, FoundIsStored, Appended, Duplicate
<1>4. AckedIsStored' /\ DedupeIsStored'
  BY <1>1, <1>2, <1>3, ReplyStored, RememberStored DEF Appended, Duplicate
<1>5. PICK h \in Nat : head' = [head EXCEPT ![req[r].seq] = h] /\ h <= max_message_id
  <2>1. req[r].mid \in Nat /\ req[r].mid <= max_message_id
    BY <1>1, <1>3 DEF IInv, Inductive, Contiguous, Handler, Appended, Duplicate
  <2>2. head[req[r].seq] \in Nat /\ head[req[r].seq] <= max_message_id
    BY <1>1 DEF IInv, Inductive, HeadBehind, TypeOK, Handler
  <2>3. QED
    BY <2>1, <2>2 DEF Appended, Duplicate
<1>6. \A p \in Request : p # r /\ req[p].at \in {"append", "appended"} =>
         head'[req[p].seq] = head[req[p].seq]
  BY <1>1, <1>5, OthersElsewhere DEF InLock
<1>7. HeadBehind'
  BY <1>2, <1>5 DEF HeadBehind, IInv, Inductive, TypeOK, Grows
<1>8. QED
  BY <1>4, <1>6, <1>7, IdleIsIdle, OutsideKept DEF Appended, Duplicate, Ends

LEMMA RereadKept ==
  ASSUME IInv, NEW r \in Request, RereadHead(r)
  PROVE  Kept
<1> DEFINE v == [req[r] EXCEPT !.at = "verify"]
<1>1. req[r] \in Handler /\ req[r].at \in InLock
  BY IdleIsIdle, ActiveHandler DEF RereadHead, IInv, InLock
<1>2. Grows
  BY UnchangedGrows DEF RereadHead
<1>3. Suspended(r, v) /\ v.at = "verify" /\ v.seq = req[r].seq
  BY <1>1 DEF RereadHead, GoesTo, Handler
<1>4. \A p \in Request : p # r /\ req[p].at \in {"append", "appended"} =>
         head'[req[p].seq] = head[req[p].seq]
  BY <1>1, OthersElsewhere DEF RereadHead
<1>5. HeadBehind'
  BY UnchangedGrows DEF RereadHead, HeadBehind, IInv, Inductive, TypeOK
<1> HIDE DEF v
<1>6. QED
  BY <1>1, <1>2, <1>3, <1>4, <1>5, InsideKept DEF RereadHead

\* Every step preserves the invariant, one action at a time.
LEMMA NextKept ==
  ASSUME IInv, [Next]_vars
  PROVE  Kept
<1> USE DEF seqVars
<1>1. ASSUME NEW n \in Node, ClaimShard(n) \/ DropShard(n)
      PROVE  Kept
  BY <1>1, UnchangedGrows, ForgetStored, NobodyMoves DEF ClaimShard, DropShard
<1>2. ASSUME NEW n \in Node, CrashNode(n)
      PROVE  Kept
  BY <1>2, CrashKept
<1>3. CASE LeaseEvent
  BY <1>3, UnchangedGrows, RecordsStand, NobodyMoves DEF LeaseEvent
<1>4. ASSUME NEW r \in Request, NEW n \in Node, NEW k \in Cmid, NEW c \in ChatSeq,
             Publish(r, n, k, c)
      PROVE  Kept
  BY <1>4, PublishKept
<1>5. ASSUME NEW r \in Request, LoadChat(r)
      PROVE  Kept
  BY <1>5, LoadChatKept
<1>6. ASSUME NEW r \in Request, Acquire(r)
      PROVE  Kept
  BY <1>6, IdleIsIdle, TryAppendKept DEF Acquire
<1>7. ASSUME NEW r \in Request,
             LoadFails(r) \/ StoreErrorReply(r) \/ ConflictHandlingFails(r)
      PROVE  Kept
  BY <1>7, UnchangedGrows, RecordsStand, EndsKept
     DEF LoadFails, StoreErrorReply, ConflictHandlingFails
<1>8. ASSUME NEW r \in Request, StoreStep(r)
      PROVE  Kept
  BY <1>8, StoreKept
<1>9. ASSUME NEW r \in Request, Appended(r) \/ Duplicate(r)
      PROVE  Kept
  BY <1>9, FoundKept
<1>10. ASSUME NEW r \in Request, RereadHead(r)
       PROVE  Kept
  BY <1>10, RereadKept
<1>11. ASSUME NEW r \in Request, VerifiedOwner(r)
       PROVE  Kept
  <2>1. req[r].at \in InLock /\ req[r] # Idle
    BY <1>11, IdleIsIdle DEF VerifiedOwner, InLock
  <2>2. CASE Ends(r)
    BY <1>11, <2>2, UnchangedGrows, RecordsStand, EndsKept DEF VerifiedOwner
  <2>3. CASE TryAppend(r, req[r].attempt + 1)
    BY <1>11, <2>1, <2>3, TryAppendKept DEF VerifiedOwner
  <2>4. QED
    BY <1>11, <2>2, <2>3 DEF VerifiedOwner
<1>12. ASSUME NEW r \in Request, NotOwner(r)
       PROVE  Kept
  <2>1. req[r].node \in Node
    BY <1>12, IdleIsIdle, ActiveHandler DEF NotOwner, IInv, Handler
  <2>2. Grows /\ AckedIsStored' /\ DedupeIsStored'
    BY <1>12, <2>1, UnchangedGrows, RecordsStand, ForgetStored DEF NotOwner
  <2>3. QED
    BY <1>12, <2>2, EndsKept DEF NotOwner
<1>13. CASE UNCHANGED vars
  BY <1>13, UnchangedGrows, RecordsStand, NobodyMoves DEF vars
<1>14. QED
  BY <1>1, <1>2, <1>3, <1>4, <1>5, <1>6, <1>7, <1>8, <1>9, <1>10, <1>11, <1>12, <1>13
     DEF Next, Resumes

LEMMA InitIInv == Init => IInv
<1> SUFFICES ASSUME Init PROVE IInv
  OBVIOUS
<1>1. TypeOK
  BY InitType
<1>2. DOMAIN message = 1..0
  BY DEF Init
<1>3. max_message_id = 0
  BY <1>2, MaxOfInterval DEF max_message_id
<1>4. \A r \in Request : req[r].at = "idle"
  BY IdleIsIdle DEF Init
<1>5. Contiguous /\ StoredOnce /\ AckedIsStored /\ DedupeIsStored /\ HeadBehind
  BY <1>2, <1>3
     DEF Init, Contiguous, StoredOnce, IsInjective, AckedIsStored, DedupeIsStored,
         NoDedupe, HeadBehind
<1>6. WritesNext /\ FoundIsStored /\ OneInLock /\ HeadFrozen
  BY <1>4 DEF WritesNext, FoundIsStored, OneInLock, HeadFrozen, InLock
<1>7. QED
  BY <1>1, <1>3, <1>5, <1>6 DEF IInv, Inductive

-----------------------------------------------------------------------------
(* The theorems.                                                           *)

\* The invariant above holds in every reachable state of pubsub.py's publish
\* path, whoever owns the shard, restarts, or writes late.
THEOREM InvariantHolds == Spec => []IInv
<1>1. Init => IInv
  BY InitIInv
<1>2. IInv /\ [Next]_vars => IInv'
  <2> SUFFICES ASSUME IInv, [Next]_vars PROVE IInv'
    OBVIOUS
  <2>1. Kept
    BY NextKept
  <2>2. TypeOK'
    BY TypeStep DEF IInv, Inductive
  <2>3. QED
    BY <2>1, <2>2 DEF IInv, Inductive, Kept, Grows
<1>3. QED
  BY <1>1, <1>2, PTL DEF Spec

\* The state of pubsub.py's publish path keeps its types.
THEOREM TypeCorrect == Spec => []TypeOK
<1>1. IInv => TypeOK
  BY DEF IInv
<1>2. QED
  BY <1>1, InvariantHolds, PTL

\* The message ids of a chat have no hole, for any number of owners.
THEOREM NoGap == Spec => []Contiguous
<1>1. IInv => Contiguous
  BY DEF IInv, Inductive
<1>2. QED
  BY <1>1, InvariantHolds, PTL

\* A client_msg_id is stored once, for any number of retries and owners.
THEOREM NoDuplicate == Spec => []StoredOnce
<1>1. IInv => StoredOnce
  BY DEF IInv, Inductive
<1>2. QED
  BY <1>1, InvariantHolds, PTL

\* A `published` reply names a stored message, wherever it was found.
THEOREM PersistBeforeAck == Spec => []AckedIsStored
<1>1. IInv => AckedIsStored
  BY DEF IInv, Inductive
<1>2. QED
  BY <1>1, InvariantHolds, PTL

\* The whole inductive strengthening that the runs check.
THEOREM StrengthenedInvariant == Spec => []Inductive
<1>1. IInv => Inductive
  BY DEF IInv
<1>2. QED
  BY <1>1, InvariantHolds, PTL

\* One ChatSeq fans out in ascending order of the ids.
THEOREM FanoutOrder == Spec => FanoutAscends
<1>1. IInv => \A r \in Request : Appended(r) => req[r].mid > head[req[r].seq]
  <2> SUFFICES ASSUME IInv, NEW r \in Request, Appended(r)
               PROVE  req[r].mid > head[req[r].seq]
    OBVIOUS
  <2>1. req[r].at = "appended" /\ req[r] \in Handler
    BY IdleIsIdle, ActiveHandler DEF Appended, IInv
  <2>2. req[r].mid = head[req[r].seq] + 1
    BY <2>1 DEF IInv, Inductive, HeadFrozen
  <2>3. head[req[r].seq] \in Nat
    BY <2>1 DEF IInv, TypeOK, Handler
  <2>4. QED
    BY <2>2, <2>3
<1>2. IInv /\ [Next]_vars =>
        [\A r \in Request : Appended(r) => req[r].mid > head[req[r].seq]]_vars
  BY <1>1
<1>3. QED
  BY <1>2, InvariantHolds, PTL DEF Spec, FanoutAscends

-----------------------------------------------------------------------------
(* The publish path implements the append-only log.                        *)

\* The table, with its ids 1..n, is the sequence of the log.
LEMMA MessageIsSequence ==
  ASSUME IInv
  PROVE  message \in Seq(Cmid) /\ Len(message) = max_message_id
<1>1. DOMAIN message = 1..max_message_id /\ max_message_id \in Nat
  BY DEF IInv, Inductive, Contiguous
<1>2. message \in [1..max_message_id -> Cmid]
  BY <1>1 DEF IInv, TypeOK, Range
<1>3. QED
  BY <1>1, <1>2

\* Inserting the next id appends to the sequence.
LEMMA InsertAppends ==
  ASSUME IInv, NEW k \in Cmid
  PROVE  Insert(max_message_id + 1, k) = Append(message, k)
<1> DEFINE n == max_message_id
           t == Insert(n + 1, k)
<1>1. message \in Seq(Cmid) /\ Len(message) = n /\ n \in Nat /\ DOMAIN message = 1..n
  BY MessageIsSequence DEF IInv, Inductive, Contiguous
<1>2. 1..n \cup {n + 1} = 1 .. n + 1
  BY <1>1
<1>3. t = [j \in 1 .. n + 1 |-> IF j = n + 1 THEN k ELSE message[j]]
  BY <1>1, <1>2 DEF Insert
<1> HIDE DEF n, t
<1>4. \A i \in 1..n : message[i] \in Cmid
  BY <1>1, ElementOfSeq
<1>5. t \in [1 .. n + 1 -> Cmid]
  BY <1>1, <1>3, <1>4
<1>6. t \in Seq(Cmid) /\ Len(t) = n + 1
  BY <1>1, <1>5, SeqDef
<1>7. /\ Append(message, k) \in Seq(Cmid)
      /\ Len(Append(message, k)) = n + 1
      /\ \A j \in 1..n : Append(message, k)[j] = message[j]
      /\ Append(message, k)[n + 1] = k
  BY <1>1, AppendProperties
<1>8. \A j \in 1 .. n + 1 : t[j] = Append(message, k)[j]
  BY <1>1, <1>3, <1>7
<1>9. t = Append(message, k)
  BY <1>6, <1>7, <1>8, SeqEqual
<1>10. QED
  BY <1>9 DEF t, n

\* A reply that names a stored row is the log's Ack.
LEMMA ReplyIsAck ==
  ASSUME message' = message, NEW k, NEW i \in DOMAIN message, message[i] = k,
         Replies(k, i)
  PROVE  Log!Next
BY DEF Replies, Log!Next, Log!Ack

\* A lookup in the dedupe table that hits is an Ack, one that misses a stutter.
LEMMA AdmitImplements ==
  ASSUME IInv, NEW r \in Request, NEW v \in Handler, Admit(r, v), message' = message
  PROVE  [Log!Next]_<<message, acked>>
<1>1. v.node \in Node /\ v.cmid \in Cmid
  BY DEF Handler
<1>2. CASE dedupe[v.node][v.cmid] # 0
  <2>1. /\ dedupe[v.node][v.cmid] \in DOMAIN message
        /\ message[dedupe[v.node][v.cmid]] = v.cmid
    BY <1>1, <1>2 DEF IInv, Inductive, DedupeIsStored
  <2>2. QED
    BY <1>2, <2>1, ReplyIsAck DEF Admit
<1>3. CASE dedupe[v.node][v.cmid] = 0
  BY <1>3 DEF Admit
<1>4. QED
  BY <1>2, <1>3

\* append_message is the log's Append1, or a stutter.
LEMMA StoreImplements ==
  ASSUME IInv, NEW r \in Request, StoreAppend(r)
  PROVE  [Log!Next]_<<message, acked>>
<1> DEFINE v == req[r]
<1>1. v \in Handler /\ v.cmid \in Cmid
  BY IdleIsIdle, ActiveHandler DEF StoreAppend, IInv, Handler
<1>2. CASE StoreOutcome(v) = "appended"
  <2>1. ~ StoredCmid(v.cmid) /\ v.mid \notin DOMAIN message
    BY <1>2 DEF StoreOutcome
  <2>2. v.mid = max_message_id + 1
    BY <2>1 DEF IInv, Inductive, WritesNext, Contiguous, StoreAppend
  <2>3. message' = Append(message, v.cmid) /\ acked' = acked
    BY <1>1, <1>2, <2>2, InsertAppends DEF StoreAppend
  <2>4. \A i \in DOMAIN message : message[i] # v.cmid
    BY <2>1 DEF StoredCmid, Range
  <2>5. QED
    BY <1>1, <2>3, <2>4 DEF Log!Next, Log!Append1
<1>3. CASE StoreOutcome(v) # "appended"
  BY <1>3 DEF StoreAppend
<1>4. QED
  BY <1>2, <1>3

\* Several nodes, each with its own head and dedupe table, over one store:
\* together they are one append-only log whose acks name stored messages.
THEOREM Implements == Spec => ImplementsChatLog
<1>1. Init => Log!Init
  BY DEF Init, Log!Init
<1>2. IInv /\ [Next]_vars => [Log!Next]_<<message, acked>>
  <2> SUFFICES ASSUME IInv, [Next]_vars PROVE [Log!Next]_<<message, acked>>
    OBVIOUS
  <2>1. ASSUME NEW r \in Request, NEW n \in Node, NEW k \in Cmid, NEW c \in ChatSeq,
               Publish(r, n, k, c)
        PROVE  [Log!Next]_<<message, acked>>
    <3> DEFINE v == [at |-> "load", node |-> n, seq |-> c, cmid |-> k,
                     attempt |-> 0, mid |-> 0]
    <3>1. v \in Handler /\ message' = message
      BY <2>1 DEF Handler, Publish
    <3>2. Admit(r, v) \/ acked' = acked
      BY <2>1 DEF Publish
    <3>3. QED
      BY <3>1, <3>2, AdmitImplements
  <2>2. ASSUME NEW r \in Request, LoadChat(r)
        PROVE  [Log!Next]_<<message, acked>>
    BY <2>2, IdleIsIdle, ActiveHandler, AdmitImplements DEF LoadChat, IInv
  <2>3. ASSUME NEW r \in Request, StoreAppend(r)
        PROVE  [Log!Next]_<<message, acked>>
    BY <2>3, StoreImplements
  <2>4. ASSUME NEW r \in Request, Appended(r) \/ Duplicate(r)
        PROVE  [Log!Next]_<<message, acked>>
    <3>1. req[r].mid \in DOMAIN message /\ message[req[r].mid] = req[r].cmid
      BY <2>4 DEF IInv, Inductive, FoundIsStored, Appended, Duplicate
    <3>2. QED
      BY <2>4, <3>1, ReplyIsAck DEF Appended, Duplicate
  <2>5. CASE UNCHANGED <<message, acked>>
    BY <2>5
  <2>6. QED
    BY <2>1, <2>2, <2>3, <2>4, <2>5
       DEF Next, StoreStep, Resumes, StoreRefuses, StoreErrorReply, RereadHead,
           VerifiedOwner, NotOwner, ConflictHandlingFails, LoadFails, Acquire,
           ClaimShard, DropShard, CrashNode, LeaseEvent, vars
<1>3. QED
  BY <1>1, <1>2, InvariantHolds, PTL DEF Spec, ImplementsChatLog, Log!Spec

-----------------------------------------------------------------------------
(* The link from a gateway to the node (app/links.py) is the module NodeLink, *)
(* for any calls, queue size and bounds: a request waits only on the          *)
(* connection that carried it, so that the loss of the link ends it at once,  *)
(* and no event is missing from what a connection carries.                    *)

\* A call has the req_id of its last request, and no two share one.
OwnIds ==
  /\ \A c \in Call : calls[c].id <= attempts /\ (calls[c].pc = "waiting" => calls[c].id # 0)
  /\ \A c, d \in Call : calls[c].id = calls[d].id /\ calls[c].id # 0 => c = d

\* Where a call is.
Place == [pc : {"asking", "waiting", "resting", "done"}, id : 0..MaxAttempts, stored : BOOLEAN]

LinkInv == LinkTypeOK /\ OwnIds /\ WaitsOnLiveLink

-----------------------------------------------------------------------------
(* Types                                                                   *)

LEMMA LinkBounds ==
  /\ MaxAttempts \in Nat /\ MaxLinks \in Nat \ {0} /\ MaxEvents \in Nat /\ SEND_QUEUE_MAX \in Nat \ {0}
  /\ \A s \in Situations : s.calls \subseteq Call /\ s.requests \in 0..MaxAttempts /\ s.events \in 0..MaxEvents
BY LinkAssumption DEF Call

LEMMA PendingType == ASSUME NEW state \in {"none", "waiting", "timeout", "LinkClosed"} PROVE Pending(state) \in Future
BY DEF Pending, Future

LEMMA ReadTypes ==
  ASSUME LinkTypeOK, Read
  PROVE  /\ down' \in [Conn -> Seq(Frame)] /\ pending' \subseteq pending
         /\ future' \in [1..MaxAttempts -> Future] /\ got' \in [Conn -> Seq(Deliver)]
<1> DEFINE f == Head(down[ws])
<1>1. ws \in Conn /\ down[ws] \in Seq(Frame) /\ down[ws] # <<>> BY LinkBounds DEF LinkTypeOK, Read, Conn
<1>2. f \in Frame /\ Tail(down[ws]) \in Seq(Frame)
  <2> HIDE DEF Frame
  <2> QED BY <1>1
<1>3. down' = [down EXCEPT ![ws] = Tail(down[ws])] BY DEF Read
<1>4. down' \in [Conn -> Seq(Frame)]
  <2> HIDE DEF Frame
  <2> QED BY <1>1, <1>2, <1>3 DEF LinkTypeOK
<1>5. /\ pending' = pending \ {f.id}
      /\ future' = IF f.id \in pending /\ Waits(f.id) THEN [future EXCEPT ![f.id] = Answered(f)] ELSE future
      /\ got' = IF f.id = 0 THEN [got EXCEPT ![ws] = Append(@, f)] ELSE got
  BY DEF Read
<1>6. f.id = 0 => f \in Deliver BY <1>2 DEF Frame, Reply
<1>7. f.id \in pending => f \in Reply BY <1>2 DEF Frame, Deliver, LinkTypeOK
<1> HIDE DEF f
<1>8. future' \in [1..MaxAttempts -> Future]
  <2>1. f \in Reply => Answered(f) \in Future BY DEF Reply, Answered, Future
  <2> QED BY <1>5, <1>7, <2>1 DEF LinkTypeOK
<1>9. got' \in [Conn -> Seq(Deliver)]
  <2>1. got[ws] \in Seq(Deliver) BY <1>1 DEF LinkTypeOK
  <2>2. f \in Deliver => Append(got[ws], f) \in Seq(Deliver) BY <2>1
  <2> QED BY <1>1, <1>5, <1>6, <2>2 DEF LinkTypeOK
<1> QED BY <1>4, <1>5, <1>8, <1>9

LEMMA HandleTypes ==
  ASSUME LinkTypeOK, NEW w \in Conn, NEW m \in handling[w], NEW code \in Code, Handle(w, m, code)
  PROVE  handling' \in [Conn -> SUBSET Req] /\ subs' \subseteq Conn /\ q' \in [Conn -> Seq(Frame)]
<1>1. m \in Req BY DEF LinkTypeOK
<1> DEFINE f == [id |-> m.id, code |-> code]
<1>2. f \in Frame BY <1>1 DEF Frame, Reply, Req
<1>3. q' = SendTo(w, f) /\ handling' = [handling EXCEPT ![w] = @ \ {m}] /\ (subs' = subs \cup {w} \/ subs' = subs)
  BY DEF Handle
<1> HIDE DEF f
<1>4. Append(q[w], f) \in Seq(Frame)
  <2>1. q[w] \in Seq(Frame) BY DEF LinkTypeOK
  <2> HIDE DEF Frame
  <2> QED BY <1>2, <2>1
<1>5. SendTo(w, f) \in [Conn -> Seq(Frame)]
  <2> HIDE DEF Frame
  <2> QED BY <1>4 DEF SendTo, LinkTypeOK
<1> QED BY <1>3, <1>5 DEF LinkTypeOK

LEMMA FanoutTypes ==
  ASSUME LinkTypeOK, Fanout
  PROVE  fanned' \in 0..MaxEvents /\ q' \in [Conn -> Seq(Frame)] /\ peer' \in [Conn -> {"none", "open", "closed", "gone"}]
<1>1. fanned' = fanned + 1 /\ fanned + 1 \in 1..MaxEvents
  <2>1. situation.events \in 0..MaxEvents BY LinkBounds DEF LinkTypeOK
  <2> QED BY <2>1, LinkBounds DEF Fanout, LinkTypeOK
<1> DEFINE f == Event(fanned + 1)
<1>2. f \in Frame BY <1>1 DEF Frame, Deliver, Event
<1>3. q' = [w \in Conn |-> IF Slow(w) THEN <<>> ELSE IF w \in subs /\ Takes(w) THEN Append(q[w], f) ELSE q[w]]
  BY DEF Fanout
<1> HIDE DEF f
<1>4. \A w \in Conn : q[w] \in Seq(Frame) /\ Append(q[w], f) \in Seq(Frame) /\ <<>> \in Seq(Frame)
  <2>1. \A w \in Conn : q[w] \in Seq(Frame) BY DEF LinkTypeOK
  <2> HIDE DEF Frame
  <2> QED BY <1>2, <2>1
<1>5. q' \in [Conn -> Seq(Frame)] BY <1>3, <1>4
<1>6. peer' \in [Conn -> {"none", "open", "closed", "gone"}] BY DEF Fanout, LinkTypeOK
<1> QED BY <1>1, <1>5, <1>6

LEMMA DrainTypes ==
  ASSUME LinkTypeOK, NEW w \in Conn, Drain(w)
  PROVE  /\ down' \in [Conn -> Seq(Frame)] /\ q' \in [Conn -> Seq(Frame)]
         /\ peer' \in [Conn -> {"none", "open", "closed", "gone"}]
<1>1. q[w] \in Seq(Frame) /\ down[w] \in Seq(Frame) /\ q[w] # <<>> BY DEF LinkTypeOK, Drain
<1>2. Tail(q[w]) \in Seq(Frame) /\ Append(down[w], Head(q[w])) \in Seq(Frame) /\ <<>> \in Seq(Frame)
  <2> HIDE DEF Frame
  <2> QED BY <1>1
<1>3. CASE w \in open
  <2>1. down' = [down EXCEPT ![w] = Append(down[w], Head(q[w]))] /\ q' = [q EXCEPT ![w] = Tail(q[w])] /\ peer' = peer
    BY <1>3 DEF Drain
  <2> QED BY <1>2, <2>1 DEF LinkTypeOK
<1>4. CASE w \notin open
  <2>1. down' = down /\ q' = [q EXCEPT ![w] = <<>>] /\ peer' = [peer EXCEPT ![w] = "closed"] BY <1>4 DEF Drain
  <2> QED BY <1>2, <2>1 DEF LinkTypeOK
<1> QED BY <1>3, <1>4

-----------------------------------------------------------------------------
(* The gateway's calls                                                     *)

\* A step that leaves calls, futures, requests and the connection in use alone.
LEMMA CallsStand ==
  ASSUME LinkInv, LinkTypeOK', UNCHANGED <<calls, future, attempts, pending, ws>>
  PROVE  LinkInv'
BY DEF LinkInv, OwnIds, WaitsOnLiveLink, Waits

LEMMA RequestKept == ASSUME NEW c \in Call, LinkInv, SendRequest(c) PROVE LinkInv'
<1> USE DEF LinkInv
<1> DEFINE id == ReqId(c)
           row == [calls[c] EXCEPT !.pc = "waiting", !.id = id]
           lost == [calls[c] EXCEPT !.pc = "resting", !.id = id]
           m == [id |-> id, call |-> c]
<1>1. id = attempts + 1 /\ attempts \in Nat /\ id \in 1..MaxAttempts /\ attempts' = id
  <2>1. situation.requests \in 0..MaxAttempts BY LinkBounds DEF LinkTypeOK
  <2> QED BY <2>1, LinkBounds DEF SendRequest, ReqId, LinkTypeOK
<1>2. ws \in Conn BY LinkBounds DEF SendRequest, LinkTypeOK, Conn
<1>3. \/ /\ pending' = pending \cup {id} /\ future' = [future EXCEPT ![id] = Pending("waiting")]
         /\ handling' = [handling EXCEPT ![ws] = @ \cup {m}] /\ calls' = [calls EXCEPT ![c] = row]
      \/ pending' = pending /\ future' = future /\ handling' = handling /\ calls' = [calls EXCEPT ![c] = lost]
  BY DEF SendRequest
<1>4. m \in Req /\ Pending("waiting") \in Future BY <1>1, PendingType DEF Req
<1>5. /\ row \in Place /\ row.id = id
      /\ lost \in Place /\ lost.id = id
  <2>1. calls[c] \in Place BY DEF LinkTypeOK, Place
  <2>2. id \in 0..MaxAttempts BY <1>1
  <2> HIDE DEF id
  <2> QED BY <2>1, <2>2 DEF Place
<1>6. lost.pc # "waiting" BY DEF LinkTypeOK
<1>7. UNCHANGED <<ws, lastWs, open, late, q, peer, subs, fanned, down, got, situation>> BY DEF SendRequest
<1> HIDE DEF id, row, lost, m
<1>8. /\ pending' \subseteq 1..MaxAttempts /\ future' \in [1..MaxAttempts -> Future] /\ handling' \in [Conn -> SUBSET Req]
      /\ calls' \in [Call -> Place]
      /\ calls'[c].id = id /\ \A d \in Call \ {c} : calls'[d] = calls[d]
  <2>1. pending' \subseteq 1..MaxAttempts /\ future' \in [1..MaxAttempts -> Future] /\ handling' \in [Conn -> SUBSET Req]
    <3>1. pending' \subseteq 1..MaxAttempts
      <4>1. pending \subseteq 1..MaxAttempts /\ (pending' = pending \cup {id} \/ pending' = pending) BY <1>3 DEF LinkTypeOK
      <4> QED BY <1>1, <4>1
    <3>2. future' \in [1..MaxAttempts -> Future]
      <4>1. future \in [1..MaxAttempts -> Future] BY DEF LinkTypeOK
      <4>2. future' = [future EXCEPT ![id] = Pending("waiting")] \/ future' = future BY <1>3
      <4> QED BY <1>1, <1>4, <4>1, <4>2
    <3>3. handling[ws] \cup {m} \in SUBSET Req BY <1>2, <1>4 DEF LinkTypeOK
    <3>4. handling' \in [Conn -> SUBSET Req] BY <1>3, <3>3 DEF LinkTypeOK
    <3> QED BY <3>1, <3>2, <3>4
  <2>2. calls \in [Call -> Place] BY DEF LinkTypeOK, Place
  <2>3. calls' = [calls EXCEPT ![c] = row] \/ calls' = [calls EXCEPT ![c] = lost] BY <1>3
  <2> QED BY <1>5, <2>1, <2>2, <2>3
<1>9. LinkTypeOK' BY <1>1, <1>7, <1>8 DEF LinkTypeOK, Place
<1>10. \A d \in Call : /\ calls[d].id \in 0..attempts /\ calls[d].id # id
                       /\ calls[d].pc = "waiting" => calls[d].id \in 1..MaxAttempts
  BY <1>1 DEF LinkTypeOK, OwnIds
<1>11. OwnIds' BY <1>1, <1>8, <1>10 DEF OwnIds
<1>12. ASSUME NEW d \in Call, calls'[d].pc = "waiting", future'[calls'[d].id].state = "waiting" PROVE ws' # 0 /\ calls'[d].id \in pending'
  <2>1. CASE d = c
    <3>1. calls'[c] # lost BY <1>6, <1>12, <2>1
    <3> QED BY <1>2, <1>3, <1>7, <1>8, <2>1, <3>1 DEF LinkTypeOK, Conn
  <2>2. CASE d # c
    <3>1. calls'[d] = calls[d] /\ pending \subseteq pending' BY <1>3, <1>8, <2>2
    <3>2. future'[calls[d].id] = future[calls[d].id] BY <1>3, <1>10, <1>12, <3>1 DEF LinkTypeOK
    <3> QED BY <1>7, <1>12, <2>2, <3>1, <3>2 DEF Waits, WaitsOnLiveLink
  <2> QED BY <2>1, <2>2
<1> QED BY <1>9, <1>11, <1>12 DEF WaitsOnLiveLink, Waits

LEMMA ExpireKept == ASSUME NEW c \in Call, LinkInv, Expire(c) PROVE LinkInv'
<1> USE DEF LinkInv
<1> DEFINE id == calls[c].id
<1>1. id \in 1..MaxAttempts BY DEF LinkTypeOK, OwnIds, Expire
<1>2. future' = [future EXCEPT ![id] = Pending("timeout")] /\ Pending("timeout") \in Future BY PendingType DEF Expire
<1>3. UNCHANGED <<ws, lastWs, pending, open, callVars, nodeVars, down, got, situation>> BY DEF Expire
<1>4. LinkTypeOK' BY <1>1, <1>2, <1>3 DEF LinkTypeOK, callVars, nodeVars
<1>5. \A r \in 1..MaxAttempts : Waits(r)' => Waits(r) BY <1>1, <1>2 DEF LinkTypeOK, Waits, Pending
<1>6. OwnIds' BY <1>3 DEF OwnIds, callVars
<1>7. \A d \in Call : calls[d].pc = "waiting" => calls[d].id \in 1..MaxAttempts BY DEF LinkTypeOK, OwnIds
<1>8. WaitsOnLiveLink' BY <1>3, <1>5, <1>7 DEF WaitsOnLiveLink, callVars
<1> QED BY <1>4, <1>6, <1>8

LEMMA ResumeKept == ASSUME NEW c \in Call, LinkInv, Resume(c) PROVE LinkInv'
<1> USE DEF LinkInv
<1> DEFINE id == calls[c].id
           result == future[id]
           row == [calls[c] EXCEPT !.pc = IF Retries(c, result) THEN "resting" ELSE "done",
                                   !.stored = calls[c].stored \/ result.code = "STORE_ERROR"]
<1>1. id \in 1..MaxAttempts BY DEF LinkTypeOK, OwnIds, Resume
<1>2. pending' = pending \ {id} /\ future' = [future EXCEPT ![id] = Pending("none")] /\ calls' = [calls EXCEPT ![c] = row]
  BY DEF Resume
<1>3. UNCHANGED <<ws, lastWs, open, late, attempts, nodeVars, down, got, situation>> BY DEF Resume
<1>4. /\ row \in Place
      /\ row.id = id /\ row.pc # "waiting"
  BY DEF LinkTypeOK, Place
<1> HIDE DEF row
<1>5. /\ calls' \in [Call -> Place]
      /\ calls'[c] = row /\ \A d \in Call \ {c} : calls'[d] = calls[d]
  BY <1>2, <1>4 DEF LinkTypeOK, Place
<1>6. future' \in [1..MaxAttempts -> Future] /\ \A r \in 1..MaxAttempts \ {id} : future'[r] = future[r]
  BY <1>1, <1>2, PendingType DEF LinkTypeOK
<1>7. LinkTypeOK' BY <1>2, <1>3, <1>5, <1>6 DEF LinkTypeOK, Place, nodeVars
<1>8. \A d \in Call : calls'[d].id = calls[d].id BY <1>4, <1>5
<1>9. OwnIds' BY <1>3, <1>4, <1>5, <1>8 DEF OwnIds
<1>10. ASSUME NEW d \in Call, calls'[d].pc = "waiting", future'[calls'[d].id].state = "waiting" PROVE ws' # 0 /\ calls'[d].id \in pending'
  <2>1. d # c /\ calls'[d] = calls[d] BY <1>4, <1>5, <1>10
  <2>2. calls[d].id \in 1..MaxAttempts \ {id} BY <1>1, <1>10, <2>1 DEF LinkTypeOK, OwnIds
  <2>3. Waits(calls[d].id) BY <1>6, <1>10, <2>1, <2>2 DEF Waits
  <2> QED BY <1>2, <1>3, <1>10, <2>1, <2>2, <2>3 DEF WaitsOnLiveLink
<1> QED BY <1>7, <1>9, <1>10 DEF WaitsOnLiveLink, Waits

\* Wake and GiveUp: a call that does not wait goes on without waiting.
LEMMA MoveKept == ASSUME NEW c \in Call, LinkInv, Wake(c) \/ GiveUp(c) PROVE LinkInv'
<1> USE DEF LinkInv
<1>1. PICK pc \in {"asking", "done"} : calls' = [calls EXCEPT ![c].pc = pc] BY DEF Wake, GiveUp
<1>2. UNCHANGED <<wsVars, late, attempts, nodeVars, down, got, situation>> BY DEF Wake, GiveUp
<1>3. /\ calls' \in [Call -> Place]
      /\ \A d \in Call : calls'[d].id = calls[d].id /\ (calls'[d].pc = "waiting" => calls[d].pc = "waiting")
  BY <1>1 DEF LinkTypeOK, Place
<1>4. LinkTypeOK' BY <1>2, <1>3 DEF LinkTypeOK, Place, wsVars, nodeVars
<1>5. OwnIds' BY <1>2, <1>3 DEF OwnIds
<1>6. WaitsOnLiveLink' BY <1>2, <1>3 DEF WaitsOnLiveLink, Waits, wsVars
<1> QED BY <1>4, <1>5, <1>6

-----------------------------------------------------------------------------
(* WsLink                                                                  *)

LEMMA ConnectKept == LinkInv /\ Connect => LinkInv'
<1> SUFFICES ASSUME LinkInv, Connect PROVE LinkInv' OBVIOUS
<1> USE DEF LinkInv
<1>1. lastWs \in Nat /\ lastWs + 1 \in Conn /\ ws' = lastWs + 1 /\ ws' # 0 /\ ws = 0 BY LinkBounds DEF LinkTypeOK, Connect, Conn
<1>2. LinkTypeOK' BY <1>1, LinkBounds DEF LinkTypeOK, Connect, Conn, callVars
<1>3. OwnIds' BY DEF OwnIds, Connect, callVars
<1>4. WaitsOnLiveLink' BY <1>1 DEF WaitsOnLiveLink, Waits, Connect, callVars
<1> QED BY <1>2, <1>3, <1>4

LEMMA ReadKept == LinkInv /\ Read => LinkInv'
<1> SUFFICES ASSUME LinkInv, Read PROVE LinkInv' OBVIOUS
<1> USE DEF LinkInv
<1> DEFINE f == Head(down[ws])
<1>1. LinkTypeOK' BY ReadTypes DEF LinkTypeOK, Read, callVars, nodeVars
<1>2. UNCHANGED <<calls, attempts, ws>> /\ pending' = pending \ {f.id} BY DEF Read, callVars
<1>3. future' = IF f.id \in pending /\ Waits(f.id) THEN [future EXCEPT ![f.id] = Answered(f)] ELSE future BY DEF Read
<1>4. Answered(f).state # "waiting" BY DEF Answered
<1> HIDE DEF f
<1>5. ASSUME NEW r \in 1..MaxAttempts, Waits(r)', r \in pending PROVE Waits(r) /\ r \in pending'
  <2>1. pending \subseteq 1..MaxAttempts BY DEF LinkTypeOK
  <2>2. r # f.id BY <1>3, <1>4, <1>5, <2>1 DEF LinkTypeOK, Waits
  <2>3. future'[r] = future[r] BY <1>3, <2>2 DEF LinkTypeOK
  <2> QED BY <1>2, <1>5, <2>2, <2>3 DEF Waits
<1>6. ASSUME NEW c \in Call, calls'[c].pc = "waiting", future'[calls'[c].id].state = "waiting" PROVE ws' # 0 /\ calls'[c].id \in pending'
  <2>1. calls'[c] = calls[c] /\ calls[c].id \in 1..MaxAttempts BY <1>2, <1>6 DEF LinkTypeOK, OwnIds
  <2>2. Waits(calls[c].id)
    <3>1. \A r \in 1..MaxAttempts : Waits(r)' => Waits(r) BY <1>3, <1>4 DEF LinkTypeOK, Waits
    <3> QED BY <1>6, <2>1, <3>1 DEF Waits
  <2> QED BY <1>2, <1>5, <1>6, <2>1, <2>2 DEF WaitsOnLiveLink, Waits
<1>7. OwnIds' BY <1>2 DEF OwnIds
<1> QED BY <1>1, <1>6, <1>7 DEF WaitsOnLiveLink, Waits

\* Whoever waited on the connection that is lost was registered there.
LEMMA LinkDownKept == LinkInv /\ LinkDown => LinkInv'
<1> SUFFICES ASSUME LinkInv, LinkDown PROVE LinkInv' OBVIOUS
<1> USE DEF LinkInv
<1>1. /\ ws' = 0 /\ pending' = {} /\ UNCHANGED <<lastWs, open, late, attempts, nodeVars, down, got, situation>>
      /\ future' = [r \in 1..MaxAttempts |-> IF r \in Closing THEN Pending("LinkClosed") ELSE future[r]]
      /\ calls' = [c \in Call |-> IF c \in Subscribes \cap situation.calls /\ calls[c].pc = "done"
                                  THEN [calls[c] EXCEPT !.pc = "asking"] ELSE calls[c]]
  BY DEF LinkDown
<1>2. /\ calls' \in [Call -> Place]
      /\ \A d \in Call : calls'[d].id = calls[d].id /\ (calls'[d].pc = "waiting" => calls[d].pc = "waiting")
  BY <1>1 DEF LinkTypeOK, Place
<1>3. future' \in [1..MaxAttempts -> Future] BY <1>1, PendingType DEF LinkTypeOK
<1>4. LinkTypeOK' BY <1>1, <1>2, <1>3, LinkBounds DEF LinkTypeOK, Place, nodeVars
<1>5. OwnIds' BY <1>1, <1>2 DEF OwnIds
<1>6. ASSUME NEW c \in Call, calls'[c].pc = "waiting" PROVE future'[calls'[c].id].state # "waiting"
  <2>1. calls'[c].id = calls[c].id /\ calls[c].pc = "waiting" /\ calls[c].id \in 1..MaxAttempts
    BY <1>2, <1>6 DEF LinkTypeOK, OwnIds
  <2>2. Waits(calls[c].id) => calls[c].id \in Closing BY <2>1 DEF WaitsOnLiveLink, Closing
  <2> QED BY <1>1, <2>1, <2>2 DEF Waits, Pending
<1>7. WaitsOnLiveLink' BY <1>6 DEF WaitsOnLiveLink, Waits
<1> QED BY <1>4, <1>5, <1>7

-----------------------------------------------------------------------------
(* The node                                                                *)

LEMMA NodeKept == ASSUME NEW w \in Conn, LinkInv, NodeSide(w) PROVE LinkInv'
<1> USE DEF LinkInv
<1>1. UNCHANGED <<calls, future, attempts, pending, ws, lastWs, late, fanned, got, situation>>
  BY DEF NodeSide, Drain, PeerEnds, Handle, wsVars, callVars
<1>2. LinkTypeOK'
  <2>1. CASE Drain(w) BY <1>1, <2>1, DrainTypes DEF LinkTypeOK, Drain, wsVars, callVars
  <2>2. CASE PeerEnds(w)
    <3>1. <<>> \in Seq(Frame) OBVIOUS
    <3> QED BY <1>1, <2>2, <3>1 DEF LinkTypeOK, PeerEnds
  <2>3. CASE \E m \in handling[w], code \in Code : Handle(w, m, code)
    <3>1. PICK m \in handling[w], code \in Code : Handle(w, m, code) BY <2>3
    <3>2. handling' \in [Conn -> SUBSET Req] /\ subs' \subseteq Conn /\ q' \in [Conn -> Seq(Frame)] BY <3>1, HandleTypes
    <3> QED BY <1>1, <3>1, <3>2 DEF LinkTypeOK, Handle, wsVars, callVars
  <2> QED BY <2>1, <2>2, <2>3 DEF NodeSide
<1> QED BY <1>1, <1>2, CallsStand

LEMMA FanoutKept == LinkInv /\ Fanout => LinkInv'
<1> SUFFICES ASSUME LinkInv, Fanout PROVE LinkInv' OBVIOUS
<1>1. LinkTypeOK' BY FanoutTypes DEF LinkInv, LinkTypeOK, Fanout, wsVars, callVars
<1> QED BY <1>1, CallsStand DEF Fanout, wsVars, callVars

-----------------------------------------------------------------------------
LEMMA LinkInitially == LinkInit => LinkInv
<1> SUFFICES ASSUME LinkInit PROVE LinkInv OBVIOUS
<1>1. situation \in Situations /\ Pending("none") \in Future /\ <<>> \in Seq(Frame) /\ <<>> \in Seq(Deliver)
  BY PendingType DEF LinkInit
<1>2. LinkTypeOK BY <1>1, LinkBounds DEF LinkInit, LinkTypeOK
<1>3. \A c \in Call : calls[c].id = 0 /\ calls[c].pc # "waiting" BY DEF LinkInit
<1> QED BY <1>2, <1>3 DEF LinkInit, LinkInv, OwnIds, WaitsOnLiveLink

LEMMA LinkStep == LinkInv /\ [LinkNext]_linkVars => LinkInv'
<1> SUFFICES ASSUME LinkInv, [LinkNext]_linkVars PROVE LinkInv' OBVIOUS
<1>1. CASE UNCHANGED linkVars
  BY <1>1 DEF linkVars, wsVars, callVars, nodeVars, LinkInv, LinkTypeOK, OwnIds, WaitsOnLiveLink, Waits
<1>2. CASE \E c \in Call : CallOwner(c)
  BY <1>2, RequestKept, ExpireKept, ResumeKept, MoveKept DEF CallOwner
<1>3. CASE \E c \in Call : DeadlinePasses(c)
  <2>1. PICK c \in Call : DeadlinePasses(c) BY <1>3
  <2>2. LinkTypeOK' BY <2>1 DEF LinkInv, LinkTypeOK, DeadlinePasses, wsVars, nodeVars
  <2> QED BY <2>1, <2>2, CallsStand DEF DeadlinePasses, wsVars
<1>4. CASE RunLink BY <1>4, ConnectKept, ReadKept, LinkDownKept DEF RunLink
<1>5. CASE Serve \/ Fanout BY <1>5, NodeKept, FanoutKept DEF Serve
<1>6. CASE Break
  <2>1. LinkTypeOK' BY <1>6 DEF LinkInv, LinkTypeOK, Break, callVars, nodeVars
  <2> QED BY <1>6, <2>1, CallsStand DEF Break, callVars
<1> QED BY <1>1, <1>2, <1>3, <1>4, <1>5, <1>6 DEF LinkNext, MakeCalls

\* Every step of the gateway, the link and the node keeps LinkInv.
THEOREM LinkInvariant == LinkSpec => []LinkInv
BY LinkInitially, LinkStep, PTL DEF LinkSpec

\* Every variable keeps its type: a frame is an answer to a request, or an event.
THEOREM LinkTypeCorrect == LinkSpec => []LinkTypeOK
BY LinkInvariant, PTL DEF LinkInv

\* WsLink.request and _run: a request waits only while it is registered with
\* the connection in use, so that the loss of the link ends it.
THEOREM LostLinkEndsCalls == LinkSpec => []WaitsOnLiveLink
BY LinkInvariant, PTL DEF LinkInv

-----------------------------------------------------------------------------
(* What a connection carries                                               *)

\* The events of a stream of frames, their order, and that none is missing.
EventsOf(s) == {e \in 1..MaxEvents : \E i \in DOMAIN s : s[i] = Event(e)}
Ordered(s) ==
  \A d, e \in 1..MaxEvents : \A i, j \in DOMAIN s : s[i] = Event(d) /\ s[j] = Event(e) /\ d <= e => i <= j
Whole(s) == \A d, e \in EventsOf(s) : d..e \subseteq EventsOf(s)

\* A connection that is not open yet, or not subscribed, has carried no event.
Quiet ==
  \A w \in Conn :
    /\ w > lastWs => peer[w] = "none"
    /\ peer[w] = "none" \/ (peer[w] = "open" /\ w \notin subs) => EventsOf(Stream(w)) = {}
    /\ EventsOf(Stream(w)) \subseteq 1..fanned

-----------------------------------------------------------------------------
(* Streams of frames                                                       *)

LEMMA OneEvent == \A d, e : Event(d) = Event(e) => d = e
<1> SUFFICES ASSUME NEW d, NEW e, Event(d) = Event(e) PROVE d = e OBVIOUS
<1>1. Event(d).event = d /\ Event(e).event = e BY DEF Event
<1> QED BY <1>1

\* A stream from which only frames that are no events are dropped.
LEMMA FramesDropped ==
  ASSUME NEW s, NEW t, DOMAIN s \subseteq Nat, DOMAIN t \subseteq Nat,
         NEW h \in [DOMAIN t -> DOMAIN s], \A i \in DOMAIN t : t[i] = s[h[i]],
         \A i, j \in DOMAIN t : i < j => h[i] < h[j],
         \A k \in DOMAIN s, e \in 1..MaxEvents : s[k] = Event(e) => \E i \in DOMAIN t : h[i] = k
  PROVE  EventsOf(t) = EventsOf(s) /\ (Ordered(s) => Ordered(t))
<1>1. EventsOf(t) = EventsOf(s) BY DEF EventsOf
<1>2. ASSUME Ordered(s), NEW d \in 1..MaxEvents, NEW e \in 1..MaxEvents, NEW i \in DOMAIN t, NEW j \in DOMAIN t,
             t[i] = Event(d), t[j] = Event(e), d <= e
      PROVE  i <= j
  <2>1. h[i] <= h[j] BY <1>2 DEF Ordered
  <2>2. i \in Nat /\ j \in Nat /\ h[i] \in Nat /\ h[j] \in Nat OBVIOUS
  <2> QED BY <2>1, <2>2
<1> QED BY <1>1, <1>2 DEF Ordered

\* A stream that is cut short.
LEMMA CutShort ==
  ASSUME NEW s, NEW t, DOMAIN s \subseteq Nat, DOMAIN t \subseteq DOMAIN s,
         \A i \in DOMAIN t : t[i] = s[i], \A i \in DOMAIN t, k \in DOMAIN s : k <= i => k \in DOMAIN t,
         Ordered(s), Whole(s)
  PROVE  Ordered(t) /\ Whole(t) /\ EventsOf(t) \subseteq EventsOf(s)
<1>1. Ordered(t) BY DEF Ordered
<1>2. EventsOf(t) \subseteq EventsOf(s) BY DEF EventsOf
<1>3. ASSUME NEW d \in EventsOf(t), NEW e \in EventsOf(t), NEW n \in d..e PROVE n \in EventsOf(t)
  <2>1. n \in EventsOf(s) BY <1>2, <1>3 DEF Whole
  <2>2. PICK j \in DOMAIN t : t[j] = Event(e) BY DEF EventsOf
  <2>3. PICK i \in DOMAIN s : s[i] = Event(n) BY <2>1 DEF EventsOf
  <2>4. i <= j
    <3>1. s[j] = Event(e) /\ n \in 1..MaxEvents /\ e \in 1..MaxEvents /\ n <= e BY <2>1, <2>2 DEF EventsOf
    <3> QED BY <2>3, <3>1 DEF Ordered
  <2>5. i \in DOMAIN t BY <2>4
  <2> QED BY <2>1, <2>3, <2>5 DEF EventsOf
<1> QED BY <1>1, <1>2, <1>3 DEF Whole

\* A stream that gets a frame.
LEMMA FrameAdded ==
  ASSUME NEW s \in Seq(Frame), NEW f \in Frame
  PROVE  /\ (\A e \in 1..MaxEvents : f # Event(e)) => EventsOf(Append(s, f)) = EventsOf(s) /\ (Ordered(s) => Ordered(Append(s, f)))
         /\ \A e \in 1..MaxEvents : f = Event(e) /\ (\A d \in EventsOf(s) : d < e) =>
              EventsOf(Append(s, f)) = EventsOf(s) \cup {e} /\ (Ordered(s) => Ordered(Append(s, f)))
<1> DEFINE t == Append(s, f)
           n == Len(s) + 1
<1>1. /\ n \in Nat \ {0} /\ DOMAIN s = 1..n - 1 /\ DOMAIN t = 1..n /\ t[n] = f /\ \A i \in 1..n - 1 : t[i] = s[i]
  OBVIOUS
<1> HIDE DEF t, n
<1>2. ASSUME \A e \in 1..MaxEvents : f # Event(e)
      PROVE  EventsOf(t) = EventsOf(s) /\ (Ordered(s) => Ordered(t))
  <2>1. \A i \in DOMAIN t, e \in 1..MaxEvents : t[i] = Event(e) => i \in DOMAIN s /\ s[i] = t[i] BY <1>1, <1>2
  <2>2. EventsOf(t) = EventsOf(s) BY <1>1, <2>1 DEF EventsOf
  <2> QED BY <2>1, <2>2 DEF Ordered
<1>3. ASSUME NEW e \in 1..MaxEvents, f = Event(e), \A d \in EventsOf(s) : d < e
      PROVE  EventsOf(t) = EventsOf(s) \cup {e} /\ (Ordered(s) => Ordered(t))
  <2>1. ASSUME NEW i \in DOMAIN t, NEW d \in 1..MaxEvents, t[i] = Event(d)
        PROVE  (i \in DOMAIN s /\ s[i] = Event(d) /\ d < e /\ i < n) \/ (i = n /\ d = e)
    <3>1. CASE i = n BY <1>1, <1>3, <2>1, <3>1, OneEvent
    <3>2. CASE i # n
      <4>1. i \in DOMAIN s /\ s[i] = Event(d) /\ i < n BY <1>1, <2>1, <3>2
      <4> QED BY <1>3, <4>1 DEF EventsOf
    <3> QED BY <3>1, <3>2
  <2>2. EventsOf(t) = EventsOf(s) \cup {e}
    <3>1. \A d \in EventsOf(t) : d \in EventsOf(s) \cup {e} BY <2>1 DEF EventsOf
    <3>2. EventsOf(s) \subseteq EventsOf(t) BY <1>1 DEF EventsOf
    <3>3. e \in EventsOf(t) BY <1>1, <1>3 DEF EventsOf
    <3> QED BY <3>1, <3>2, <3>3
  <2>3. ASSUME Ordered(s), NEW c \in 1..MaxEvents, NEW d \in 1..MaxEvents, NEW i \in DOMAIN t, NEW j \in DOMAIN t,
               t[i] = Event(c), t[j] = Event(d), c <= d
        PROVE  i <= j
    <3>1. CASE j = n BY <1>1, <3>1
    <3>2. CASE j # n
      <4>1. j \in DOMAIN s /\ s[j] = Event(d) /\ d < e BY <2>1, <2>3, <3>2
      <4>2. i \in DOMAIN s /\ s[i] = Event(c)
        <5>1. c # e BY <2>3, <4>1
        <5> QED BY <2>1, <2>3, <5>1
      <4> QED BY <2>3, <4>1, <4>2 DEF Ordered
    <3> QED BY <3>1, <3>2
  <2> QED BY <2>2, <2>3 DEF Ordered
<1> QED BY <1>2, <1>3 DEF t

LEMMA AppendMoves ==
  ASSUME NEW a \in Seq(Frame), NEW b \in Seq(Frame), NEW c \in Seq(Frame), NEW x \in Frame
  PROVE  a \o b \o Append(c, x) = Append(a \o b \o c, x)
<1>1. ASSUME NEW y \in Seq(Frame) PROVE y \o Append(c, x) = Append(y \o c, x)
  <2>1. /\ Append(c, x) \in Seq(Frame) /\ Len(Append(c, x)) = Len(c) + 1 /\ y \o c \in Seq(Frame) /\ Len(y \o c) = Len(y) + Len(c)
        /\ Len(y) \in Nat /\ Len(c) \in Nat
        /\ \A i \in 1..Len(c) : Append(c, x)[i] = c[i]
        /\ Append(c, x)[Len(c) + 1] = x
    OBVIOUS
  <2>2. /\ y \o Append(c, x) \in Seq(Frame) /\ Len(y \o Append(c, x)) = Len(y) + Len(c) + 1
        /\ Append(y \o c, x) \in Seq(Frame) /\ Len(Append(y \o c, x)) = Len(y) + Len(c) + 1
    BY <2>1
  <2>3. \A i \in 1..Len(y) + Len(c) : (y \o Append(c, x))[i] = Append(y \o c, x)[i] BY <2>1
  <2>4. (y \o Append(c, x))[Len(y) + Len(c) + 1] = x /\ Append(y \o c, x)[Len(y) + Len(c) + 1] = x
    BY <2>1
  <2>5. \A i \in 1..Len(y) + Len(c) + 1 : i \in 1..Len(y) + Len(c) \/ i = Len(y) + Len(c) + 1 BY <2>1
  <2> QED BY <2>2, <2>3, <2>4, <2>5
<1>2. a \o b \in Seq(Frame) OBVIOUS
<1> QED BY <1>1, <1>2

\* Frames that have moved from one queue to the next are where they were.
LEMMA FrameMoved ==
  ASSUME NEW a \in Seq(Frame), NEW b \in Seq(Frame), NEW c \in Seq(Frame)
  PROVE  /\ b # <<>> => Append(a, Head(b)) \o Tail(b) \o c = a \o b \o c
         /\ c # <<>> => a \o Append(b, Head(c)) \o Tail(c) = a \o b \o c
<1>1. ASSUME NEW x \in Seq(Frame), NEW y \in Seq(Frame), y # <<>> PROVE Append(x, Head(y)) \o Tail(y) = x \o y
  <2> DEFINE l == Append(x, Head(y)) \o Tail(y)
  <2>1. /\ Head(y) = y[1] /\ Tail(y) \in Seq(Frame) /\ Len(Tail(y)) = Len(y) - 1 /\ Len(y) \in Nat \ {0} /\ Len(x) \in Nat
        /\ \A i \in 1..Len(y) - 1 : Tail(y)[i] = y[i + 1]
        /\ y[1] \in Frame
    BY <1>1
  <2>2. /\ Append(x, Head(y)) \in Seq(Frame) /\ Len(Append(x, Head(y))) = Len(x) + 1
        /\ \A i \in 1..Len(x) : Append(x, Head(y))[i] = x[i]
        /\ Append(x, Head(y))[Len(x) + 1] = y[1]
    BY <2>1
  <2>3. l \in Seq(Frame) /\ Len(l) = Len(x) + Len(y) /\ x \o y \in Seq(Frame) /\ Len(x \o y) = Len(x) + Len(y) BY <2>1, <2>2
  <2>4. \A i \in 1..Len(x) + Len(y) : l[i] = (x \o y)[i]
    <3> SUFFICES ASSUME NEW i \in 1..Len(x) + Len(y) PROVE l[i] = (x \o y)[i] OBVIOUS
    <3>1. CASE i <= Len(x) BY <2>1, <2>2, <3>1
    <3>2. CASE i = Len(x) + 1 BY <2>1, <2>2, <3>2
    <3>3. CASE i > Len(x) + 1
      <4>1. l[i] = Tail(y)[i - (Len(x) + 1)] BY <2>1, <2>2, <3>3
      <4>2. Tail(y)[i - (Len(x) + 1)] = y[i - Len(x)] BY <2>1, <3>3
      <4> QED BY <2>1, <3>3, <4>1, <4>2
    <3> QED BY <2>1, <3>1, <3>2, <3>3
  <2> QED BY <2>3, <2>4
<1>2. c # <<>> => a \o Append(b, Head(c)) = Append(a \o b, Head(c))
  <2> SUFFICES ASSUME c # <<>> PROVE a \o Append(b, Head(c)) = Append(a \o b, Head(c)) OBVIOUS
  <2>1. Head(c) \in Frame BY <1>1
  <2> HIDE <1>1
  <2> DEFINE x == Head(c)
  <2> HIDE DEF x
  <2>2. /\ Append(b, x) \in Seq(Frame) /\ Len(Append(b, x)) = Len(b) + 1 /\ a \o b \in Seq(Frame) /\ Len(a \o b) = Len(a) + Len(b)
        /\ Len(a) \in Nat /\ Len(b) \in Nat
        /\ \A i \in 1..Len(b) : Append(b, x)[i] = b[i]
        /\ Append(b, x)[Len(b) + 1] = x
    BY <2>1 DEF x
  <2>3. /\ a \o Append(b, x) \in Seq(Frame) /\ Len(a \o Append(b, x)) = Len(a) + Len(b) + 1
        /\ Append(a \o b, x) \in Seq(Frame) /\ Len(Append(a \o b, x)) = Len(a) + Len(b) + 1
    BY <2>1, <2>2 DEF x
  <2>4. \A i \in 1..Len(a) + Len(b) + 1 : (a \o Append(b, x))[i] = Append(a \o b, x)[i] BY <2>2
  <2> QED BY <2>3, <2>4 DEF x
<1>3. b # <<>> => Append(a, Head(b)) \o Tail(b) = a \o b BY <1>1
<1>4. a \o b \in Seq(Frame) /\ (c # <<>> => Append(a \o b, Head(c)) \o Tail(c) = a \o b \o c)
  <2>1. a \o b \in Seq(Frame) OBVIOUS
  <2> QED BY <1>1, <2>1
<1> QED BY <1>2, <1>3, <1>4

\* A frame in the middle that is no event can be read without trace.
LEMMA AnswerRead ==
  ASSUME NEW a \in Seq(Frame), NEW b \in Seq(Frame), NEW c \in Seq(Frame), b # <<>>, \A e \in 1..MaxEvents : Head(b) # Event(e)
  PROVE  EventsOf(a \o Tail(b) \o c) = EventsOf(a \o b \o c) /\ (Ordered(a \o b \o c) => Ordered(a \o Tail(b) \o c))
<1> DEFINE s == a \o b \o c
           t == a \o Tail(b) \o c
           k == Len(a) + 1
           l == Len(a) + Len(b) + Len(c)
           h == [i \in 1..l - 1 |-> IF i < k THEN i ELSE i + 1]
<1>1. /\ Tail(b) \in Seq(Frame) /\ Len(Tail(b)) = Len(b) - 1 /\ \A i \in 1..Len(b) - 1 : Tail(b)[i] = b[i + 1]
      /\ Len(a) \in Nat /\ Len(b) \in Nat \ {0} /\ Len(c) \in Nat /\ Head(b) = b[1]
  OBVIOUS
<1>2. /\ a \o b \in Seq(Frame) /\ Len(a \o b) = Len(a) + Len(b)
      /\ \A i \in 1..Len(a) : (a \o b)[i] = a[i]
      /\ \A i \in 1..Len(b) : (a \o b)[Len(a) + i] = b[i]
  BY <1>1
<1>3. /\ a \o Tail(b) \in Seq(Frame) /\ Len(a \o Tail(b)) = Len(a) + Len(b) - 1
      /\ \A i \in 1..Len(a) : (a \o Tail(b))[i] = a[i]
      /\ \A i \in 1..Len(b) - 1 : (a \o Tail(b))[Len(a) + i] = b[i + 1]
  BY <1>1
<1>4. s \in Seq(Frame) /\ DOMAIN s = 1..l /\ t \in Seq(Frame) /\ DOMAIN t = 1..l - 1 BY <1>1, <1>2, <1>3
<1>5. \A i \in 1..l - 1 : t[i] = s[h[i]]
  <2> SUFFICES ASSUME NEW i \in 1..l - 1 PROVE t[i] = s[h[i]] OBVIOUS
  <2>1. CASE i < k
    <3>1. t[i] = (a \o Tail(b))[i] /\ s[i] = (a \o b)[i] BY <1>1, <1>2, <1>3, <2>1
    <3> QED BY <1>1, <1>2, <1>3, <2>1, <3>1
  <2>2. CASE k <= i /\ i < Len(a) + Len(b)
    <3>1. t[i] = (a \o Tail(b))[i] /\ s[i + 1] = (a \o b)[i + 1] BY <1>1, <1>2, <1>3, <2>2
    <3>2. i - Len(a) \in 1..Len(b) - 1 /\ i = Len(a) + (i - Len(a)) /\ i + 1 = Len(a) + (i - Len(a) + 1) BY <1>1, <2>2
    <3>3. (a \o Tail(b))[i] = b[i - Len(a) + 1] BY <1>3, <3>2
    <3>4. (a \o b)[i + 1] = b[i - Len(a) + 1] BY <1>1, <1>2, <3>2
    <3> QED BY <1>1, <2>2, <3>1, <3>3, <3>4
  <2>3. CASE i >= Len(a) + Len(b)
    <3>1. t[i] = c[i - (Len(a) + Len(b) - 1)] BY <1>1, <1>3, <2>3
    <3>2. s[i + 1] = c[i + 1 - (Len(a) + Len(b))] BY <1>1, <1>2, <2>3
    <3> QED BY <1>1, <2>3, <3>1, <3>2
  <2> QED BY <1>1, <2>1, <2>2, <2>3
<1>6. s[k] = Head(b)
  <2>1. s[k] = (a \o b)[k] BY <1>1, <1>2
  <2> QED BY <1>1, <1>2, <2>1
<1>7. l \in Nat \ {0} /\ k \in 1..l BY <1>1
<1> HIDE DEF s, t, l, k
<1>8. h \in [DOMAIN t -> DOMAIN s] BY <1>4, <1>7
<1>9. \A i, j \in DOMAIN t : i < j => h[i] < h[j] BY <1>4, <1>7
<1>10. \A j \in DOMAIN s, e \in 1..MaxEvents : s[j] = Event(e) => \E i \in DOMAIN t : h[i] = j
  <2> SUFFICES ASSUME NEW j \in DOMAIN s, j # k PROVE \E i \in DOMAIN t : h[i] = j BY <1>6
  <2>1. CASE j < k
    <3>1. j \in 1..l - 1 BY <1>4, <1>7, <2>1
    <3> QED BY <1>4, <2>1, <3>1
  <2>2. CASE j > k
    <3>1. j - 1 \in 1..l - 1 /\ h[j - 1] = j BY <1>4, <1>7, <2>2
    <3> QED BY <1>4, <3>1
  <2> QED BY <1>4, <1>7, <2>1, <2>2
<1>11. DOMAIN s \subseteq Nat /\ DOMAIN t \subseteq Nat /\ \A i \in DOMAIN t : t[i] = s[h[i]] BY <1>4, <1>5
<1> HIDE DEF h
<1> QED BY <1>8, <1>9, <1>10, <1>11, FramesDropped DEF s, t

-----------------------------------------------------------------------------
(* What the steps do to the streams                                        *)

LEMMA StreamTypes ==
  ASSUME LinkTypeOK, NEW w \in Conn
  PROVE  /\ got[w] \in Seq(Frame) /\ down[w] \in Seq(Frame) /\ q[w] \in Seq(Frame) /\ Stream(w) \in Seq(Frame)
         /\ Told(w) = EventsOf(Stream(w)) /\ EventsOf(Stream(w)) \subseteq Nat /\ fanned \in Nat /\ lastWs \in Nat
<1>1. Deliver \subseteq Frame BY DEF Frame
<1>2. got[w] \in Seq(Deliver) /\ down[w] \in Seq(Frame) /\ q[w] \in Seq(Frame) BY DEF LinkTypeOK
<1>3. got[w] \in Seq(Frame)
  <2> HIDE DEF Frame, Deliver
  <2> QED BY <1>1, <1>2
<1>4. Stream(w) \in Seq(Frame)
  <2> HIDE DEF Frame
  <2> QED BY <1>2, <1>3 DEF Stream
<1>5. Told(w) = EventsOf(Stream(w)) BY DEF Told, EventsOf
<1>6. EventsOf(Stream(w)) \subseteq Nat BY LinkBounds DEF EventsOf
<1>7. fanned \in Nat /\ lastWs \in Nat BY LinkBounds DEF LinkTypeOK
<1> QED BY <1>2, <1>3, <1>4, <1>5, <1>6, <1>7

\* An answer and an event are different frames.
LEMMA NoAnswerIsEvent ==
  ASSUME NEW f \in Frame
  PROVE  (f.id = 0 <=> f \in Deliver) /\ (f.id # 0 => \A e \in 1..MaxEvents : f # Event(e))
<1>1. \A e : Event(e).id = 0 BY DEF Event
<1>2. f \in Reply => f.id # 0
  <2>1. f \in Reply => f.id \in 1..MaxAttempts BY DEF Reply
  <2> QED BY <2>1, LinkBounds
<1>3. f \in Deliver => f.id = 0 BY DEF Deliver
<1> QED BY <1>1, <1>2, <1>3 DEF Frame

\* NoHole and Quiet of one connection.
Good(w) ==
  /\ Ordered(Stream(w)) /\ Whole(Stream(w)) /\ EventsOf(Stream(w)) \subseteq 1..fanned
  /\ w > lastWs => peer[w] = "none"
  /\ peer[w] = "none" \/ (peer[w] = "open" /\ w \notin subs) => EventsOf(Stream(w)) = {}
  /\ w \in subs /\ peer[w] = "open" /\ EventsOf(Stream(w)) # {} => fanned \in EventsOf(Stream(w))

LEMMA GoodMeans ==
  /\ (Quiet /\ NoHole) <=> \A w \in Conn : Good(w)
  /\ (Quiet /\ NoHole)' <=> \A w \in Conn : Good(w)'
<1>1. \A w \in Conn : Told(w) = EventsOf(Stream(w)) /\ Told(w)' = EventsOf(Stream(w))' BY DEF Told, EventsOf
<1>2. (Quiet /\ NoHole) <=> \A w \in Conn : Good(w) BY <1>1 DEF Good, Quiet, NoHole, Ordered, Whole
<1>3. (Quiet /\ NoHole)' <=> \A w \in Conn : Good(w)' BY <1>1 DEF Good, Quiet, NoHole, Ordered, Whole
<1> QED BY <1>2, <1>3

\* Steps that leave the events of a stream and their order.
LEMMA GoodStands ==
  ASSUME NEW w \in Conn, Good(w), UNCHANGED <<fanned, lastWs>>,
         EventsOf(Stream(w))' = EventsOf(Stream(w)), Ordered(Stream(w)) => Ordered(Stream(w))',
         peer'[w] = peer[w] \/ (peer[w] # "none" /\ peer'[w] \notin {"none", "open"}),
         w \in subs => w \in subs' \/ peer'[w] # "open"
  PROVE  Good(w)'
BY DEF Good, Whole

\* What a peer that is closed had still to write is lost, with the connection.
LEMMA GoodCut ==
  ASSUME LinkTypeOK, NEW w \in Conn, Good(w), got'[w] = got[w], down'[w] = down[w], q'[w] = <<>>,
         lastWs' = lastWs, fanned' \in {fanned, fanned + 1}, peer[w] # "none", peer'[w] \notin {"none", "open"}
  PROVE  Good(w)'
<1>1. got[w] \in Seq(Frame) /\ down[w] \in Seq(Frame) /\ q[w] \in Seq(Frame) /\ fanned \in Nat BY StreamTypes
<1> DEFINE s == Stream(w)
           t == got[w] \o down[w] \o <<>>
<1>2. /\ DOMAIN s \subseteq Nat /\ DOMAIN t \subseteq DOMAIN s /\ (\A i \in DOMAIN t : t[i] = s[i])
      /\ \A i \in DOMAIN t, k \in DOMAIN s : k <= i => k \in DOMAIN t
  <2> HIDE DEF Frame
  <2>1. got[w] \o down[w] \in Seq(Frame) BY <1>1
  <2>2. \A a, b \in Seq(Frame) : /\ DOMAIN (a \o b) = 1..Len(a) + Len(b) /\ DOMAIN (a \o <<>>) = 1..Len(a) /\ Len(a) \in Nat /\ Len(b) \in Nat
                                 /\ \A i \in 1..Len(a) : (a \o b)[i] = a[i] /\ (a \o <<>>)[i] = a[i]
    OBVIOUS
  <2>3. s = (got[w] \o down[w]) \o q[w] BY DEF Stream
  <2> DEFINE a == got[w] \o down[w]
             b == q[w]
  <2>4. a \in Seq(Frame) /\ b \in Seq(Frame) /\ s = a \o b /\ t = a \o <<>> BY <1>1, <2>1, <2>3
  <2> HIDE DEF a, b, s, t
  <2>5. /\ DOMAIN s = 1..Len(a) + Len(b) /\ DOMAIN t = 1..Len(a) /\ Len(a) \in Nat /\ Len(b) \in Nat
        /\ \A i \in 1..Len(a) : s[i] = a[i] /\ t[i] = a[i]
    BY <2>2, <2>4
  <2> QED BY <2>5
<1>3. Stream(w)' = t BY DEF Stream
<1>4. Ordered(s) /\ Whole(s) BY DEF Good
<1> HIDE DEF s, t
<1>5. Ordered(t) /\ Whole(t) /\ EventsOf(t) \subseteq EventsOf(s) BY <1>2, <1>4, CutShort
<1>6. EventsOf(s) \subseteq 1..fanned BY DEF Good, s
<1>7. EventsOf(t) \subseteq 1..fanned' BY <1>1, <1>5, <1>6
<1>8. w > lastWs => peer[w] = "none" BY DEF Good
<1> QED BY <1>3, <1>5, <1>7, <1>8 DEF Good

LEMMA ReadStream ==
  ASSUME LinkTypeOK, Read, NEW w \in Conn
  PROVE  EventsOf(Stream(w))' = EventsOf(Stream(w)) /\ (Ordered(Stream(w)) => Ordered(Stream(w))')
<1>1. ws \in Conn /\ down[ws] # <<>> BY LinkBounds DEF LinkTypeOK, Read, Conn
<1> DEFINE f == Head(down[ws])
<1>2. /\ down' = [down EXCEPT ![ws] = Tail(down[ws])] /\ q' = q
      /\ got' = IF f.id = 0 THEN [got EXCEPT ![ws] = Append(got[ws], f)] ELSE got
  BY DEF Read, nodeVars
<1>3. /\ got[ws] \in Seq(Frame) /\ down[ws] \in Seq(Frame) /\ q[ws] \in Seq(Frame)
      /\ got \in [Conn -> Seq(Deliver)] /\ down \in [Conn -> Seq(Frame)]
  BY <1>1, StreamTypes DEF LinkTypeOK
<1>4. f \in Frame
  <2> HIDE DEF Frame
  <2> QED BY <1>1, <1>3
<1> HIDE DEF Frame
<1>5. CASE w # ws BY <1>1, <1>2, <1>3, <1>5 DEF Stream
<1>6. CASE w = ws /\ f.id = 0
  <2>1. Stream(w)' = Append(got[ws], f) \o Tail(down[ws]) \o q[ws]
    <3>1. got'[w] = Append(got[ws], f) /\ down'[w] = Tail(down[ws]) BY <1>1, <1>2, <1>3, <1>6
    <3> QED BY <1>2, <1>6, <3>1 DEF Stream
  <2>2. Append(got[ws], f) \o Tail(down[ws]) \o q[ws] = got[ws] \o down[ws] \o q[ws] BY <1>1, <1>3, FrameMoved
  <2>3. Stream(w)' = Stream(w) BY <1>6, <2>1, <2>2 DEF Stream
  <2> QED BY <2>3
<1>7. CASE w = ws /\ f.id # 0
  <2>1. Stream(w)' = got[ws] \o Tail(down[ws]) \o q[ws]
    <3>1. got'[w] = got[ws] /\ down'[w] = Tail(down[ws]) BY <1>1, <1>2, <1>3, <1>7
    <3> QED BY <1>2, <1>7, <3>1 DEF Stream
  <2>2. \A e \in 1..MaxEvents : f # Event(e) BY <1>4, <1>7, NoAnswerIsEvent
  <2> DEFINE s == got[ws] \o down[ws] \o q[ws]
             t == got[ws] \o Tail(down[ws]) \o q[ws]
  <2>3. EventsOf(t) = EventsOf(s) /\ (Ordered(s) => Ordered(t)) BY <1>1, <1>3, <2>2, AnswerRead
  <2>4. Stream(w)' = t /\ Stream(w) = s BY <1>7, <2>1 DEF Stream
  <2> QED BY <2>3, <2>4
<1> QED BY <1>5, <1>6, <1>7

LEMMA ReadGood == ASSUME LinkTypeOK, Read, NEW w \in Conn, Good(w) PROVE Good(w)'
BY ReadStream, GoodStands DEF Read, nodeVars, callVars

\* The writer moves a frame on, or closes the peer of a lost connection.
LEMMA DrainGood == ASSUME LinkTypeOK, NEW v \in Conn, Drain(v), NEW w \in Conn, Good(w) PROVE Good(w)'
<1>1. /\ peer[v] = "open" /\ q[v] # <<>> /\ UNCHANGED <<lastWs, fanned, subs, got>>
      /\ \/ v \in open /\ down' = [down EXCEPT ![v] = Append(down[v], Head(q[v]))] /\ q' = [q EXCEPT ![v] = Tail(q[v])] /\ peer' = peer
         \/ v \notin open /\ peer' = [peer EXCEPT ![v] = "closed"] /\ q' = [q EXCEPT ![v] = <<>>] /\ down' = down
  BY DEF Drain, wsVars
<1>2. /\ got[v] \in Seq(Frame) /\ down[v] \in Seq(Frame) /\ q[v] \in Seq(Frame)
      /\ down \in [Conn -> Seq(Frame)] /\ q \in [Conn -> Seq(Frame)] /\ peer \in [Conn -> {"none", "open", "closed", "gone"}]
  BY StreamTypes DEF LinkTypeOK
<1> HIDE DEF Frame
<1>3. CASE w # v
  <2>1. Stream(w)' = Stream(w) /\ peer'[w] = peer[w] BY <1>1, <1>2, <1>3 DEF Stream
  <2> QED BY <1>1, <2>1, GoodStands
<1>4. CASE w = v /\ v \in open
  <2>1. Stream(w)' = got[v] \o Append(down[v], Head(q[v])) \o Tail(q[v]) BY <1>1, <1>2, <1>4 DEF Stream
  <2>2. got[v] \o Append(down[v], Head(q[v])) \o Tail(q[v]) = got[v] \o down[v] \o q[v] BY <1>1, <1>2, FrameMoved
  <2>3. Stream(w)' = Stream(w) BY <1>4, <2>1, <2>2 DEF Stream
  <2> QED BY <1>1, <1>4, <2>3, GoodStands
<1>5. CASE w = v /\ v \notin open
  <2>1. q'[w] = <<>> /\ peer'[w] = "closed" BY <1>1, <1>2, <1>5
  <2> QED BY <1>1, <1>5, <2>1, GoodCut
<1> QED BY <1>3, <1>4, <1>5

LEMMA PeerEndsGood == ASSUME LinkTypeOK, NEW v \in Conn, PeerEnds(v), NEW w \in Conn, Good(w) PROVE Good(w)'
<1>1. /\ peer[v] \in {"open", "closed"} /\ UNCHANGED <<lastWs, fanned, down, got>>
      /\ peer' = [peer EXCEPT ![v] = "gone"] /\ subs' = subs \ {v} /\ q' = [q EXCEPT ![v] = <<>>]
  BY DEF PeerEnds, callVars
<1>2. q \in [Conn -> Seq(Frame)] /\ peer \in [Conn -> {"none", "open", "closed", "gone"}] BY DEF LinkTypeOK
<1>3. CASE w # v
  <2>1. Stream(w)' = Stream(w) /\ peer'[w] = peer[w] BY <1>1, <1>2, <1>3 DEF Stream
  <2> QED BY <1>1, <1>3, <2>1, GoodStands
<1>4. CASE w = v
  <2>1. q'[w] = <<>> /\ peer'[w] = "gone" BY <1>1, <1>2, <1>4
  <2> QED BY <1>1, <1>4, <2>1, GoodCut
<1> QED BY <1>3, <1>4

\* An answer is no event; a peer that is subscribed has carried none.
LEMMA HandleGood ==
  ASSUME LinkTypeOK, NEW v \in Conn, NEW m \in handling[v], NEW code \in Code, Handle(v, m, code), NEW w \in Conn, Good(w)
  PROVE  Good(w)'
<1> DEFINE f == [id |-> m.id, code |-> code]
<1>1. q' = SendTo(v, f) /\ UNCHANGED <<lastWs, fanned, down, got, peer>> /\ subs \subseteq subs' BY DEF Handle, wsVars
<1>2. f \in Frame /\ f.id # 0
  <2>1. m \in Req BY DEF LinkTypeOK
  <2>2. m.id \in 1..MaxAttempts BY <2>1 DEF Req
  <2>3. f \in Reply BY <2>2 DEF Reply
  <2> QED BY <2>2, <2>3, LinkBounds DEF Frame
<1> HIDE DEF f
<1>3. q \in [Conn -> Seq(Frame)] /\ got[w] \in Seq(Frame) /\ down[w] \in Seq(Frame) /\ q[w] \in Seq(Frame) /\ Stream(w) \in Seq(Frame)
  BY StreamTypes DEF LinkTypeOK
<1>4. \A e \in 1..MaxEvents : f # Event(e) BY <1>2, NoAnswerIsEvent
<1> HIDE DEF Frame
<1>5. Stream(w)' = Stream(w) \/ Stream(w)' = Append(Stream(w), f)
  <2>1. q'[w] = q[w] \/ q'[w] = Append(q[w], f) BY <1>1, <1>3 DEF SendTo
  <2>2. got[w] \o down[w] \o Append(q[w], f) = Append(got[w] \o down[w] \o q[w], f) BY <1>2, <1>3, AppendMoves
  <2> QED BY <1>1, <2>1, <2>2 DEF Stream
<1>6. EventsOf(Stream(w))' = EventsOf(Stream(w)) /\ (Ordered(Stream(w)) => Ordered(Stream(w))')
  BY <1>2, <1>3, <1>4, <1>5, FrameAdded
<1> QED BY <1>1, <1>6, GoodStands

LEMMA FanoutGood == ASSUME LinkTypeOK, Fanout, NEW w \in Conn, Good(w) PROVE Good(w)'
<1> DEFINE n == fanned + 1
<1>1. /\ fanned' = n /\ UNCHANGED <<lastWs, down, got, subs>>
      /\ peer' = [v \in Conn |-> IF Slow(v) THEN "closed" ELSE peer[v]]
      /\ q' = [v \in Conn |-> IF Slow(v) THEN <<>> ELSE IF v \in subs /\ Takes(v) THEN Append(q[v], Event(n)) ELSE q[v]]
  BY DEF Fanout, wsVars
<1>2. fanned \in Nat /\ n \in 1..MaxEvents
  <2>1. situation.events \in 0..MaxEvents BY LinkBounds DEF LinkTypeOK
  <2> QED BY <2>1, LinkBounds DEF Fanout, LinkTypeOK
<1>3. Event(n) \in Frame BY <1>2 DEF Event, Frame, Deliver
<1>4. got[w] \in Seq(Frame) /\ down[w] \in Seq(Frame) /\ q[w] \in Seq(Frame) /\ Stream(w) \in Seq(Frame)
  BY StreamTypes
<1>5. EventsOf(Stream(w)) \subseteq 1..fanned BY DEF Good
<1> HIDE DEF Frame
<1>6. CASE Slow(w)
  <2>1. q'[w] = <<>> /\ peer'[w] = "closed" /\ peer[w] = "open" BY <1>1, <1>6 DEF Slow
  <2> QED BY <1>1, <2>1, GoodCut
<1>7. CASE w \in subs /\ Takes(w) /\ ~ Slow(w)
  <2>1. q'[w] = Append(q[w], Event(n)) /\ peer'[w] = peer[w] /\ peer[w] = "open" BY <1>1, <1>7 DEF Takes
  <2>2. Stream(w)' = Append(Stream(w), Event(n))
    <3> HIDE DEF n
    <3>1. got[w] \o down[w] \o Append(q[w], Event(n)) = Append(got[w] \o down[w] \o q[w], Event(n))
      BY <1>3, <1>4, AppendMoves
    <3> QED BY <1>1, <2>1, <3>1 DEF Stream
  <2> HIDE DEF n
  <2>3. EventsOf(Stream(w))' = EventsOf(Stream(w)) \cup {n} /\ Ordered(Stream(w))'
    <3>1. \A d \in EventsOf(Stream(w)) : d < n BY <1>2, <1>5 DEF n
    <3>2. Ordered(Stream(w)) BY DEF Good
    <3> QED BY <1>2, <1>3, <1>4, <2>2, <3>1, <3>2, FrameAdded
  <2>4. ASSUME NEW d \in EventsOf(Stream(w)), NEW k \in d..n PROVE k \in EventsOf(Stream(w)) \cup {n}
    <3>1. CASE k = n BY <3>1
    <3>2. CASE k # n
      <4>1. fanned \in EventsOf(Stream(w)) BY <1>7, <2>1, <2>4 DEF Good
      <4>2. d \in Nat /\ k \in d..fanned BY <1>2, <1>5, <2>4, <3>2 DEF n
      <4> QED BY <2>4, <4>1, <4>2 DEF Good, Whole
    <3> QED BY <3>1, <3>2
  <2>5. Whole(Stream(w))'
    <3>1. \A d, e \in EventsOf(Stream(w)) : d..e \subseteq EventsOf(Stream(w)) BY DEF Good, Whole
    <3>2. \A e \in EventsOf(Stream(w)) \cup {n} : n..e \subseteq {n} BY <1>2, <1>5 DEF n
    <3> QED BY <2>3, <2>4, <3>1, <3>2 DEF Whole
  <2>6. EventsOf(Stream(w))' \subseteq 1..n BY <1>2, <1>5, <2>3 DEF n
  <2> QED BY <1>1, <1>7, <2>1, <2>3, <2>5, <2>6 DEF Good, n
<1>8. CASE ~ Slow(w) /\ ~ (w \in subs /\ Takes(w))
  <2>1. q'[w] = q[w] /\ peer'[w] = peer[w] BY <1>1, <1>8
  <2>2. Stream(w)' = Stream(w) BY <1>1, <2>1 DEF Stream
  <2>3. ~ (w \in subs /\ peer[w] = "open") BY <1>8 DEF Slow
  <2>4. 1..fanned \subseteq 1..n BY <1>2
  <2> QED BY <1>1, <2>1, <2>2, <2>3, <2>4 DEF Good
<1> QED BY <1>6, <1>7, <1>8

LEMMA ConnectGood == ASSUME LinkTypeOK, Connect, NEW w \in Conn, Good(w) PROVE Good(w)'
<1>1. /\ lastWs' = lastWs + 1 /\ UNCHANGED <<fanned, subs, down, got, q>> /\ peer' = [peer EXCEPT ![lastWs + 1] = "open"]
  BY DEF Connect
<1>2. Stream(w)' = Stream(w) BY <1>1 DEF Stream
<1>3. lastWs \in Nat /\ w \in Nat /\ lastWs + 1 \in Conn BY LinkBounds DEF LinkTypeOK, Conn, Connect
<1>4. CASE w = lastWs + 1
  <2>1. peer[w] = "none" /\ EventsOf(Stream(w)) = {} BY <1>3, <1>4 DEF Good
  <2>2. ~ (w > lastWs') /\ peer'[w] = "open" BY <1>1, <1>3, <1>4 DEF LinkTypeOK
  <2> QED BY <1>1, <1>2, <2>1, <2>2 DEF Good
<1>5. CASE w # lastWs + 1
  <2>1. peer'[w] = peer[w] /\ (w > lastWs' => w > lastWs) BY <1>1, <1>3, <1>5 DEF LinkTypeOK
  <2> QED BY <1>1, <1>2, <2>1 DEF Good
<1> QED BY <1>4, <1>5

LEMMA StreamStep == ASSUME LinkTypeOK, Quiet /\ NoHole, [LinkNext]_linkVars PROVE (Quiet /\ NoHole)'
<1>1. \A w \in Conn : Good(w) BY GoodMeans
<1> SUFFICES ASSUME NEW w \in Conn PROVE Good(w)' BY GoodMeans
<1>2. Good(w) BY <1>1
<1>3. LinkTypeOK OBVIOUS
<1>4. CASE UNCHANGED <<nodeVars, down, got, lastWs>>
  <2>1. Stream(w)' = Stream(w) BY <1>4 DEF Stream, nodeVars
  <2> QED BY <1>2, <1>4, <2>1, GoodStands DEF nodeVars
<1>5. CASE \E c \in Call : SendRequest(c)
  <2>1. UNCHANGED <<lastWs, q, peer, subs, fanned, down, got>> BY <1>5 DEF SendRequest
  <2>2. Stream(w)' = Stream(w) BY <2>1 DEF Stream
  <2> QED BY <1>2, <2>1, <2>2, GoodStands
<1>6. CASE Connect BY <1>2, <1>3, <1>6, ConnectGood
<1>7. CASE Read BY <1>2, <1>3, <1>7, ReadGood
<1>8. CASE Serve
  <2>1. PICK v \in Conn : NodeSide(v) BY <1>8 DEF Serve
  <2> QED BY <1>2, <1>3, <2>1, DrainGood, PeerEndsGood, HandleGood DEF NodeSide
<1>9. CASE Fanout BY <1>2, <1>3, <1>9, FanoutGood
<1>10. \/ UNCHANGED <<nodeVars, down, got, lastWs>> \/ (\E c \in Call : SendRequest(c)) \/ Connect \/ Read \/ Serve \/ Fanout
  BY DEF LinkNext, MakeCalls, RunLink, CallOwner, Expire, Resume, Wake, GiveUp, DeadlinePasses, LinkDown, Break, linkVars, wsVars
<1> QED BY <1>4, <1>5, <1>6, <1>7, <1>8, <1>9, <1>10

LEMMA StreamInitially == ASSUME LinkInit, LinkTypeOK PROVE Quiet /\ NoHole
<1> SUFFICES ASSUME NEW w \in Conn PROVE Good(w) BY GoodMeans
<1>1. Stream(w) = <<>> BY DEF LinkInit, Stream
<1>2. EventsOf(Stream(w)) = {} BY <1>1 DEF EventsOf
<1>3. Ordered(Stream(w)) /\ Whole(Stream(w)) BY <1>1, <1>2 DEF Ordered, Whole
<1> QED BY <1>2, <1>3 DEF LinkInit, Good

\* QueuePeer.send and _fanout: the events that a connection carries have no hole,
\* whatever the calls, the queue and the connections.
THEOREM EventsHaveNoHole == LinkSpec => []NoHole
<1>1. LinkSpec => []LinkTypeOK BY LinkTypeCorrect
<1>2. LinkInit /\ LinkTypeOK => Quiet /\ NoHole BY StreamInitially
<1>3. LinkTypeOK /\ (Quiet /\ NoHole) /\ [LinkNext]_linkVars => (Quiet /\ NoHole)' BY StreamStep
<1> QED BY <1>1, <1>2, <1>3, PTL DEF LinkSpec

=============================================================================
