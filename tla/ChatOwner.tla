----------------------------- MODULE ChatOwner ------------------------------
(***************************************************************************)
(* The publish path of one chat: PubSubNode._publish, load_chat and        *)
(* _append_and_fanout (app/pubsub.py) on every pub/sub node at once, over  *)
(* the message store (app/store.py).  Which node may serve is left to      *)
(* ShardOwnership, so several nodes may believe that they own the chat.    *)
(*                                                                         *)
(* A request is one `publish` frame that a node is handling; a gateway     *)
(* that retries sends another one with the same client_msg_id.  Requests   *)
(* interleave at every await of the code: the wait for the per-chat lock,  *)
(* the calls of run_db and verify_owner.  A ChatSeq is an in-memory object *)
(* of its own: a request keeps the one it loaded even when its node has    *)
(* forgotten it and loads a second one.                                    *)
(***************************************************************************)
EXTENDS ShardOwnership, Naturals, FiniteSets, FiniteSetsExt, Functions

CONSTANTS
  Request,      \* slots for publish frames being handled, on all nodes
  Cmid,         \* client_msg_ids
  ChatSeq,      \* identities of ChatSeq objects
  NoSeq,        \* the node has no ChatSeq for the chat
  MaxMessages,  \* bound on the messages stored or being written
  DedupeLRU,    \* DEDUPE_LRU, the size of a node's dedupe table
  Attempts      \* attempts of the append loop: range(2)

ASSUME ChatOwnerAssumption ==
  /\ NoNode \notin Node
  /\ NoSeq \notin ChatSeq
  /\ MaxMessages \in Nat /\ DedupeLRU \in Nat \ {0} /\ Attempts \in Nat \ {0}

VARIABLES
  message,    \* table message: message_id -> client_msg_id
  chats,      \* node -> its ChatSeq for the chat, or NoSeq
  dedupe,     \* node -> its table client_msg_id -> message_id (0: absent)
  head,       \* ChatSeq -> head
  loaded,     \* ChatSeq -> loaded
  req,        \* request -> the local state of its handler, or Idle
  acked       \* the pairs replied as `published` (history)

seqVars == <<head, loaded>>
vars == <<ownershipVars, message, chats, dedupe, seqVars, req, acked>>

-----------------------------------------------------------------------------
(* The store.                                                              *)

\* max_message_id: COALESCE(MAX(message_id), 0)
max_message_id == Max(DOMAIN message \cup {0})

\* client_msg_id is already stored: the UNIQUE constraint / client_msg row
StoredCmid(k) == k \in Range(message)

MessageIdOf(k) == CHOOSE i \in DOMAIN message : message[i] = k

Insert(i, k) == [j \in DOMAIN message \cup {i} |-> IF j = i THEN k ELSE message[j]]

NoDedupe == [k \in Cmid |-> 0]

\* _dedupe_put: set the entry; beyond DEDUPE_LRU an older one is evicted.
DedupePut(table, k, i) ==
  LET put == [table EXCEPT ![k] = i]
      entries == {c \in Cmid : put[c] # 0}
  IN IF Cardinality(entries) > DedupeLRU
     THEN {[put EXCEPT ![c] = 0] : c \in entries \ {k}}
     ELSE {put}

-----------------------------------------------------------------------------
(* Requests.                                                               *)

Idle == [at |-> "idle"]

\* the places where a handler is suspended inside `async with cs.lock`
InLock == {"append", "appended", "duplicate", "conflict", "store_error", "verify"}

\* at: where the handler is suspended; node: where it runs; seq: its ChatSeq;
\* mid: the message_id being written, or the one that was found
Handler == [at : InLock \cup {"load", "lock", "orphan"}, node : Node, seq : ChatSeq,
            cmid : Cmid, attempt : Nat, mid : Nat]

\* Mutant: the lock is left before the handler resumes with the result.
Locked_EarlyRelease(c) == \E r \in Request : req[r].at = "append" /\ req[r].seq = c

Locked(c) == \E r \in Request : req[r].at \in InLock /\ req[r].seq = c

\* A ChatSeq that nothing refers to: what ChatSeq() returns.
Fresh(c) == /\ \A n \in Node : chats[n] # c
            /\ \A r \in Request : req[r] # Idle => req[r].seq # c

TypeOK ==
  /\ OwnershipTypeOK
  /\ DOMAIN message \subseteq Nat \ {0}
  /\ message = [i \in DOMAIN message |-> message[i]]
  /\ Range(message) \subseteq Cmid
  /\ chats \in [Node -> ChatSeq \cup {NoSeq}]
  /\ dedupe \in [Node -> [Cmid -> Nat]]
  /\ head \in [ChatSeq -> Nat]
  /\ loaded \in [ChatSeq -> BOOLEAN]
  /\ req \in [Request -> Handler \cup {Idle}]
  /\ acked \subseteq Cmid \X Nat

Init ==
  /\ OwnershipInit
  /\ message = <<>>
  /\ chats = [n \in Node |-> NoSeq]
  /\ dedupe = [n \in Node |-> NoDedupe]
  /\ head = [c \in ChatSeq |-> 0]
  /\ loaded = [c \in ChatSeq |-> FALSE]
  /\ req = [r \in Request |-> Idle]
  /\ acked = {}

-----------------------------------------------------------------------------
(* _forget_shard_state pops the dedupe table only next to a ChatSeq.       *)
Forget(n) ==
  /\ chats' = [chats EXCEPT ![n] = NoSeq]
  /\ dedupe' = IF chats[n] = NoSeq THEN dedupe
                                   ELSE [dedupe EXCEPT ![n] = NoDedupe]

ClaimShard(n) ==
  /\ Claimed(n)
  /\ Forget(n)
  /\ UNCHANGED <<message, seqVars, req, acked>>

DropShard(n) ==
  /\ n \in owned
  /\ Drop(n)
  /\ Forget(n)
  /\ UNCHANGED <<message, seqVars, req, acked>>

LeaseEvent ==
  /\ \/ KeyGone \/ SuspensionChanges
     \/ \E n \in Node : ClaimKey(n)
  /\ UNCHANGED <<message, chats, dedupe, seqVars, req, acked>>

\* What is left of a handler of the crashed node n: a write that is already
\* on its way to the store still arrives ("orphan").
AfterCrash(q, n) ==
  IF q = Idle \/ q.at = "orphan" THEN q
  ELSE IF q.node # n THEN q
  ELSE IF q.at = "append" THEN [q EXCEPT !.at = "orphan"] ELSE Idle

\* The process dies and a new one starts under the same NODE_ID.
CrashNode(n) ==
  /\ Restart(n)
  /\ chats' = [chats EXCEPT ![n] = NoSeq]
  /\ dedupe' = [dedupe EXCEPT ![n] = NoDedupe]
  /\ req' = [r \in Request |-> AfterCrash(req[r], n)]
  /\ UNCHANGED <<message, seqVars, acked>>

-----------------------------------------------------------------------------
(* Steps of the handler of request r.                                      *)

Suspended(r, q) == req' = [req EXCEPT ![r] = q]
GoesTo(r, place) == Suspended(r, [req[r] EXCEPT !.at = place])

\* The handler ends; if it held the lock of its ChatSeq, the lock is free.
Ends(r) == Suspended(r, Idle)

Replies(k, i) == acked' = acked \cup {<<k, i>>}

\* After load_chat: a dedupe hit is answered at once, else wait for the lock.
Admit(r, q) ==
  LET hit == dedupe[q.node][q.cmid] IN
  IF hit # 0
  THEN Replies(q.cmid, hit) /\ Ends(r)
  ELSE Suspended(r, [q EXCEPT !.at = "lock"]) /\ UNCHANGED acked

\* Bound: what is stored plus what may still be written fits MaxMessages.
RoomForOneMore ==
  Cardinality(DOMAIN message) + Cardinality({r \in Request : req[r] # Idle})
    < MaxMessages

\* _publish: can_serve, then load_chat finds the ChatSeq or makes one.
Publish(r, n, k, c) ==
  LET q == [at |-> "load", node |-> n, seq |-> c, cmid |-> k,
            attempt |-> 0, mid |-> 0]
  IN /\ req[r] = Idle
     /\ RoomForOneMore
     /\ can_serve(n)
     /\ \/ /\ chats[n] = NoSeq
           /\ Fresh(c)
           /\ chats' = [chats EXCEPT ![n] = c]
           /\ head' = [head EXCEPT ![c] = 0]
           /\ loaded' = [loaded EXCEPT ![c] = FALSE]
           /\ Suspended(r, q)
           /\ UNCHANGED acked
        \/ /\ chats[n] = c
           /\ IF loaded[c] THEN Admit(r, q) ELSE Suspended(r, q) /\ UNCHANGED acked
           /\ UNCHANGED <<chats, seqVars>>
     /\ UNCHANGED <<ownershipVars, message, dedupe>>

\* load_chat under the lock; a second loader finds cs.loaded set.
LoadChat(r) ==
  LET c == req[r].seq IN
  /\ req[r].at = "load"
  /\ ~ Locked(c)
  /\ IF loaded[c] THEN UNCHANGED seqVars
     ELSE /\ head' = [head EXCEPT ![c] = max_message_id]
          /\ loaded' = [loaded EXCEPT ![c] = TRUE]
  /\ Admit(r, req[r])
  /\ UNCHANGED <<ownershipVars, message, chats, dedupe>>

\* load_chat raises StoreError: STORE_ERROR, the ChatSeq stays unloaded.
LoadFails(r) ==
  /\ req[r].at = "load"
  /\ ~ Locked(req[r].seq) /\ ~ loaded[req[r].seq]
  /\ Ends(r)
  /\ UNCHANGED <<ownershipVars, message, chats, dedupe, seqVars, acked>>

\* One turn of the append loop, up to the call of append_message.
TryAppend(r, turn) ==
  IF can_serve(req[r].node)
  THEN Suspended(r, [req[r] EXCEPT !.at = "append", !.attempt = turn,
                                   !.mid = head[req[r].seq] + 1])
  ELSE Ends(r)                                      \* NOT_OWNER

\* Mutant: the head moves when the id is chosen, not when it is stored.
Acquire_HeadFirst(r) ==
  /\ req[r].at = "lock"
  /\ ~ Locked(req[r].seq)
  /\ TryAppend(r, 1)
  /\ head' = [head EXCEPT ![req[r].seq] = @ + 1]
  /\ UNCHANGED <<ownershipVars, message, chats, dedupe, loaded, acked>>

Acquire(r) ==
  /\ req[r].at = "lock"
  /\ ~ Locked(req[r].seq)
  /\ TryAppend(r, 1)
  /\ UNCHANGED <<ownershipVars, message, chats, dedupe, seqVars, acked>>

-----------------------------------------------------------------------------
(* append_message, executed by the store.  Both back ends look at the      *)
(* client_msg_id before they report an id conflict.  A StoreError leaves    *)
(* open whether the write was applied (a service error after the commit).  *)

\* Mutant: no UNIQUE (chat_id, client_msg_id), no client_msg condition.
StoreOutcome_NoCmid(q) == IF q.mid \in DOMAIN message THEN "conflict" ELSE "appended"

\* Mutant: no condition on the message_id, the row is overwritten.
StoreOutcome_NoFencing(q) == IF StoredCmid(q.cmid) THEN "duplicate" ELSE "appended"

StoreOutcome(q) ==
  IF StoredCmid(q.cmid) THEN "duplicate"
  ELSE IF q.mid \in DOMAIN message THEN "conflict" ELSE "appended"

\* The result reaches the handler, unless its process is gone.
Answer(r, result) ==
  LET q == req[r] IN
  IF q.at = "orphan" THEN Ends(r)
  ELSE IF result = "duplicate"
       THEN Suspended(r, [q EXCEPT !.at = result, !.mid = MessageIdOf(q.cmid)])
       ELSE GoesTo(r, result)

StoreAppend(r) ==
  LET q == req[r] IN
  /\ q.at \in {"append", "orphan"}
  /\ message' = IF StoreOutcome(q) = "appended" THEN Insert(q.mid, q.cmid)
                                                ELSE message
  /\ Answer(r, StoreOutcome(q)) \/ Answer(r, "store_error")
  /\ UNCHANGED <<ownershipVars, chats, dedupe, seqVars, acked>>

StoreRefuses(r) ==
  /\ req[r].at \in {"append", "orphan"}
  /\ Answer(r, "store_error")
  /\ UNCHANGED <<ownershipVars, message, chats, dedupe, seqVars, acked>>

-----------------------------------------------------------------------------
(* The handler resumes.                                                    *)

Remember(q) ==
  \E t \in DedupePut(dedupe[q.node], q.cmid, q.mid) :
    dedupe' = [dedupe EXCEPT ![q.node] = t]

\* Appended: head, dedupe, fan-out and the reply, all before the lock is left
Appended(r) ==
  LET q == req[r] IN
  /\ q.at = "appended"
  /\ head' = [head EXCEPT ![q.seq] = q.mid]
  /\ Remember(q)
  /\ Replies(q.cmid, q.mid)
  /\ Ends(r)
  /\ UNCHANGED <<ownershipVars, message, chats, loaded>>

\* Duplicate: no fan-out, the reply carries the id found
Duplicate(r) ==
  LET q == req[r] IN
  /\ q.at = "duplicate"
  /\ head' = [head EXCEPT ![q.seq] = IF head[q.seq] > q.mid THEN head[q.seq]
                                                            ELSE q.mid]
  /\ Remember(q)
  /\ Replies(q.cmid, q.mid)
  /\ Ends(r)
  /\ UNCHANGED <<ownershipVars, message, chats, loaded>>

\* Mutant: a StoreError is retried in the loop, under the lock, without limit.
StoreErrorReply_Retry(r) ==
  /\ req[r].at = "store_error"
  /\ GoesTo(r, "append")
  /\ UNCHANGED <<ownershipVars, message, chats, dedupe, seqVars, acked>>

StoreErrorReply(r) ==
  /\ req[r].at = "store_error"
  /\ Ends(r)
  /\ UNCHANGED <<ownershipVars, message, chats, dedupe, seqVars, acked>>

\* IdConflict: reread the head ...
RereadHead(r) ==
  /\ req[r].at = "conflict"
  /\ head' = [head EXCEPT ![req[r].seq] = max_message_id]
  /\ GoesTo(r, "verify")
  /\ UNCHANGED <<ownershipVars, message, chats, dedupe, loaded, acked>>

\* ... and ask etcd: still the holder, so another turn of the loop;
VerifiedOwner(r) ==
  /\ req[r].at = "verify"
  /\ holder = req[r].node
  /\ IF req[r].attempt < Attempts THEN TryAppend(r, req[r].attempt + 1) ELSE Ends(r)
  /\ UNCHANGED <<ownershipVars, message, chats, dedupe, seqVars, acked>>

\* not the holder, so _drop_shard and NOT_OWNER;
NotOwner(r) ==
  /\ req[r].at = "verify"
  /\ holder # req[r].node
  /\ Drop(req[r].node)
  /\ Forget(req[r].node)
  /\ Ends(r)
  /\ UNCHANGED <<message, seqVars, acked>>

\* the reread or the etcd call raises: the handler ends without a reply.
ConflictHandlingFails(r) ==
  /\ req[r].at \in {"conflict", "verify"}
  /\ Ends(r)
  /\ UNCHANGED <<ownershipVars, message, chats, dedupe, seqVars, acked>>

-----------------------------------------------------------------------------
Resumes(r) ==
  \/ Appended(r) \/ Duplicate(r) \/ StoreErrorReply(r)
  \/ RereadHead(r) \/ VerifiedOwner(r) \/ NotOwner(r) \/ ConflictHandlingFails(r)

StoreStep(r) == StoreAppend(r) \/ StoreRefuses(r)

Next ==
  \/ \E n \in Node : ClaimShard(n) \/ DropShard(n) \/ CrashNode(n)
  \/ LeaseEvent
  \/ \E r \in Request, n \in Node, k \in Cmid, c \in ChatSeq : Publish(r, n, k, c)
  \/ \E r \in Request :
       \/ LoadChat(r) \/ LoadFails(r) \/ Acquire(r)
       \/ StoreStep(r) \/ Resumes(r)

Spec == Init /\ [][Next]_vars

\* asyncio resumes every ready handler, asyncio.Lock is handed over in FIFO
\* order, and every call of the store or of etcd returns or times out.
Fairness ==
  \A r \in Request :
    /\ SF_vars(LoadChat(r)) /\ SF_vars(Acquire(r))
    /\ WF_vars(StoreStep(r)) /\ WF_vars(Resumes(r))

FairSpec == Spec /\ Fairness

-----------------------------------------------------------------------------
(* message_id is gap-free: the ids stored are exactly 1..n.  The client    *)
(* takes a jump of the ids for a lost message (DESIGN, deep dive 2), so a  *)
(* hole would make it wait for ever.  Several owners, rereads of the head  *)
(* and late writes must not leave one.                                     *)
Contiguous == DOMAIN message = 1..max_message_id

(* A client_msg_id is stored at most once, across retries and owners.      *)
StoredOnce == IsInjective(message)

(* Persist before ack: a `published` reply names the id under which that   *)
(* client_msg_id is in the store, also when it comes from a node's dedupe  *)
(* table or from the Duplicate branch.                                     *)
AckedIsStored ==
  \A a \in acked : a[2] \in DOMAIN message /\ message[a[2]] = a[1]

(* Fan-outs from one ChatSeq carry ascending ids (the comment at the call  *)
(* of _fanout): no other handler has moved the head between the choice of   *)
(* the id and the fan-out, although the store was awaited in between.       *)
FanoutAscends ==
  [][\A r \in Request : Appended(r) => req[r].mid > head[req[r].seq]]_vars

(* The inductive invariant behind the four properties above: nobody's head *)
(* is beyond the store, a pending write aims at the next id at most, what  *)
(* a handler or a dedupe table remembers is what the store holds, and a    *)
(* handler inside the lock is alone there with the head it started from.   *)
HeadBehind == \A c \in ChatSeq : head[c] <= max_message_id
WritesNext ==
  \A r \in Request : req[r].at \in {"append", "orphan"} =>
    req[r].mid \in 1 .. max_message_id + 1
FoundIsStored ==
  \A r \in Request : req[r].at \in {"appended", "duplicate"} =>
    req[r].mid \in DOMAIN message /\ message[req[r].mid] = req[r].cmid
DedupeIsStored ==
  \A n \in Node, k \in Cmid : dedupe[n][k] # 0 =>
    dedupe[n][k] \in DOMAIN message /\ message[dedupe[n][k]] = k
OneInLock ==
  \A r, q \in Request :
    req[r].at \in InLock /\ req[q].at \in InLock /\ req[r].seq = req[q].seq => r = q
HeadFrozen ==
  \A r \in Request : req[r].at \in {"append", "appended"} =>
    req[r].mid = head[req[r].seq] + 1

Inductive ==
  /\ Contiguous /\ StoredOnce /\ AckedIsStored
  /\ HeadBehind /\ WritesNext /\ FoundIsStored /\ DedupeIsStored
  /\ OneInLock /\ HeadFrozen

(* The whole path implements the one append-only log of the chat.          *)
Log == INSTANCE ChatLog WITH log <- message, acked <- acked
ImplementsChatLog == Log!Spec

(* Every publish frame that a node starts to handle comes to an end: the   *)
(* lock is released on every path through the append loop.                 *)
PublishEnds == \A r \in Request : req[r] # Idle ~> req[r] = Idle

=============================================================================
