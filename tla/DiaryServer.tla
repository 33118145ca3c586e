---------------------------- MODULE DiaryServer -----------------------------
(***************************************************************************)
(* diary-server: main.c and client_handler.c over the tables of            *)
(* DiaryStorage.                                                           *)
(*                                                                         *)
(* main() hands every authenticated connection to a child process of its   *)
(* own, which runs diary_handle() and shares nothing but the database file *)
(* with the other children.  A slot of Sessions is one connection: the     *)
(* child that serves it, the bytes under way in both directions and the    *)
(* peer's end of the socket.  The peer here is any program that speaks the *)
(* line protocol, with no promise to wait for an answer; module Diary      *)
(* replaces it by the client of this repository.                           *)
(***************************************************************************)
EXTENDS DiaryStorage, Sequences

CONSTANTS
    Sessions,       \* connection slots
    MaxInFlight,    \* bound: commands and answers under way per connection
    BadKey,         \* a REGISTER argument that is not a 32-byte base64 key
    Junk            \* the data of "POST <x> <data>" with a refused epoch x

ASSUME MaxInFlightAssumption == MaxInFlight \in Nat \ {0}
ASSUME BadKeyAssumption      == BadKey \notin Keys
ASSUME JunkAssumption        == Junk \subseteq Data /\ Junk # {}

NoEpoch  == 0       \* "POST <data>": no space in the payload
BadEpoch == -1      \* "POST <x> <data>" where atol(x) <= 0

\* The command lines diary_handle() tells apart.  An id that names no entry
\* (atoi of garbage, a negative number) is 0.
Requests ==
         [op : {"REGISTER"}, key : Keys \cup {BadKey}]
    \cup [op : {"POST"}, epoch : Stamps \cup {NoEpoch, BadEpoch}, data : Data]
    \cup [op : {"GET", "QUIT", "BADUPDATE", "OTHER"}]
    \cup [op : {"UPDATE"}, id : Ids \cup {0}, data : Data]
    \cup [op : {"DELETE"}, id : Ids \cup {0}]

\* The rows of one GET, by id: the order of ids is the order of the lines.
Listing == UNION {[S -> [ts : Stamps, data : Data]] : S \in SUBSET Ids}

\* ENTRIES stands for the header line and the row lines after it, ROWS for
\* the row lines a peer has left unread.
Replies ==
         [op : {"OK", "FAIL", "REGISTER", "BYE"}]
    \cup [op : {"OKID"}, id : Ids]
    \cup [op : {"ENTRIES", "ROWS"}, rows : Listing]

VARIABLES
    allowed,    \* the one identity main() was started for
    pc,         \* where the child of a slot stands; "none": there is no child
    user,       \* the identity the slot authenticated as
    out,        \* the answer the child has decided on and not yet written
    up,         \* is the peer's end open?
    c2s,        \* command lines the child has not read
    s2c         \* answer lines the peer has not read

slotVars   == <<pc, user, out, up, c2s, s2c>>
serverVars == <<users, entries, seq, allowed, pc, user, out, up, c2s, s2c>>

OK     == [op |-> "OK"]
FAIL   == [op |-> "FAIL"]
PROMPT == [op |-> "REGISTER"]
BYE    == [op |-> "BYE"]

Sending == {"prompt", "reply", "last"}
States  == {"none", "start", "register", "loop"} \cup Sending

ServerInit ==
    /\ StorageInit
    /\ allowed \in Users
    /\ pc = [s \in Sessions |-> "none"]
    /\ user \in [Sessions -> {allowed}]
    /\ out = [s \in Sessions |-> OK]
    /\ up = [s \in Sessions |-> FALSE]
    /\ c2s = [s \in Sessions |-> <<>>]
    /\ s2c = [s \in Sessions |-> <<>>]

-----------------------------------------------------------------------------
(* The child process: diary_handle().  A database call and the send that   *)
(* follows it are two steps, so that the child can die between them and    *)
(* other children can run between them.                                    *)

\* The child decides to write m; "at" says what it does after that.
Answer(s, m, at) ==
    /\ out' = [out EXCEPT ![s] = m]
    /\ pc' = [pc EXCEPT ![s] = at]
    /\ UNCHANGED <<allowed, user, up, s2c>>

\* The child takes the next line, Line(s), off the connection.
Line(s) == Head(c2s[s])

Reads(s) ==
    /\ c2s[s] # <<>>
    /\ c2s' = [c2s EXCEPT ![s] = Tail(@)]

\* At the top of its loop it finds one of these commands there.
Command(s, ops) == pc[s] = "loop" /\ Reads(s) /\ Line(s).op \in ops

\* storage_init, then OK to a known identity and REGISTER to a new one.
HandleStart(s) ==
    /\ pc[s] = "start"
    /\ \/ Fails("init") /\ Answer(s, FAIL, "last")
       \/ \E exists \in BOOLEAN :
            /\ storage_user_exists(user[s], exists)
            /\ IF exists THEN Answer(s, OK, "reply")
                         ELSE Answer(s, PROMPT, "prompt")
    /\ UNCHANGED <<users, entries, seq, c2s>>

BadHandleRegister(s) ==    \* the result of storage_register_user is ignored
    /\ pc[s] = "register" /\ Reads(s)
    /\ LET r == Line(s) IN
       \/ /\ r.op = "REGISTER" /\ r.key \in Keys
          /\ \E rc \in {0, -1} : storage_register_user(user[s], r.key, rc)
          /\ Answer(s, OK, "reply")
       \/ /\ r.op = "REGISTER" => r.key = BadKey
          /\ Answer(s, FAIL, "last")
          /\ UNCHANGED storageVars

\* Anything but REGISTER with a valid key ends the session.
HandleRegister(s) ==
    /\ pc[s] = "register" /\ Reads(s)
    /\ LET r == Line(s) IN
       \/ /\ r.op = "REGISTER" /\ r.key \in Keys
          /\ \E rc \in {0, -1} :
               /\ storage_register_user(user[s], r.key, rc)
               /\ IF rc = 0 THEN Answer(s, OK, "reply")
                            ELSE Answer(s, FAIL, "last")
       \/ /\ r.op = "REGISTER" => r.key = BadKey
          /\ Answer(s, FAIL, "last")
          /\ UNCHANGED storageVars

\* What ends up in the data column: an epoch that is refused stays in front
\* of the data.
StoredBy(r) == IF r.op = "POST" /\ r.epoch = BadEpoch THEN Junk ELSE {r.data}

\* The entry's date is the client's if it sent one, the server's clock if
\* not.
HandlePost(s) ==
    /\ Command(s, {"POST"})
    /\ LET r == Line(s) IN
       \E now \in Stamps, id \in -1..MaxId, data \in StoredBy(r) :
        /\ storage_add_entry(
             user[s],
             data,
             IF r.epoch \in Stamps THEN r.epoch ELSE now,
             id)
        /\ IF id < 0 THEN Answer(s, FAIL, "reply")
                     ELSE Answer(s, [op |-> "OKID", id |-> id], "reply")

BadHandleGet(s) ==    \* out of memory: continue without the FAIL line
    /\ Command(s, {"GET"})
    /\ \/ Fails("memory") /\ UNCHANGED <<allowed, pc, user, out, up, s2c>>
       \/ Answer(s, [op |-> "ENTRIES", rows |->
                       [i \in Own(user[s]) |-> [ts |-> entries[i].ts,
                                                data |-> entries[i].data]]],
                 "reply")
    /\ UNCHANGED storageVars

HandleGet(s) ==
    /\ Command(s, {"GET"})
    /\ \/ Fails("memory") /\ Answer(s, FAIL, "reply")
       \/ \E kept \in SUBSET Ids :
            /\ GetRows(user[s], kept)
            /\ Answer(s,
                 [op |-> "ENTRIES",
                  rows |-> [i \in kept |-> [ts |-> entries[i].ts,
                                            data |-> entries[i].data]]],
                 "reply")
    /\ UNCHANGED storageVars

BadHandleUpdate(s) ==    \* OK although no row changed
    /\ Command(s, {"UPDATE"})
    /\ \E rc \in {0, -1} :
        /\ storage_update_entry(user[s], Line(s).id, Line(s).data, rc)
        /\ Answer(s, OK, "reply")

HandleUpdate(s) ==
    /\ Command(s, {"UPDATE"})
    /\ \E rc \in {0, -1} :
        /\ storage_update_entry(user[s], Line(s).id, Line(s).data, rc)
        /\ Answer(s, IF rc = 0 THEN OK ELSE FAIL, "reply")

HandleDelete(s) ==
    /\ Command(s, {"DELETE"})
    /\ \E rc \in {0, -1} :
        /\ storage_delete_entry(user[s], Line(s).id, rc)
        /\ Answer(s, IF rc = 0 THEN OK ELSE FAIL, "reply")

\* An UPDATE without data, and every line that is no command: a REGISTER
\* that comes too late is one of those.
HandleOther(s) ==
    /\ Command(s, {"BADUPDATE", "OTHER", "REGISTER"})
    /\ Answer(s, FAIL, "reply")
    /\ UNCHANGED storageVars

HandleQuit(s) ==
    /\ Command(s, {"QUIT"})
    /\ Answer(s, BYE, "last")
    /\ UNCHANGED storageVars

\* The child is gone: what it has not read is never read.
Exit(s) ==
    /\ pc' = [pc EXCEPT ![s] = "none"]
    /\ c2s' = [c2s EXCEPT ![s] = <<>>]

\* proto_send_line: a peer that has closed gets nothing, and the child does
\* not look at the result.
SendReply(s) ==
    /\ pc[s] \in Sending
    /\ s2c' = [s2c EXCEPT ![s] = IF up[s] THEN Append(@, out[s]) ELSE @]
    /\ out' = [out EXCEPT ![s] = OK]
    /\ \/ /\ pc[s] = "prompt" /\ pc' = [pc EXCEPT ![s] = "register"]
          /\ UNCHANGED c2s
       \/ /\ pc[s] = "reply" /\ pc' = [pc EXCEPT ![s] = "loop"]
          /\ UNCHANGED c2s
       \/ pc[s] = "last" /\ Exit(s)
    /\ UNCHANGED <<users, entries, seq, allowed, user, up>>

BadPeerGone(s) ==    \* end of file is not noticed before registration
    /\ pc[s] = "loop"
    /\ c2s[s] = <<>> /\ ~up[s]
    /\ Exit(s)
    /\ UNCHANGED <<users, entries, seq, allowed, user, out, up, s2c>>

\* recv returns end of file: the handler leaves its loop.
PeerGone(s) ==
    /\ pc[s] \in {"register", "loop"}
    /\ c2s[s] = <<>> /\ ~up[s]
    /\ Exit(s)
    /\ UNCHANGED <<users, entries, seq, allowed, user, out, up, s2c>>

\* The child is killed, between any two of its steps.
ChildDies(s) ==
    /\ pc[s] # "none"
    /\ Exit(s)
    /\ out' = [out EXCEPT ![s] = OK]
    /\ UNCHANGED <<users, entries, seq, allowed, user, up, s2c>>

ChildStep(s) ==
    \/ HandleStart(s) \/ HandleRegister(s)
    \/ HandlePost(s) \/ HandleGet(s) \/ HandleUpdate(s) \/ HandleDelete(s)
    \/ HandleOther(s) \/ HandleQuit(s)
    \/ SendReply(s) \/ PeerGone(s)

-----------------------------------------------------------------------------
(* Outside the child: main() and the protocol library, the peer, the wire. *)

\* main.c:103: the operator starts the server again, perhaps with another
\* key file.  The children of the old process live on.
Restart(u) ==
    /\ allowed # u
    /\ allowed' = u
    /\ UNCHANGED <<users, entries, seq, slotVars>>

\* proto_serve: accept, fork, and let in the allowed identity only.
PeerConnect(s) ==
    /\ pc[s] = "none" /\ ~up[s]
    /\ pc' = [pc EXCEPT ![s] = "start"]
    /\ user' = [user EXCEPT ![s] = allowed]
    /\ up' = [up EXCEPT ![s] = TRUE]
    /\ UNCHANGED <<users, entries, seq, allowed, out, c2s, s2c>>

\* Is there room for one more command and its answer?
Room(s) ==
    Len(c2s[s]) + Len(s2c[s]) + (IF pc[s] \in Sending THEN 1 ELSE 0)
        < MaxInFlight

PeerSends(s, r) ==
    /\ up[s] /\ pc[s] # "none"
    /\ c2s' = [c2s EXCEPT ![s] = Append(@, r)]
    /\ UNCHANGED <<users, entries, seq, allowed, pc, user, out, up, s2c>>

PeerSend(s) == Room(s) /\ \E r \in Requests : PeerSends(s, r)

\* What may be left of a message when its first lines have been read.
Unread(m) ==
    IF m.op \notin {"ENTRIES", "ROWS"} THEN {<<>>}
    ELSE {<<>>} \cup
         {<<[op |-> "ROWS", rows |-> [i \in ids |-> m.rows[i]]]>> :
            ids \in {S \in (SUBSET DOMAIN m.rows) \ {{}} :
                       \A i \in S, j \in DOMAIN m.rows \ S : j < i}}

\* The peer reads whole lines from the front; "rest" is what it leaves of
\* the first message.
PeerReads(s, rest) ==
    /\ up[s] /\ s2c[s] # <<>>
    /\ rest \in Unread(Head(s2c[s]))
    /\ s2c' = [s2c EXCEPT ![s] = rest \o Tail(@)]
    /\ UNCHANGED <<users, entries, seq, allowed, pc, user, out, up, c2s>>

PeerRead(s) == s2c[s] # <<>> /\ \E rest \in Unread(Head(s2c[s])) : PeerReads(s, rest)

\* The connection ends, by the peer or by the network: of the commands under
\* way some prefix still reaches the child, of the answers nothing is read.
PeerCloses(s) ==
    /\ up[s]
    /\ up' = [up EXCEPT ![s] = FALSE]
    /\ s2c' = [s2c EXCEPT ![s] = <<>>]
    /\ \E n \in 0..Len(c2s[s]) : c2s' = [c2s EXCEPT ![s] = SubSeq(@, 1, n)]
    /\ UNCHANGED <<users, entries, seq, allowed, pc, user, out>>

ServerNext ==
    \/ \E u \in Users : Restart(u)
    \/ \E s \in Sessions :
         \/ ChildStep(s) \/ ChildDies(s)
         \/ PeerConnect(s) \/ PeerSend(s) \/ PeerRead(s) \/ PeerCloses(s)

ServerSpec == ServerInit /\ [][ServerNext]_serverVars

-----------------------------------------------------------------------------
(* Properties *)

\* Every variable stays within the values its C counterpart can hold.
TypeOK ==
    /\ StorageTypeOK
    /\ allowed \in Users
    /\ pc \in [Sessions -> States]
    /\ user \in [Sessions -> Users]
    /\ out \in [Sessions -> Replies]
    /\ up \in [Sessions -> BOOLEAN]
    /\ c2s \in [Sessions -> Seq(Requests)]
    /\ s2c \in [Sessions -> Seq(Replies)]

\* A child reaches its command loop only for an identity whose users row is
\* committed, although existence was checked and the row was written in
\* separate statements that other children, failures and deaths fall between
\* (client_handler.c:38-65).
SessionRegistered ==
    \A s \in Sessions :
        pc[s] \in {"loop", "reply"} => users[user[s]] # NoKey

\* No entry has an owner that is not registered: the schema declares no
\* foreign key, so only the protocol keeps the two tables together
\* (storage.c:27-36).
OwnersRegistered == \A i \in Live : users[entries[i].owner] # NoKey

\* What an answer says of an entry, still true of the table or overtaken by
\* a delete: never another entry's date, never another owner's row.
Holds(u, m) ==
    /\ m.op = "OKID" =>
         m.id <= seq /\ (m.id \in Live => m.id \in Own(u))
    /\ m.op \in {"ENTRIES", "ROWS"} =>
         \A i \in DOMAIN m.rows :
            /\ i <= seq
            /\ i \in Live => i \in Own(u) /\ entries[i].ts = m.rows[i].ts

\* Answers that are delayed, on their way, or left unread never name an id
\* that has come to mean another entry, whatever other sessions deleted and
\* added meanwhile: ids are not reused (AUTOINCREMENT, storage.c:32) and GET
\* is filtered by owner (storage.c:118).
LateRepliesHold ==
    \A s \in Sessions :
        /\ Holds(user[s], out[s])
        /\ \A n \in 1..Len(s2c[s]) : Holds(user[s], s2c[s][n])

\* A registered encryption key is never replaced, even by a second REGISTER
\* that raced with the first (INSERT OR IGNORE, storage.c:71): entries are
\* sealed to it.
KeyWriteOnce ==
    [][\A u \in Users : users[u] # NoKey => users'[u] = users[u]]_serverVars

\* An id names one entry for ever: a deleted one does not come back, and
\* owner and date outlive every UPDATE (storage.c:135).
IdNamesOneEntry ==
    [][\A i \in Ids :
        /\ (i <= seq /\ i \notin Live) => entries'[i] = NoRow
        /\ (i \in Live /\ entries'[i] # NoRow) =>
             /\ entries'[i].owner = entries[i].owner
             /\ entries'[i].ts = entries[i].ts]_serverVars

\* An existing row changes only while a child answers an UPDATE or DELETE of
\* that id for the identity that owns the row, and a new row belongs to the
\* identity whose POST made it (server/architecture.md:126-131).
OwnerOnly ==
    [][\A i \in Ids : entries'[i] # entries[i] =>
         \E s \in Sessions :
            /\ pc[s] = "loop" /\ pc'[s] = "reply"
            /\ IF i \in Live
               THEN /\ entries[i].owner = user[s]
                    /\ Line(s).op \in {"UPDATE", "DELETE"} /\ Line(s).id = i
               ELSE entries'[i].owner = user[s]]_serverVars
=============================================================================
