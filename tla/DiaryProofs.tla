---------------------------- MODULE DiaryProofs -----------------------------
(***************************************************************************)
(* Theorems of DiaryServer and of Diary, for any identities, keys, data,   *)
(* dates, faults, connections, commands and bounds.  The server's come     *)
(* first and use nothing of its clients.                                   *)
(***************************************************************************)
EXTENDS Diary, StorageProofs, SequenceTheorems, FiniteSetTheorems,
        WellFoundedInduction

USE DEF NoEpoch, BadEpoch

-----------------------------------------------------------------------------
(* What the operations of storage.c preserve. *)

\* A GET's rows, whichever of the user's entries they are, are a listing.
LEMMA RowsAreListing ==
    ASSUME StorageTypeOK, NEW S \in SUBSET Live
    PROVE  [i \in S |-> [ts |-> entries[i].ts, data |-> entries[i].data]]
               \in Listing
<1>1. \A i \in S : entries[i] \in Row
    BY DEF StorageTypeOK, Live
<1>2. \A i \in S : [ts |-> entries[i].ts, data |-> entries[i].data]
                       \in [ts : Stamps, data : Data]
    BY <1>1 DEF Row
<1>3. S \in SUBSET Ids
    BY DEF Live
<1> QED  BY <1>2, <1>3 DEF Listing

\* What a POST or an UPDATE puts into the data column.
LEMMA StoredIsData ==
    ASSUME NEW r \in Requests, r.op \in {"POST", "UPDATE"}, NEW data \in StoredBy(r)
    PROVE  data \in Data
BY JunkAssumption DEF StoredBy, Requests

SlotsTypeOK ==
    /\ allowed \in Users
    /\ pc \in [Sessions -> States]
    /\ user \in [Sessions -> Users]
    /\ out \in [Sessions -> Replies]
    /\ up \in [Sessions -> BOOLEAN]
    /\ s2c \in [Sessions -> Seq(Replies)]

\* Deciding on an answer disturbs nothing but the child's own place.
LEMMA AnswerTyped ==
    ASSUME TypeOK, NEW s \in Sessions, NEW m \in Replies, NEW next \in States,
           Answer(s, m, next)
    PROVE  SlotsTypeOK'
BY DEF TypeOK, Answer, SlotsTypeOK

LEMMA ReadsTyped ==
    ASSUME TypeOK, NEW s \in Sessions, Reads(s)
    PROVE  Line(s) \in Requests /\ c2s' \in [Sessions -> Seq(Requests)]
<1>1. Tail(c2s[s]) \in Seq(Requests) /\ Head(c2s[s]) \in Requests
    BY DEF TypeOK, Reads
<1> QED  BY <1>1 DEF TypeOK, Reads, Line

LEMMA RepliesTyped ==
    /\ OK \in Replies /\ FAIL \in Replies /\ PROMPT \in Replies /\ BYE \in Replies
    /\ \A id \in Ids : [op |-> "OKID", id |-> id] \in Replies
    /\ \A rows \in Listing, op \in {"ENTRIES", "ROWS"} :
         [op |-> op, rows |-> rows] \in Replies
BY DEF OK, FAIL, PROMPT, BYE, Replies

LEMMA StatesAre ==
    States = {"none", "start", "register", "loop", "prompt", "reply", "last"}
BY DEF States, Sending

\* What the peer leaves of a message is again a queue of messages.
LEMMA UnreadTyped ==
    ASSUME NEW m \in Replies, NEW rest \in Unread(m)
    PROVE  rest \in Seq(Replies)
<1>1. CASE rest = <<>>
    BY <1>1
<1>2. CASE rest # <<>>
    <2>1. m.op \in {"ENTRIES", "ROWS"} /\ m.rows \in Listing
        BY <1>2 DEF Unread, Replies
    <2>2. PICK ids \in SUBSET DOMAIN m.rows :
              rest = <<[op |-> "ROWS", rows |-> [i \in ids |-> m.rows[i]]]>>
        BY <1>2, <2>1 DEF Unread
    <2>3. [i \in ids |-> m.rows[i]] \in Listing
        BY <2>1 DEF Listing
    <2>4. [op |-> "ROWS", rows |-> [i \in ids |-> m.rows[i]]] \in Replies
        BY <2>3, RepliesTyped
    <2> QED  BY <2>2, <2>4
<1> QED  BY <1>1, <1>2

-----------------------------------------------------------------------------
(* Type correctness. *)

\* One handler step of a child keeps every variable in its type.
LEMMA HandlersTyped ==
    ASSUME TypeOK, NEW s \in Sessions,
           \/ HandleStart(s) \/ HandleRegister(s) \/ HandlePost(s)
           \/ HandleGet(s) \/ HandleUpdate(s) \/ HandleDelete(s)
           \/ HandleOther(s) \/ HandleQuit(s)
    PROVE  TypeOK'
<1>0. user[s] \in Users /\ StorageTypeOK
    BY DEF TypeOK
<1>a. StorageTypeOK /\ UNCHANGED storageVars => StorageTypeOK'
    BY DEF StorageTypeOK, storageVars
<1>b. SlotsTypeOK' /\ StorageTypeOK' /\ (c2s \in [Sessions -> Seq(Requests)])'
          => TypeOK'
    BY DEF SlotsTypeOK, TypeOK
<1> USE StatesAre, RepliesTyped
<1>1. CASE HandleStart(s)
    <2>1. SlotsTypeOK'
        BY <1>1, AnswerTyped DEF HandleStart
    <2> QED  BY <1>0, <1>1, <1>a, <1>b, <2>1
             DEF HandleStart, storageVars, TypeOK
<1>2. CASE HandleRegister(s)
    <2>1. PICK r \in Requests :
             /\ Reads(s) /\ r = Line(s)
             /\ \/ /\ r.op = "REGISTER" /\ r.key \in Keys
                   /\ \E rc \in {0, -1} :
                        /\ storage_register_user(user[s], r.key, rc)
                        /\ IF rc = 0 THEN Answer(s, OK, "reply")
                                     ELSE Answer(s, FAIL, "last")
                \/ /\ Answer(s, FAIL, "last")
                   /\ UNCHANGED storageVars
        BY <1>2, ReadsTyped DEF HandleRegister
    <2>2. SlotsTypeOK'
        BY <2>1, AnswerTyped
    <2>3. StorageTypeOK'
        BY <1>0, <1>a, <2>1, StorageTyped
    <2> QED  BY <1>b, <2>1, <2>2, <2>3, ReadsTyped
<1>3. CASE HandlePost(s)
    <2>1. PICK r \in Requests, now \in Stamps, id \in -1..MaxId,
               data \in StoredBy(Line(s)) :
             /\ Reads(s) /\ r = Line(s) /\ r.op = "POST"
             /\ storage_add_entry(
                  user[s],
                  data,
                  IF r.epoch \in Stamps THEN r.epoch ELSE now,
                  id)
             /\ IF id < 0 THEN Answer(s, FAIL, "reply")
                          ELSE Answer(s, [op |-> "OKID", id |-> id], "reply")
        BY <1>3, ReadsTyped DEF HandlePost, Command
    <2>2. data \in Data
        BY <2>1, StoredIsData
    <2>3. StorageTypeOK'
        <3>1. PICK ts \in Stamps : storage_add_entry(user[s], data, ts, id)
            BY <2>1
        <3> QED  BY <1>0, <2>2, <3>1, StorageTyped
    <2>4. id < 0 \/ id \in Ids
        BY <1>0, <2>1, MaxIdAssumption DEF storage_add_entry, Ids, StorageTypeOK
    <2>5. SlotsTypeOK'
        BY <2>1, <2>4, AnswerTyped
    <2> QED  BY <1>b, <2>1, <2>3, <2>5, ReadsTyped
<1>4. CASE HandleGet(s)
    <2>1. StorageTypeOK'
        BY <1>0, <1>4, <1>a DEF HandleGet
    <2>2. SlotsTypeOK'
        <3>1. CASE Answer(s, FAIL, "reply")
            BY <3>1, AnswerTyped
        <3>2. CASE \E kept \in SUBSET Ids :
                /\ GetRows(user[s], kept)
                /\ Answer(s,
                     [op |-> "ENTRIES",
                      rows |-> [i \in kept |-> [ts |-> entries[i].ts,
                                                data |-> entries[i].data]]],
                     "reply")
            <4>1. PICK kept \in SUBSET Ids :
                /\ GetRows(user[s], kept)
                /\ Answer(s,
                     [op |-> "ENTRIES",
                      rows |-> [i \in kept |-> [ts |-> entries[i].ts,
                                                data |-> entries[i].data]]],
                     "reply")
                BY <3>2
            <4>2. kept \in SUBSET Live
                BY <1>0, <4>1, RowsAreOwn DEF Own
            <4>3. [i \in kept |-> [ts |-> entries[i].ts,
                                   data |-> entries[i].data]] \in Listing
                BY <1>0, <4>2, RowsAreListing
            <4> QED  BY <4>1, <4>3, AnswerTyped
        <3> QED  BY <1>4, <3>1, <3>2 DEF HandleGet
    <2>3. Reads(s)
        BY <1>4 DEF HandleGet, Command
    <2> QED  BY <1>b, <2>1, <2>2, <2>3, ReadsTyped
<1>5. CASE HandleUpdate(s)
    <2>1. PICK r \in Requests, rc \in {0, -1} :
             /\ Reads(s) /\ r = Line(s) /\ r.op = "UPDATE"
             /\ storage_update_entry(user[s], r.id, r.data, rc)
             /\ Answer(s, IF rc = 0 THEN OK ELSE FAIL, "reply")
        BY <1>5, ReadsTyped DEF HandleUpdate, Command
    <2>2. r.id \in Ids \cup {0} /\ r.data \in Data
        BY <2>1 DEF Requests
    <2>3. StorageTypeOK'
        BY <1>0, <2>1, <2>2, StorageTyped
    <2>4. SlotsTypeOK'
        BY <2>1, AnswerTyped
    <2> QED  BY <1>b, <2>1, <2>3, <2>4, ReadsTyped
<1>6. CASE HandleDelete(s)
    <2>1. PICK r \in Requests, rc \in {0, -1} :
             /\ Reads(s) /\ r = Line(s)
             /\ storage_delete_entry(user[s], r.id, rc)
             /\ Answer(s, IF rc = 0 THEN OK ELSE FAIL, "reply")
        BY <1>6, ReadsTyped DEF HandleDelete, Command
    <2>2. StorageTypeOK'
        BY <1>0, <2>1, StorageTyped
    <2>3. SlotsTypeOK'
        BY <2>1, AnswerTyped
    <2> QED  BY <1>b, <2>1, <2>2, <2>3, ReadsTyped
<1>7. CASE HandleOther(s)
    <2>1. Reads(s)
        BY <1>7 DEF HandleOther, Command
    <2> QED  BY <1>0, <1>7, <1>a, <1>b, <2>1, AnswerTyped, ReadsTyped
             DEF HandleOther
<1>8. CASE HandleQuit(s)
    <2>1. Reads(s)
        BY <1>8 DEF HandleQuit, Command
    <2> QED  BY <1>0, <1>8, <1>a, <1>b, <2>1, AnswerTyped, ReadsTyped
             DEF HandleQuit
<1> QED  BY <1>1, <1>2, <1>3, <1>4, <1>5, <1>6, <1>7, <1>8

\* So does every step of the wire, the peer, the operator and death.
LEMMA OthersTyped ==
    ASSUME TypeOK, NEW s \in Sessions,
           \/ SendReply(s) \/ PeerGone(s) \/ ChildDies(s)
           \/ PeerConnect(s) \/ PeerSend(s) \/ PeerRead(s) \/ PeerCloses(s)
           \/ \E u \in Users : Restart(u)
    PROVE  TypeOK'
<1> USE StatesAre DEF TypeOK
<1>a. UNCHANGED <<users, entries, seq>> => StorageTypeOK'
    BY DEF StorageTypeOK
<1>b. OK \in Replies /\ <<>> \in Seq(Replies) /\ <<>> \in Seq(Requests)
    BY RepliesTyped
<1>1. CASE SendReply(s)
    <2>1. Append(s2c[s], out[s]) \in Seq(Replies)
        OBVIOUS
    <2>2. s2c' \in [Sessions -> Seq(Replies)] /\ out' \in [Sessions -> Replies]
        BY <1>1, <1>b, <2>1 DEF SendReply
    <2>3. pc' \in [Sessions -> States] /\ c2s' \in [Sessions -> Seq(Requests)]
        BY <1>1, <1>b DEF SendReply, Exit
    <2> QED  BY <1>1, <1>a, <2>2, <2>3 DEF SendReply
<1>2. CASE PeerGone(s)
    BY <1>2, <1>a, <1>b DEF PeerGone, Exit
<1>3. CASE ChildDies(s)
    BY <1>3, <1>a, <1>b DEF ChildDies, Exit
<1>4. CASE PeerConnect(s)
    BY <1>4, <1>a DEF PeerConnect
<1>5. CASE PeerSend(s)
    <2>1. PICK r \in Requests : PeerSends(s, r)
        BY <1>5 DEF PeerSend
    <2>2. Append(c2s[s], r) \in Seq(Requests)
        OBVIOUS
    <2> QED  BY <1>a, <2>1, <2>2 DEF PeerSends
<1>6. CASE PeerRead(s)
    <2>1. PICK rest \in Unread(Head(s2c[s])) : PeerReads(s, rest)
        BY <1>6 DEF PeerRead
    <2>2. Head(s2c[s]) \in Replies /\ Tail(s2c[s]) \in Seq(Replies)
        BY <2>1 DEF PeerReads
    <2>3. rest \o Tail(s2c[s]) \in Seq(Replies)
        <3>1. rest \in Seq(Replies)
            BY <2>2, UnreadTyped
        <3> QED  BY <2>2, <3>1
    <2> QED  BY <1>a, <2>1, <2>3 DEF PeerReads
<1>7. CASE PeerCloses(s)
    <2>1. PICK n \in 0..Len(c2s[s]) : c2s' = [c2s EXCEPT ![s] = SubSeq(@, 1, n)]
        BY <1>7 DEF PeerCloses
    <2>2. SubSeq(c2s[s], 1, n) \in Seq(Requests)
        OBVIOUS
    <2> QED  BY <1>7, <1>a, <1>b, <2>1, <2>2 DEF PeerCloses
<1>8. CASE \E u \in Users : Restart(u)
    BY <1>8, <1>a DEF Restart, slotVars
<1> QED  BY <1>1, <1>2, <1>3, <1>4, <1>5, <1>6, <1>7, <1>8

LEMMA TypeInit == ServerInit => TypeOK
<1> SUFFICES ASSUME ServerInit PROVE TypeOK
    OBVIOUS
<1>1. StorageTypeOK
    BY MaxIdAssumption DEF ServerInit, StorageInit, StorageTypeOK
<1> QED  BY <1>1, StatesAre, RepliesTyped DEF ServerInit, TypeOK

LEMMA TypeStep == TypeOK /\ [ServerNext]_serverVars => TypeOK'
<1> SUFFICES ASSUME TypeOK, [ServerNext]_serverVars PROVE TypeOK'
    OBVIOUS
<1>1. CASE \E s \in Sessions :
             \/ ChildStep(s) \/ ChildDies(s)
             \/ PeerConnect(s) \/ PeerSend(s) \/ PeerRead(s) \/ PeerCloses(s)
    BY <1>1, HandlersTyped, OthersTyped DEF ChildStep
<1>2. CASE \E u \in Users : Restart(u)
    BY <1>2 DEF Restart, slotVars, TypeOK, StorageTypeOK
<1>3. CASE UNCHANGED serverVars
    BY <1>3 DEF serverVars, TypeOK, StorageTypeOK
<1> QED  BY <1>1, <1>2, <1>3 DEF ServerNext

\* No variable of the server ever leaves its type, however many connections
\* there are and whatever they send: in particular no answer carries an id
\* that is not one (storage.c:109).
THEOREM TypeCorrect == ServerSpec => []TypeOK
BY TypeInit, TypeStep, PTL DEF ServerSpec

-----------------------------------------------------------------------------
(* Registration. *)

\* What one step may do to the users table, seen from any step.
LEMMA UsersStep ==
    ASSUME TypeOK, [ServerNext]_serverVars
    PROVE  \/ UNCHANGED users
           \/ \E s \in Sessions, r \in Requests, rc \in {0, -1} :
                 /\ HandleRegister(s)
                 /\ r.key \in Keys
                 /\ storage_register_user(user[s], r.key, rc)
<1>1. CASE \E s \in Sessions : ChildStep(s)
    <2>1. PICK s \in Sessions : ChildStep(s)
        BY <1>1
    <2>2. CASE HandleRegister(s)
        BY <2>2, ReadsTyped DEF HandleRegister, storageVars
    <2>3. CASE HandlePost(s) \/ HandleUpdate(s) \/ HandleDelete(s)
        BY <2>3 DEF HandlePost, HandleUpdate, HandleDelete, storageVars,
                    storage_add_entry, storage_update_entry, storage_delete_entry
    <2>4. CASE \/ HandleStart(s) \/ HandleGet(s) \/ HandleOther(s)
               \/ HandleQuit(s) \/ SendReply(s) \/ PeerGone(s)
        BY <2>4 DEF HandleStart, HandleGet, HandleOther, HandleQuit, SendReply,
                    PeerGone, storageVars
    <2> QED  BY <2>1, <2>2, <2>3, <2>4 DEF ChildStep
<1>2. CASE \E s \in Sessions :
             \/ ChildDies(s) \/ PeerConnect(s) \/ PeerSend(s) \/ PeerRead(s)
             \/ PeerCloses(s)
    BY <1>2 DEF ChildDies, PeerConnect, PeerSend, PeerSends, PeerRead,
                PeerReads, PeerCloses
<1>3. CASE (\E u \in Users : Restart(u)) \/ UNCHANGED serverVars
    BY <1>3 DEF Restart, serverVars
<1> QED  BY <1>1, <1>2, <1>3 DEF ServerNext

\* A registered key stays.
LEMMA KeyStep ==
    ASSUME TypeOK, [ServerNext]_serverVars
    PROVE  \A u \in Users : users[u] # NoKey => users'[u] = users[u]
<1>1. CASE UNCHANGED users
    BY <1>1
<1>2. CASE \E s \in Sessions, r \in Requests, rc \in {0, -1} :
             storage_register_user(user[s], r.key, rc)
    BY <1>2 DEF storage_register_user, storageVars, TypeOK, StorageTypeOK
<1> QED  BY <1>1, <1>2, UsersStep

\* A key that entries may have been sealed to is never replaced, whichever
\* children race to register (storage.c:71).
THEOREM KeysAreWrittenOnce == ServerSpec => KeyWriteOnce
<1>1. TypeOK /\ [ServerNext]_serverVars =>
        [\A u \in Users : users[u] # NoKey => users'[u] = users[u]]_serverVars
    BY KeyStep
<1> QED  BY <1>1, TypeCorrect, PTL DEF ServerSpec, KeyWriteOnce

LEMMA RegisteredStep ==
    ASSUME TypeOK, SessionRegistered, [ServerNext]_serverVars
    PROVE  SessionRegistered'
<1> SUFFICES ASSUME NEW t \in Sessions, pc'[t] \in {"loop", "reply"}
             PROVE  users'[user'[t]] # NoKey
    BY DEF SessionRegistered
<1>1. user[t] \in Users /\ (pc[t] \in {"loop", "reply"} => users[user[t]] # NoKey)
    BY DEF SessionRegistered, TypeOK
<1>2. users[user[t]] # NoKey => users'[user[t]] # NoKey
    BY <1>1, KeyStep
<1>3. CASE pc[t] \in {"loop", "reply"} /\ user'[t] = user[t]
    BY <1>1, <1>2, <1>3
<1> USE StatesAre DEF TypeOK
<1>4. CASE \E s \in Sessions : ChildStep(s) \/ ChildDies(s)
    <2>1. PICK s \in Sessions : ChildStep(s) \/ ChildDies(s)
        BY <1>4
    <2>2. user' = user
        BY <2>1 DEF ChildStep, HandleStart, HandleRegister, HandlePost,
                    HandleGet, HandleUpdate, HandleDelete, HandleOther,
                    HandleQuit, SendReply, PeerGone, ChildDies, Answer
    <2>3. CASE HandleStart(s)
        <3>1. CASE t = s
            BY <1>2, <2>2, <2>3, <3>1
               DEF HandleStart, Answer, storage_user_exists
        <3> QED  BY <1>3, <2>2, <2>3, <3>1 DEF HandleStart, Answer
    <2>4. CASE HandleRegister(s)
        <3>1. CASE t = s
            <4>1. \E r \in Requests, rc \in {0, -1} :
                     /\ r.key \in Keys /\ rc = 0
                     /\ storage_register_user(user[s], r.key, rc)
                BY <2>4, <3>1, ReadsTyped DEF HandleRegister, Answer
            <4> QED  BY <1>1, <2>2, <3>1, <4>1, NoKeyAssumption
                     DEF storage_register_user, StorageTypeOK
        <3> QED  BY <1>3, <2>2, <2>4, <3>1 DEF HandleRegister, Answer
    <2>5. CASE \/ HandlePost(s) \/ HandleGet(s) \/ HandleUpdate(s)
               \/ HandleDelete(s) \/ HandleOther(s) \/ HandleQuit(s)
        BY <1>3, <2>2, <2>5 DEF HandlePost, HandleGet, HandleUpdate,
           HandleDelete, HandleOther, HandleQuit, Command, Answer
    <2>6. CASE SendReply(s) \/ PeerGone(s) \/ ChildDies(s)
        BY <1>3, <2>2, <2>6 DEF SendReply, PeerGone, ChildDies, Exit
    <2> QED  BY <2>1, <2>3, <2>4, <2>5, <2>6 DEF ChildStep
<1>5. CASE \E s \in Sessions :
             PeerConnect(s) \/ PeerSend(s) \/ PeerRead(s) \/ PeerCloses(s)
    BY <1>3, <1>5 DEF PeerConnect, PeerSend, PeerSends, PeerRead, PeerReads,
                      PeerCloses
<1>6. CASE (\E u \in Users : Restart(u)) \/ UNCHANGED serverVars
    BY <1>3, <1>6 DEF Restart, slotVars, serverVars
<1> QED  BY <1>4, <1>5, <1>6 DEF ServerNext

\* No child serves commands for an identity without a users row, however the
\* check and the insert of several children interleave (client_handler.c:38).
THEOREM SessionsAreRegistered == ServerSpec => []SessionRegistered
<1>1. ServerInit => SessionRegistered
    BY DEF ServerInit, SessionRegistered
<1>2. TypeOK /\ SessionRegistered /\ [ServerNext]_serverVars => SessionRegistered'
    BY RegisteredStep
<1> QED  BY <1>1, <1>2, TypeCorrect, PTL DEF ServerSpec

-----------------------------------------------------------------------------
(* The entries table. *)

\* What one step may do to the entries table, seen from any step.
LEMMA EntriesStep ==
    ASSUME TypeOK, [ServerNext]_serverVars
    PROVE  \/ UNCHANGED <<entries, seq>>
           \/ \E s \in Sessions :
                /\ pc[s] = "loop" /\ pc'[s] = "reply"
                /\ \/ \E data \in Data, ts \in Stamps, id \in -1..MaxId :
                        storage_add_entry(user[s], data, ts, id)
                   \/ \E rc \in {0, -1} :
                         /\ Line(s).op = "UPDATE"
                         /\ storage_update_entry(user[s], Line(s).id,
                                                 Line(s).data, rc)
                   \/ \E rc \in {0, -1} :
                         /\ Line(s).op = "DELETE"
                         /\ storage_delete_entry(user[s], Line(s).id, rc)
<1> USE StatesAre DEF TypeOK
<1>1. CASE \E s \in Sessions : ChildStep(s)
    <2>1. PICK s \in Sessions : ChildStep(s)
        BY <1>1
    <2>2. CASE HandlePost(s)
        <3>1. PICK r \in Requests, now \in Stamps, id \in -1..MaxId,
                   data \in StoredBy(Line(s)) :
                 /\ Command(s, {"POST"}) /\ r = Line(s)
                 /\ storage_add_entry(
                      user[s],
                      data,
                      IF r.epoch \in Stamps THEN r.epoch ELSE now,
                      id)
                 /\ IF id < 0 THEN Answer(s, FAIL, "reply")
                              ELSE Answer(s, [op |-> "OKID", id |-> id], "reply")
            BY <2>2, ReadsTyped DEF HandlePost, Command
        <3>2. data \in Data
            BY <3>1, StoredIsData DEF Command
        <3>3. pc[s] = "loop" /\ pc'[s] = "reply"
            BY <3>1 DEF Command, Answer
        <3>4. \E ts \in Stamps : storage_add_entry(user[s], data, ts, id)
            BY <3>1
        <3> QED  BY <3>2, <3>3, <3>4
    <2>3. CASE HandleUpdate(s)
        BY <2>3 DEF HandleUpdate, Command, Reads, Answer
    <2>4. CASE HandleDelete(s)
        BY <2>4 DEF HandleDelete, Command, Reads, Answer
    <2>5. CASE HandleRegister(s)
        BY <2>5 DEF HandleRegister, storage_register_user, storageVars
    <2>6. CASE \/ HandleStart(s) \/ HandleGet(s) \/ HandleOther(s)
               \/ HandleQuit(s) \/ SendReply(s) \/ PeerGone(s)
        BY <2>6 DEF HandleStart, HandleGet, HandleOther, HandleQuit, SendReply,
                    PeerGone, storageVars
    <2> QED  BY <2>1, <2>2, <2>3, <2>4, <2>5, <2>6 DEF ChildStep
<1>2. CASE \E s \in Sessions :
             \/ ChildDies(s) \/ PeerConnect(s) \/ PeerSend(s) \/ PeerRead(s)
             \/ PeerCloses(s)
    BY <1>2 DEF ChildDies, PeerConnect, PeerSend, PeerSends, PeerRead,
                PeerReads, PeerCloses
<1>3. CASE (\E u \in Users : Restart(u)) \/ UNCHANGED serverVars
    BY <1>3 DEF Restart, serverVars
<1> QED  BY <1>1, <1>2, <1>3 DEF ServerNext

\* The strengthening that ids need: the counter is ahead of every row.
LiveBelowSeq == \A i \in Live : i <= seq

\* What any step does to one id, once the counter is ahead of the rows.
LEMMA IdStep ==
    ASSUME TypeOK, LiveBelowSeq, [ServerNext]_serverVars, NEW i \in Ids
    PROVE  /\ seq <= seq'
           /\ \/ entries'[i] = entries[i]
              \/ \E s \in Sessions :
                   /\ pc[s] = "loop" /\ pc'[s] = "reply"
                   /\ \/ /\ i \notin Live /\ i = seq + 1 /\ seq' = i
                         /\ entries'[i] \in Row
                         /\ entries'[i].owner = user[s]
                      \/ /\ i \in Own(user[s])
                         /\ Line(s).op \in {"UPDATE", "DELETE"} /\ Line(s).id = i
                         /\ \/ entries'[i] = NoRow
                            \/ /\ entries'[i] \in Row
                               /\ entries'[i].owner = entries[i].owner
                               /\ entries'[i].ts = entries[i].ts
<1> USE DEF TypeOK, StorageTypeOK, storageVars
<1>1. CASE UNCHANGED <<entries, seq>>
    BY <1>1, MaxIdAssumption
<1>2. CASE \E s \in Sessions :
             /\ pc[s] = "loop" /\ pc'[s] = "reply"
             /\ \E data \in Data, ts \in Stamps, id \in -1..MaxId :
                  storage_add_entry(user[s], data, ts, id)
    <2>1. PICK s \in Sessions, data \in Data, ts \in Stamps, id \in -1..MaxId :
             /\ pc[s] = "loop" /\ pc'[s] = "reply"
             /\ storage_add_entry(user[s], data, ts, id)
        BY <1>2
    <2>2. CASE UNCHANGED storageVars
        BY <2>2, MaxIdAssumption
    <2>3. CASE /\ entries' = [entries EXCEPT ![seq + 1] =
                        [owner |-> user[s], ts |-> ts, data |-> data]]
               /\ seq' = seq + 1
        <3>1. seq + 1 \notin Live
            BY MaxIdAssumption DEF LiveBelowSeq, Live, Ids
        <3> QED  BY <2>1, <2>3, <3>1, MaxIdAssumption DEF Row, Ids
    <2> QED  BY <2>1, <2>2, <2>3 DEF storage_add_entry
<1>3. CASE \E s \in Sessions, rc \in {0, -1} :
             /\ pc[s] = "loop" /\ pc'[s] = "reply"
             /\ Line(s).op = "UPDATE"
             /\ storage_update_entry(user[s], Line(s).id,
                                     Line(s).data, rc)
    <2>1. PICK s \in Sessions, rc \in {0, -1} :
             /\ pc[s] = "loop" /\ pc'[s] = "reply"
             /\ Line(s).op = "UPDATE"
             /\ storage_update_entry(user[s], Line(s).id,
                                     Line(s).data, rc)
        BY <1>3
    <2>2. CASE UNCHANGED storageVars
        BY <2>2, MaxIdAssumption
    <2>3. CASE /\ Line(s).id \in Own(user[s])
               /\ entries' = [entries EXCEPT ![Line(s).id] =
                     [owner |-> @.owner, ts |-> @.ts,
                      data |-> Line(s).data]]
               /\ UNCHANGED seq
        <3>1. entries'[i] \in Row \cup {NoRow}
            BY TypeStep
        <3>2. CASE i = Line(s).id
            <4>1. /\ entries'[i].owner = entries[i].owner
                  /\ entries'[i].ts = entries[i].ts
                BY <2>3, <3>2
            <4> QED  BY <2>1, <2>3, <3>1, <3>2, <4>1, MaxIdAssumption
        <3>3. CASE i # Line(s).id
            BY <2>3, <3>3, MaxIdAssumption
        <3> QED  BY <3>2, <3>3
    <2> QED  BY <2>1, <2>2, <2>3 DEF storage_update_entry
<1>4. CASE \E s \in Sessions, rc \in {0, -1} :
             /\ pc[s] = "loop" /\ pc'[s] = "reply"
             /\ Line(s).op = "DELETE"
             /\ storage_delete_entry(user[s], Line(s).id, rc)
    BY <1>4, MaxIdAssumption DEF storage_delete_entry, Own, Live
<1> QED  BY <1>1, <1>2, <1>3, <1>4, EntriesStep

LEMMA LiveStep ==
    ASSUME TypeOK, LiveBelowSeq, [ServerNext]_serverVars
    PROVE  LiveBelowSeq'
<1> SUFFICES ASSUME NEW i \in Ids, entries'[i] # NoRow PROVE i <= seq'
    BY DEF LiveBelowSeq, Live
<1>1. seq \in Nat /\ seq' \in Nat /\ i \in Nat
    BY TypeStep, MaxIdAssumption DEF TypeOK, StorageTypeOK, Ids
<1>2. i \in Live => i <= seq
    BY DEF LiveBelowSeq
<1> QED  BY <1>1, <1>2, IdStep DEF Live, Own

LEMMA LiveInvariant == ServerSpec => [](TypeOK /\ LiveBelowSeq)
<1>1. ServerInit => LiveBelowSeq
    BY DEF ServerInit, StorageInit, LiveBelowSeq, Live
<1>2. TypeOK /\ LiveBelowSeq /\ [ServerNext]_serverVars => LiveBelowSeq'
    BY LiveStep
<1> QED  BY <1>1, <1>2, TypeCorrect, PTL DEF ServerSpec

\* An id never comes to mean another entry: deleted rows stay deleted, owner
\* and date are for ever (storage.c:32, 135).
THEOREM IdsNameOneEntry == ServerSpec => IdNamesOneEntry
<1>1. TypeOK /\ LiveBelowSeq /\ [ServerNext]_serverVars =>
        [\A i \in Ids :
            /\ (i <= seq /\ i \notin Live) => entries'[i] = NoRow
            /\ (i \in Live /\ entries'[i] # NoRow) =>
                 /\ entries'[i].owner = entries[i].owner
                 /\ entries'[i].ts = entries[i].ts]_serverVars
    <2> SUFFICES ASSUME TypeOK, LiveBelowSeq, [ServerNext]_serverVars, NEW i \in Ids
                 PROVE  /\ (i <= seq /\ i \notin Live) => entries'[i] = NoRow
                        /\ (i \in Live /\ entries'[i] # NoRow) =>
                             /\ entries'[i].owner = entries[i].owner
                             /\ entries'[i].ts = entries[i].ts
        OBVIOUS
    <2>1. seq \in Nat /\ i \in Nat
        BY MaxIdAssumption DEF TypeOK, StorageTypeOK, Ids
    <2> QED  BY <2>1, IdStep DEF Live, Own
<1> QED  BY <1>1, LiveInvariant, PTL DEF ServerSpec, IdNamesOneEntry

\* No connection changes a row of an identity it has not authenticated as, or
\* makes a row for one (server/architecture.md:126).
THEOREM OwnersOnly == ServerSpec => OwnerOnly
<1>1. TypeOK /\ LiveBelowSeq /\ [ServerNext]_serverVars =>
        [\A i \in Ids : entries'[i] # entries[i] =>
           \E s \in Sessions :
              /\ pc[s] = "loop" /\ pc'[s] = "reply"
              /\ IF i \in Live
                 THEN /\ entries[i].owner = user[s]
                      /\ Line(s).op \in {"UPDATE", "DELETE"} /\ Line(s).id = i
                 ELSE entries'[i].owner = user[s]]_serverVars
    BY IdStep DEF Own
<1> QED  BY <1>1, LiveInvariant, PTL DEF ServerSpec, OwnerOnly

\* Every entry belongs to an identity that has a users row, although the
\* schema declares no foreign key (storage.c:31).
THEOREM OwnersAreRegistered == ServerSpec => []OwnersRegistered
<1>1. ServerInit => OwnersRegistered
    BY DEF ServerInit, StorageInit, OwnersRegistered, Live
<1>2. TypeOK /\ LiveBelowSeq /\ SessionRegistered /\ OwnersRegistered
        /\ [ServerNext]_serverVars => OwnersRegistered'
    <2> SUFFICES ASSUME TypeOK, LiveBelowSeq, SessionRegistered, OwnersRegistered,
                        [ServerNext]_serverVars,
                        NEW i \in Ids, entries'[i] # NoRow
                 PROVE  users'[entries'[i].owner] # NoKey
        BY DEF OwnersRegistered, Live
    <2>1. \E u \in Users : entries'[i].owner = u /\ users[u] # NoKey
        <3>1. CASE i \in Live /\ entries'[i].owner = entries[i].owner
            BY <3>1 DEF OwnersRegistered, Live, TypeOK, StorageTypeOK, Row
        <3>2. CASE \E s \in Sessions : pc[s] = "loop" /\ entries'[i].owner = user[s]
            BY <3>2 DEF SessionRegistered, TypeOK
        <3> QED  BY <3>1, <3>2, IdStep DEF Live, Own
    <2> QED  BY <2>1, KeyStep
<1> QED  BY <1>1, <1>2, LiveInvariant, SessionsAreRegistered, PTL DEF ServerSpec

-----------------------------------------------------------------------------
(* Answers. *)

\* The strengthening that a slot's next connection needs: a closed end has
\* nothing unread, a child that is not sending has decided on nothing.
QuietSlots ==
    \A s \in Sessions :
        /\ ~up[s] => s2c[s] = <<>>
        /\ pc[s] \notin Sending => out[s] = OK

LEMMA QuietStep ==
    ASSUME TypeOK, QuietSlots, [ServerNext]_serverVars
    PROVE  QuietSlots'
<1> USE StatesAre DEF TypeOK, QuietSlots, Sending
<1>1. CASE \E s \in Sessions :
             \/ HandleStart(s) \/ HandleRegister(s) \/ HandlePost(s)
             \/ HandleGet(s) \/ HandleUpdate(s) \/ HandleDelete(s)
             \/ HandleOther(s) \/ HandleQuit(s)
    <2>1. PICK s \in Sessions : \E m : \E next \in Sending : Answer(s, m, next)
        BY <1>1 DEF HandleStart, HandleRegister, HandlePost, HandleGet,
                    HandleUpdate, HandleDelete, HandleOther, HandleQuit
    <2> QED  BY <2>1 DEF Answer
<1>2. CASE \E s \in Sessions : SendReply(s) \/ PeerGone(s) \/ ChildDies(s)
    BY <1>2 DEF SendReply, PeerGone, ChildDies, Exit
<1>3. CASE \E s \in Sessions :
             PeerConnect(s) \/ PeerSend(s) \/ PeerRead(s) \/ PeerCloses(s)
    BY <1>3 DEF PeerConnect, PeerSend, PeerSends, PeerRead, PeerReads, PeerCloses
<1>4. CASE (\E u \in Users : Restart(u)) \/ UNCHANGED serverVars
    BY <1>4 DEF Restart, slotVars, serverVars
<1> QED  BY <1>1, <1>2, <1>3, <1>4 DEF ServerNext, ChildStep

LEMMA QuietInvariant == ServerSpec => []QuietSlots
<1>1. ServerInit => QuietSlots
    BY DEF ServerInit, QuietSlots
<1>2. TypeOK /\ QuietSlots /\ [ServerNext]_serverVars => QuietSlots'
    BY QuietStep
<1> QED  BY <1>1, <1>2, TypeCorrect, PTL DEF ServerSpec

\* An id that was told keeps its owner and date, or loses its row.
LEMMA ToldStep ==
    ASSUME TypeOK, LiveBelowSeq, [ServerNext]_serverVars,
           NEW i \in Ids, i <= seq
    PROVE  /\ i <= seq'
           /\ entries'[i] # NoRow =>
                /\ i \in Live
                /\ entries'[i].owner = entries[i].owner
                /\ entries'[i].ts = entries[i].ts
<1>1. seq \in Nat /\ seq' \in Nat /\ i \in Nat
    BY TypeStep, MaxIdAssumption DEF TypeOK, StorageTypeOK, Ids
<1>2. seq <= seq'
    BY IdStep
<1>3. i # seq + 1
    BY <1>1
<1> QED  BY <1>1, <1>2, <1>3, IdStep DEF Live, Own

\* An answer that holds goes on holding, whoever steps.
LEMMA HoldsStep ==
    ASSUME TypeOK, LiveBelowSeq, [ServerNext]_serverVars,
           NEW u \in Users, NEW m \in Replies, Holds(u, m)
    PROVE  Holds(u, m)'
<1>1. ASSUME NEW i \in Ids, i <= seq, i \in Live => i \in Own(u)
      PROVE  /\ i <= seq'
             /\ entries'[i] # NoRow => /\ entries'[i].owner = u
                                       /\ entries'[i].ts = entries[i].ts
    BY <1>1, ToldStep DEF Own
<1>2. ASSUME m.op = "OKID"
      PROVE  m.id <= seq' /\ (entries'[m.id] # NoRow => entries'[m.id].owner = u)
    <2>1. m.id \in Ids /\ m.id <= seq /\ (m.id \in Live => m.id \in Own(u))
        BY <1>2 DEF Holds, Replies
    <2> QED  BY <1>1, <2>1
<1>3. ASSUME m.op \in {"ENTRIES", "ROWS"}, NEW i \in DOMAIN m.rows
      PROVE  /\ i <= seq'
             /\ entries'[i] # NoRow => /\ entries'[i].owner = u
                                       /\ entries'[i].ts = m.rows[i].ts
    <2>1. i \in Ids
        BY <1>3 DEF Replies, Listing
    <2>2. i <= seq /\ (i \in Live => /\ i \in Own(u)
                                     /\ entries[i].ts = m.rows[i].ts)
        BY <1>3 DEF Holds
    <2>3. entries'[i] # NoRow => i \in Live
        BY <2>1, <2>2, ToldStep
    <2> QED  BY <1>1, <2>1, <2>2, <2>3
<1> QED  BY <1>2, <1>3 DEF Holds, Own, Live

LEMMA PlainHolds ==
    ASSUME NEW u, NEW m \in {OK, FAIL, PROMPT, BYE}
    PROVE  Holds(u, m) /\ Holds(u, m)'
BY DEF Holds, OK, FAIL, PROMPT, BYE

\* What is left of an answer that holds, holds.
LEMMA UnreadHolds ==
    ASSUME NEW u, NEW m \in Replies, Holds(u, m), NEW rest \in Unread(m),
           NEW n \in 1..Len(rest)
    PROVE  Holds(u, rest[n])
<1>1. m.op \in {"ENTRIES", "ROWS"}
    BY DEF Unread
<1>2. PICK ids \in SUBSET DOMAIN m.rows :
          rest = <<[op |-> "ROWS", rows |-> [i \in ids |-> m.rows[i]]]>>
    BY <1>1 DEF Unread
<1>3. rest[n] = [op |-> "ROWS", rows |-> [i \in ids |-> m.rows[i]]]
    BY <1>2
<1> QED  BY <1>1, <1>3 DEF Holds

\* A GET's rows, whichever of the user's entries they are, hold.
LEMMA RowsHold ==
    ASSUME LiveBelowSeq, NEW u, NEW kept \in SUBSET Own(u), NEW m,
           m = [op |-> "ENTRIES",
                rows |-> [i \in kept |-> [ts |-> entries[i].ts,
                                          data |-> entries[i].data]]]
    PROVE  Holds(u, m)
BY DEF Holds, Own, LiveBelowSeq

LEMMA HoldsUnchanged ==
    ASSUME NEW u, NEW m, Holds(u, m), UNCHANGED <<entries, seq>>
    PROVE  Holds(u, m)'
BY DEF Holds, Own, Live

\* A child never decides on an answer that does not hold.
LEMMA AnswersHold ==
    ASSUME TypeOK, LiveBelowSeq, NEW s \in Sessions, NEW u \in Users, u = user[s],
           \/ HandleStart(s) \/ HandleRegister(s) \/ HandlePost(s)
           \/ HandleGet(s) \/ HandleUpdate(s) \/ HandleDelete(s)
           \/ HandleOther(s) \/ HandleQuit(s)
    PROVE  \E m \in Replies : \E next \in Sending :
              Answer(s, m, next) /\ Holds(u, m)'
<1> USE RepliesTyped, PlainHolds DEF Sending
<1>1. CASE HandleStart(s) \/ HandleRegister(s) \/ HandleOther(s) \/ HandleQuit(s)
    BY <1>1 DEF HandleStart, HandleRegister, HandleOther, HandleQuit
<1>2. CASE HandleUpdate(s) \/ HandleDelete(s)
    BY <1>2 DEF HandleUpdate, HandleDelete
<1>3. CASE HandlePost(s)
    <2>1. PICK id \in -1..MaxId :
             /\ \E data, ts : storage_add_entry(u, data, ts, id)
             /\ IF id < 0 THEN Answer(s, FAIL, "reply")
                          ELSE Answer(s, [op |-> "OKID", id |-> id], "reply")
        BY <1>3 DEF HandlePost
    <2>2. CASE id < 0
        BY <2>1, <2>2
    <2>3. CASE ~(id < 0)
        <3>1. id = seq + 1 /\ seq' = id /\ id \in Ids /\ entries'[id].owner = u
            BY <2>1, <2>3, MaxIdAssumption
               DEF storage_add_entry, TypeOK, StorageTypeOK, Ids
        <3>2. Holds(u, [op |-> "OKID", id |-> id])'
            BY <3>1, MaxIdAssumption DEF Holds, Own, Live, Ids
        <3> QED  BY <2>1, <2>3, <3>1, <3>2
    <2> QED  BY <2>2, <2>3
<1>4. CASE HandleGet(s)
    <2>1. CASE Answer(s, FAIL, "reply")
        BY <2>1
    <2>2. CASE \E kept \in SUBSET Ids :
            /\ GetRows(u, kept)
            /\ Answer(s,
                 [op |-> "ENTRIES",
                  rows |-> [i \in kept |-> [ts |-> entries[i].ts,
                                            data |-> entries[i].data]]],
                 "reply")
        <3>1. PICK kept \in SUBSET Ids :
            /\ GetRows(u, kept)
            /\ Answer(s,
                 [op |-> "ENTRIES",
                  rows |-> [i \in kept |-> [ts |-> entries[i].ts,
                                            data |-> entries[i].data]]],
                 "reply")
            BY <2>2
        <3>2. PICK m :
                 m = [op |-> "ENTRIES",
                      rows |-> [i \in kept |-> [ts |-> entries[i].ts,
                                                data |-> entries[i].data]]]
            OBVIOUS
        <3>3. kept \in SUBSET Own(u)
            BY <3>1, RowsAreOwn
        <3>4. m \in Replies
            BY <3>2, <3>3, RowsAreListing DEF TypeOK, Own
        <3>5. UNCHANGED <<entries, seq>>
            BY <1>4 DEF HandleGet, storageVars
        <3>6. Holds(u, m)'
            BY <3>2, <3>3, <3>5, RowsHold, HoldsUnchanged
        <3> QED  BY <3>1, <3>2, <3>4, <3>6
    <2> QED  BY <1>4, <2>1, <2>2 DEF HandleGet
<1> QED  BY <1>1, <1>2, <1>3, <1>4

Handles(s) ==
    \/ HandleStart(s) \/ HandleRegister(s) \/ HandlePost(s)
    \/ HandleGet(s) \/ HandleUpdate(s) \/ HandleDelete(s)
    \/ HandleOther(s) \/ HandleQuit(s)

\* What one step may do to the answers of a slot: a slot that changes hands
\* has none, a handler decides on one, the rest moves them along.
LEMMA SlotStep ==
    ASSUME TypeOK, QuietSlots, [ServerNext]_serverVars, NEW t \in Sessions
    PROVE  /\ user'[t] # user[t] => out'[t] = OK /\ s2c'[t] = <<>>
           /\ out'[t] \in {out[t], OK} \/ Handles(t)
           /\ \/ s2c'[t] \in {s2c[t], Append(s2c[t], out[t]), <<>>}
              \/ /\ s2c[t] # <<>>
                 /\ \E rest \in Unread(Head(s2c[t])) :
                      s2c'[t] = rest \o Tail(s2c[t])
<1> USE DEF TypeOK
<1>1. CASE \E s \in Sessions : Handles(s)
    <2>1. PICK s \in Sessions : Handles(s)
        BY <1>1
    <2>2. \E m, next : Answer(s, m, next)
        BY <2>1 DEF Handles, HandleStart, HandleRegister, HandlePost, HandleGet,
                    HandleUpdate, HandleDelete, HandleOther, HandleQuit
    <2> QED  BY <2>1, <2>2 DEF Answer
<1>2. CASE \E s \in Sessions : SendReply(s) \/ PeerGone(s) \/ ChildDies(s)
    BY <1>2 DEF SendReply, PeerGone, ChildDies, Exit
<1>3. CASE \E s \in Sessions : PeerConnect(s)
    BY <1>3 DEF PeerConnect, QuietSlots, Sending
<1>4. CASE \E s \in Sessions : PeerSend(s) \/ PeerCloses(s)
    BY <1>4 DEF PeerSend, PeerSends, PeerCloses
<1>5. CASE \E s \in Sessions : PeerRead(s)
    <2>1. PICK s \in Sessions : PeerRead(s)
        BY <1>5
    <2>2. PICK rest \in Unread(Head(s2c[s])) : PeerReads(s, rest)
        BY <2>1 DEF PeerRead
    <2> QED  BY <2>2 DEF PeerReads
<1>6. CASE (\E u \in Users : Restart(u)) \/ UNCHANGED serverVars
    BY <1>6 DEF Restart, slotVars, serverVars
<1> QED  BY <1>1, <1>2, <1>3, <1>4, <1>5, <1>6 DEF ServerNext, ChildStep, Handles

\* Every message queued after a step held before it.
LEMMA QueueStep ==
    ASSUME TypeOK, QuietSlots, LateRepliesHold, [ServerNext]_serverVars,
           NEW t \in Sessions, user'[t] = user[t],
           NEW n \in 1..Len(s2c'[t])
    PROVE  s2c'[t][n] \in Replies /\ Holds(user[t], s2c'[t][n])
<1>0. /\ s2c[t] \in Seq(Replies) /\ out[t] \in Replies
      /\ Holds(user[t], out[t])
      /\ \A k \in 1..Len(s2c[t]) : Holds(user[t], s2c[t][k])
    BY DEF TypeOK, LateRepliesHold
<1>1. s2c'[t] \in Seq(Replies)
    BY TypeStep DEF TypeOK
<1>2. s2c'[t][n] \in Replies
    BY <1>1
<1>3. CASE s2c'[t] \in {s2c[t], Append(s2c[t], out[t]), <<>>}
    BY <1>0, <1>2, <1>3
<1>4. CASE /\ s2c[t] # <<>>
           /\ \E rest \in Unread(Head(s2c[t])) :
                s2c'[t] = rest \o Tail(s2c[t])
    <2>1. PICK rest \in Unread(Head(s2c[t])) : s2c'[t] = rest \o Tail(s2c[t])
        BY <1>4
    <2>2. Head(s2c[t]) \in Replies /\ Tail(s2c[t]) \in Seq(Replies)
        BY <1>0, <1>4
    <2>3. rest \in Seq(Replies)
        BY <2>2, UnreadTyped
    <2>4. CASE n \in 1..Len(rest)
        <3>1. Holds(user[t], Head(s2c[t]))
            BY <1>0, <1>4
        <3>2. Holds(user[t], rest[n])
            BY <2>2, <2>4, <3>1, UnreadHolds
        <3> QED  BY <1>2, <2>1, <2>2, <2>3, <2>4, <3>2
    <2>5. CASE n \notin 1..Len(rest)
        <3>1. \E k \in 1..Len(s2c[t]) : s2c'[t][n] = s2c[t][k]
            <4>1. n - Len(rest) \in 1..Len(Tail(s2c[t]))
                BY <2>1, <2>2, <2>3, <2>5
            <4>2. s2c'[t][n] = Tail(s2c[t])[n - Len(rest)]
                BY <2>1, <2>2, <2>3, <2>5
            <4>3. Tail(s2c[t])[n - Len(rest)] = s2c[t][n - Len(rest) + 1]
                BY <1>0, <1>4, <4>1
            <4> QED  BY <1>0, <1>4, <4>1, <4>2, <4>3
        <3> QED  BY <1>0, <1>2, <3>1
    <2> QED  BY <2>4, <2>5
<1> QED  BY <1>3, <1>4, SlotStep

LEMMA LateStep ==
    ASSUME TypeOK, LiveBelowSeq, QuietSlots, LateRepliesHold,
           [ServerNext]_serverVars
    PROVE  LateRepliesHold'
<1> SUFFICES ASSUME NEW t \in Sessions
             PROVE  /\ Holds(user[t], out[t])'
                    /\ \A n \in 1..Len(s2c'[t]) : Holds(user[t], s2c[t][n])'
    BY DEF LateRepliesHold
<1>1. PICK u \in Users : u = user'[t]
    BY TypeStep DEF TypeOK
<1>2. Holds(user[t], out[t])'
    <2>1. PICK m \in Replies : m = out'[t]
        BY TypeStep DEF TypeOK
    <2>2. Holds(u, m)'
        <3>1. CASE m = OK
            BY <3>1, PlainHolds
        <3>2. CASE m # OK /\ Handles(t)
            <4>1. u = user[t]
                BY <1>1, <2>1, <3>2, SlotStep
            <4>2. PICK m2 \in Replies : \E next \in Sending :
                      Answer(t, m2, next) /\ Holds(u, m2)'
                BY <3>2, <4>1, AnswersHold DEF Handles
            <4>3. m2 = m
                BY <2>1, <4>2 DEF Answer, TypeOK
            <4> QED  BY <4>2, <4>3
        <3>3. CASE m # OK /\ m = out[t]
            <4>1. u = user[t]
                BY <1>1, <2>1, <3>3, SlotStep
            <4>2. Holds(u, m)
                BY <3>3, <4>1 DEF LateRepliesHold
            <4> QED  BY <4>2, HoldsStep
        <3> QED  BY <2>1, <3>1, <3>2, <3>3, SlotStep
    <2> QED  BY <1>1, <2>1, <2>2 DEF Holds, Own, Live
<1>3. ASSUME NEW n \in 1..Len(s2c'[t]) PROVE Holds(user[t], s2c[t][n])'
    <2>1. u = user[t]
        BY <1>1, <1>3, SlotStep
    <2>2. s2c'[t][n] \in Replies /\ Holds(u, s2c'[t][n])
        BY <1>1, <1>3, <2>1, QueueStep
    <2>3. PICK m \in Replies : m = s2c'[t][n]
        BY <2>2
    <2>4. Holds(u, m)'
        BY <2>2, <2>3, HoldsStep
    <2> QED  BY <1>1, <2>3, <2>4 DEF Holds, Own, Live
<1> QED  BY <1>2, <1>3

\* However late an answer is read, no id in it has come to mean another
\* entry, and no row in it ever belonged to another identity (storage.c:32,
\* storage.c:118).
THEOREM LateRepliesAlwaysHold == ServerSpec => []LateRepliesHold
<1>1. ServerInit => LateRepliesHold
    BY PlainHolds DEF ServerInit, LateRepliesHold
<1>2. TypeOK /\ LiveBelowSeq /\ QuietSlots /\ LateRepliesHold
        /\ [ServerNext]_serverVars => LateRepliesHold'
    BY LateStep
<1> QED  BY <1>1, <1>2, LiveInvariant, QuietInvariant, PTL DEF ServerSpec

-----------------------------------------------------------------------------
(* diary-client is one of the peers that DiaryServer allows for.           *)

LEMMA SendIsPeer ==
    ASSUME NEW s \in Sessions, NEW r \in Requests, Room(s), PeerSends(s, r)
    PROVE  PeerSend(s)
BY DEF PeerSend

LEMMA ReadIsPeer ==
    ASSUME NEW s \in Sessions, NEW rest, PeerReads(s, rest)
    PROVE  PeerRead(s)
BY DEF PeerRead, PeerReads

LEMMA ClientIsPeer ==
    ASSUME [DiaryNext]_diaryVars
    PROVE  [ServerNext]_serverVars
<1> USE CallersAssumption, CallsAssumption, RawAssumption
<1>1. CASE \E s \in Callers : Connect(s) \/ NetworkBreaks(s) \/ ClientEnds(s)
    BY <1>1 DEF Connect, NetworkBreaks, ClientEnds, ServerNext
<1>2. CASE \E s \in Callers : Greeted(s) \/ Return(s)
    BY <1>2, ReadIsPeer DEF Greeted, Return, ServerNext
<1>3. CASE \E s \in Callers : Refused(s) \/ CallFails(s)
    BY <1>3 DEF Refused, CallFails
<1>4. CASE \E s \in Callers : Registers(s) \/ SaysQuit(s)
    <2>1. [op |-> "REGISTER", key |-> MyKey] \in Requests
          /\ [op |-> "QUIT"] \in Requests
        BY MyKeyAssumption DEF Requests
    <2> QED  BY <1>4, <2>1, SendIsPeer DEF Registers, SaysQuit, ServerNext
<1>5. CASE \E s \in Callers, r \in ClientCalls : Call(s, r)
    BY <1>5, SendIsPeer DEF Call, ServerNext
<1>6. CASE \E s \in Sessions \ Callers : OtherStep(s)
    BY <1>6, SendIsPeer DEF OtherStep, ServerNext
<1>7. CASE \E s \in Sessions : Handle(s) \/ ChildDies(s)
    BY <1>7 DEF Handle, ServerNext
<1>8. CASE UNCHANGED diaryVars
    BY <1>8 DEF diaryVars, serverVars
<1> QED  BY <1>1, <1>2, <1>3, <1>4, <1>5, <1>6, <1>7, <1>8
         DEF DiaryNext, ClientStep

\* Whatever is proved of the server with any peer holds with net.c and
\* DiaryConnection.java at the other end (net.c:22-105).
THEOREM ClientsArePeers == DiarySpec => ServerSpec
<1>1. DiaryInit => ServerInit
    BY DEF DiaryInit
<1>2. [DiaryNext]_diaryVars => [ServerNext]_serverVars
    BY ClientIsPeer
<1> QED  BY <1>1, <1>2, PTL DEF DiarySpec, ServerSpec

-----------------------------------------------------------------------------
(* Commands and answers take turns on the connection of every client.      *)

\* Every client that is connected gets to the end of a list with this row.
Readable(data) == \A s \in Callers : ~Malformed(s, data)

\* What r would store is such a row.
Legible(r) ==
    r.op \in {"POST", "UPDATE"} => \A data \in StoredBy(r) : Readable(data)

\* The clients send what net.c and DiaryConnection.java send, and no answer
\* can leave them in the middle of a list: there is memory for it, and no
\* other program stores a row that ends the loop over it.
Paced ==
    /\ ClientCalls \subseteq Service!Calls
    /\ Callers = JavaCallers \/ ~Fails("client memory")
    /\ \A s \in Sessions \ Callers, r \in RawRequests : Legible(r)

\* Nobody but such clients, with memory: the setting of the refinement.
Orderly ==
    /\ Callers = Sessions
    /\ ClientCalls \subseteq Service!Calls
    /\ ~Fails("client memory")


MyRegister == [op |-> "REGISTER", key |-> MyKey]
Quit       == [op |-> "QUIT"]

\* At most one command is under way, and the child stands where it reads it.
OneCommand(s) ==
    c2s[s] # <<>> =>
        \E r : /\ c2s[s] = <<r>>
               /\ \/ pc[s] = "register" /\ r = MyRegister
                  \/ pc[s] = "loop" /\ r \in Service!Calls \cup {Quit}

\* At most one answer is under way, only when no command is, and what it says
\* fits the place of the child that sent it.
OneAnswer(s) ==
    s2c[s] # <<>> =>
        \E m : /\ s2c[s] = <<m>> /\ up[s] /\ c2s[s] = <<>>
               /\ \/ pc[s] = "none"
                  \/ pc[s] = "register" /\ m = PROMPT
                  \/ pc[s] = "loop" /\ m.op # "REGISTER"
               /\ m.op = "OK" => users[user[s]] # NoKey

\* A child that has decided on an answer has read all there was.
Decided(s) ==
    /\ pc[s] = "prompt" => out[s] = PROMPT
    /\ pc[s] = "reply" => out[s].op # "REGISTER"
    /\ pc[s] = "last" => out[s].op \notin {"OK", "REGISTER"}

\* Could m be the answer to r?  A list can be read to its end.
Fits(s, r, m) ==
    /\ m.op # "ROWS"
    /\ m.op = "ENTRIES" =>
         /\ r.op = "GET"
         /\ \A i \in DOMAIN m.rows : ~Malformed(s, m.rows[i].data)

Quiet(s) == c2s[s] = <<>> /\ s2c[s] = <<>>

\* Where the client stands, the child stands too.
InPhase(s) ==
    /\ cli[s] = "off" => ~up[s]
    /\ cli[s] = "register" /\ up[s] => Quiet(s) /\ pc[s] \in {"register", "none"}
    /\ cli[s] = "idle" /\ up[s] =>
         Quiet(s) /\ pc[s] \in {"loop", "none"} /\ users[user[s]] # NoKey
    /\ cli[s] # "wait" /\ up[s] => c2s[s] \in {<<>>, <<MyRegister>>, <<Quit>>}
    /\ cli[s] = "wait" =>
         /\ pc[s] \in {"loop", "reply", "none"} /\ users[user[s]] # NoKey
         /\ req[s] \in Service!Calls
         /\ c2s[s] # <<>> => Head(c2s[s]) = req[s]
         /\ pc[s] = "reply" => Fits(s, req[s], out[s])
         /\ s2c[s] # <<>> => Fits(s, req[s], Head(s2c[s]))

SlotOK(s) == OneCommand(s) /\ OneAnswer(s) /\ Decided(s) /\ InPhase(s)

ClientsTypeOK ==
    /\ cli \in [Sessions -> Phases]
    /\ DOMAIN req = Sessions /\ DOMAIN ret = Sessions

\* No row, in the table or on its way there, ends a client's loop.
TableReadable ==
    /\ \A i \in Live : Readable(entries[i].data)
    /\ \A s \in Sessions : \A i \in DOMAIN c2s[s] : Legible(c2s[s][i])

\* The inductive invariant: commands and answers take turns on the connection
\* of every client.
InStep ==
    /\ ClientsTypeOK
    /\ TableReadable
    /\ \A s \in Callers : SlotOK(s)

\* What one slot does leaves the others in step.
LEMMA ElsewhereInStep ==
    ASSUME NEW t \in Sessions, SlotOK(t),
           pc'[t] = pc[t], user'[t] = user[t], out'[t] = out[t], up'[t] = up[t],
           c2s'[t] = c2s[t], s2c'[t] = s2c[t], cli'[t] = cli[t], req'[t] = req[t],
           users[user[t]] # NoKey => users'[user[t]] # NoKey
    PROVE  SlotOK(t)'
BY DEF SlotOK, OneCommand, OneAnswer, Decided, InPhase, Quiet, Fits, Service!Calls,
       Service!NoEpoch, Ids

\* A handler that has read its line, or needs none, may decide on m.
LEMMA AnswerInStep ==
    ASSUME TypeOK, ClientsTypeOK, NEW s \in Sessions, SlotOK(s),
           NEW m, NEW next \in Sending, Answer(s, m, next),
           UNCHANGED clientVars,
           users[user[s]] # NoKey => users'[user[s]] # NoKey,
           pc[s] = "start" \/ c2s[s] # <<>>,
           c2s'[s] = <<>>,
           next = "prompt" => m = PROMPT,
           next = "reply" => m.op # "REGISTER",
           next = "last" => m.op \notin {"OK", "REGISTER"},
           cli[s] = "wait" => next = "reply" /\ Fits(s, req[s], m)
    PROVE  SlotOK(s)'
<1>1. /\ pc'[s] = next /\ out'[s] = m /\ up'[s] = up[s] /\ user'[s] = user[s]
      /\ cli'[s] = cli[s] /\ req'[s] = req[s]
    BY DEF Answer, TypeOK, clientVars
<1>2. s2c'[s] = <<>>
    BY DEF Answer, SlotOK, OneAnswer
<1>3. OneCommand(s)' /\ OneAnswer(s)' /\ Decided(s)'
    BY <1>1, <1>2 DEF OneCommand, OneAnswer, Decided, Sending
<1>4. InPhase(s)'
    <2>1. ~(cli[s] \in {"register", "idle"} /\ up[s])
        BY DEF SlotOK, InPhase, Quiet
    <2>2. cli[s] = "wait" =>
            /\ req[s] \in Service!Calls
            /\ users[user[s]] # NoKey /\ users'[user[s]] # NoKey
        BY DEF SlotOK, InPhase
    <2>3. cli[s] = "off" => ~up[s]
        BY DEF SlotOK, InPhase
    <2> QED  BY <1>1, <1>2, <2>1, <2>2, <2>3 DEF InPhase, Fits
<1> QED  BY <1>3, <1>4 DEF SlotOK

LEMMA SendInStep ==
    ASSUME TypeOK, SessionRegistered, ClientsTypeOK, NEW s \in Sessions, SlotOK(s),
           SendReply(s), UNCHANGED clientVars
    PROVE  SlotOK(s)'
<1>1. /\ up'[s] = up[s] /\ user'[s] = user[s] /\ cli'[s] = cli[s]
      /\ req'[s] = req[s] /\ users' = users
    BY DEF SendReply, clientVars
<1>2. c2s[s] = <<>> /\ s2c[s] = <<>> /\ pc[s] \in Sending
    BY DEF SlotOK, OneCommand, OneAnswer, SendReply, Sending
<1>3. c2s'[s] = <<>>
    BY <1>2 DEF SendReply, Exit, TypeOK
<1>4. s2c'[s] = IF up[s] THEN <<out[s]>> ELSE <<>>
    BY <1>2 DEF SendReply, TypeOK
<1>5. \/ pc[s] = "prompt" /\ pc'[s] = "register"
      \/ pc[s] = "reply" /\ pc'[s] = "loop"
      \/ pc[s] = "last" /\ pc'[s] = "none"
    BY DEF SendReply, Exit, TypeOK
<1>6. pc[s] = "reply" => users[user[s]] # NoKey
    BY DEF SessionRegistered
<1>7. OneCommand(s)' /\ Decided(s)'
    BY <1>3, <1>5 DEF OneCommand, Decided
<1>8. OneAnswer(s)'
    BY <1>1, <1>3, <1>4, <1>5, <1>6 DEF OneAnswer, SlotOK, Decided, PROMPT
<1>9. InPhase(s)'
    <2>1. ~(cli[s] \in {"register", "idle"} /\ up[s])
        BY <1>2 DEF SlotOK, InPhase, Sending
    <2>2. cli[s] = "off" => ~up[s]
        BY DEF SlotOK, InPhase
    <2>3. ASSUME cli[s] = "wait"
          PROVE  /\ pc'[s] = "loop" /\ req[s] \in Service!Calls
                 /\ users[user[s]] # NoKey
                 /\ s2c'[s] # <<>> => Fits(s, req[s], Head(s2c'[s]))
        BY <1>4, <1>5, <2>3 DEF SlotOK, InPhase
    <2> QED  BY <1>1, <1>3, <2>1, <2>2, <2>3 DEF InPhase, Fits
<1> QED  BY <1>7, <1>8, <1>9 DEF SlotOK

LEMMA ExitInStep ==
    ASSUME TypeOK, ClientsTypeOK, NEW s \in Sessions, SlotOK(s),
           PeerGone(s) \/ ChildDies(s), UNCHANGED clientVars
    PROVE  SlotOK(s)'
<1>1. /\ up'[s] = up[s] /\ user'[s] = user[s] /\ cli'[s] = cli[s]
      /\ req'[s] = req[s] /\ users' = users /\ s2c'[s] = s2c[s]
      /\ c2s'[s] = <<>> /\ pc'[s] = "none"
    BY DEF PeerGone, ChildDies, Exit, clientVars, TypeOK
<1> QED  BY <1>1 DEF SlotOK, OneCommand, OneAnswer, Decided, InPhase, Quiet, Fits

\* The one command under way is taken off the connection.
LEMMA ReadsOne ==
    ASSUME TypeOK, NEW s \in Sessions, SlotOK(s), Reads(s)
    PROVE  /\ c2s[s] # <<>> /\ c2s'[s] = <<>>
           /\ c2s[s] = <<Line(s)>>
           /\ cli[s] = "wait" => Line(s) = req[s] /\ pc[s] = "loop"
           /\ pc[s] = "loop" => Line(s) \in Service!Calls \cup {Quit}
           /\ pc[s] = "register" => Line(s) = MyRegister
<1>1. PICK r : c2s[s] = <<r>>
    BY DEF Reads, SlotOK, OneCommand
<1>2. Line(s) = r /\ c2s'[s] = <<>>
    BY <1>1 DEF Reads, Line, TypeOK
<1> QED  BY <1>1, <1>2 DEF SlotOK, OneCommand, InPhase, Line

LEMMA HandlersInStep ==
    ASSUME TypeOK, ClientsTypeOK, TableReadable, NEW s \in Callers, s \in Sessions,
           SlotOK(s), Handles(s), UNCHANGED clientVars,
           users[user[s]] # NoKey => users'[user[s]] # NoKey
    PROVE  SlotOK(s)'
<1>1. CASE HandleStart(s)
    <2>1. c2s'[s] = <<>> /\ pc[s] = "start" /\ cli[s] # "wait"
        BY <1>1 DEF HandleStart, SlotOK, OneCommand, InPhase
    <2>2. \/ Answer(s, FAIL, "last") \/ Answer(s, OK, "reply")
          \/ Answer(s, PROMPT, "prompt")
        BY <1>1 DEF HandleStart
    <2> QED  BY <2>1, <2>2, AnswerInStep DEF Sending, FAIL, OK, PROMPT
<1>2. CASE HandleRegister(s)
    <2>1. c2s[s] # <<>> /\ c2s'[s] = <<>> /\ cli[s] # "wait"
        BY <1>2, ReadsOne DEF HandleRegister
    <2>2. Answer(s, FAIL, "last") \/ Answer(s, OK, "reply")
        BY <1>2 DEF HandleRegister
    <2> QED  BY <2>1, <2>2, AnswerInStep DEF Sending, FAIL, OK
<1>3. CASE HandlePost(s) \/ HandleUpdate(s) \/ HandleDelete(s)
    <2>1. c2s[s] # <<>> /\ c2s'[s] = <<>>
        BY <1>3, ReadsOne DEF HandlePost, HandleUpdate, HandleDelete, Command
    <2>2. PICK m : Answer(s, m, "reply") /\ m.op \in {"OK", "FAIL", "OKID"}
        <3>1. CASE HandlePost(s)
            <4>1. PICK id : \/ Answer(s, FAIL, "reply")
                            \/ Answer(s, [op |-> "OKID", id |-> id], "reply")
                BY <3>1 DEF HandlePost
            <4> QED  BY <4>1 DEF FAIL
        <3>2. CASE HandleUpdate(s) \/ HandleDelete(s)
            BY <3>2 DEF HandleUpdate, HandleDelete, OK, FAIL
        <3> QED  BY <1>3, <3>1, <3>2
    <2>3. Fits(s, req[s], m)
        BY <2>2 DEF Fits
    <2> QED  BY <2>1, <2>2, <2>3, AnswerInStep DEF Sending
<1>4. CASE HandleGet(s)
    <2>1. /\ c2s[s] # <<>> /\ c2s'[s] = <<>> /\ Line(s).op = "GET"
          /\ cli[s] = "wait" => req[s].op = "GET"
        BY <1>4, ReadsOne DEF HandleGet, Command
    <2>2. CASE Answer(s, FAIL, "reply")
        <3>1. Fits(s, req[s], FAIL) /\ FAIL.op = "FAIL"
            BY DEF Fits, FAIL
        <3> QED  BY <2>1, <2>2, <3>1, AnswerInStep DEF Sending
    <2>3. CASE \E kept \in SUBSET Ids :
                 /\ GetRows(user[s], kept)
                 /\ Answer(s,
                      [op |-> "ENTRIES",
                       rows |-> [i \in kept |-> [ts |-> entries[i].ts,
                                                 data |-> entries[i].data]]],
                      "reply")
        <3>1. PICK kept \in SUBSET Ids :
                 /\ GetRows(user[s], kept)
                 /\ Answer(s,
                      [op |-> "ENTRIES",
                       rows |-> [i \in kept |-> [ts |-> entries[i].ts,
                                                 data |-> entries[i].data]]],
                      "reply")
            BY <2>3
        <3>2. kept \in SUBSET Live
            BY <3>1, RowsAreOwn DEF TypeOK, Own
        <3> DEFINE rows == [i \in kept |-> [ts |-> entries[i].ts,
                                            data |-> entries[i].data]]
                   m == [op |-> "ENTRIES", rows |-> rows]
        <3>3. \A i \in DOMAIN rows : ~Malformed(s, rows[i].data)
            BY <3>2 DEF TableReadable, Readable
        <3>4. Answer(s, m, "reply") /\ m.op = "ENTRIES" /\ m.rows = rows
            BY <3>1
        <3> HIDE DEF m, rows
        <3>5. cli[s] = "wait" => Fits(s, req[s], m)
            BY <2>1, <3>3, <3>4 DEF Fits
        <3> QED  BY <2>1, <3>4, <3>5, AnswerInStep DEF Sending
    <2> QED  BY <1>4, <2>2, <2>3 DEF HandleGet
<1>5. CASE HandleOther(s)
    <2>1. c2s[s] # <<>> /\ c2s'[s] = <<>> /\ Answer(s, FAIL, "reply")
        BY <1>5, ReadsOne DEF HandleOther, Command
    <2> QED  BY <2>1, AnswerInStep DEF Sending, FAIL, Fits
<1>6. CASE HandleQuit(s)
    <2>1. c2s[s] # <<>> /\ c2s'[s] = <<>> /\ Answer(s, BYE, "last")
          /\ Line(s).op = "QUIT"
        BY <1>6, ReadsOne DEF HandleQuit, Command
    <2>2. cli[s] # "wait"
        <3>1. cli[s] = "wait" => req[s] = Line(s) /\ req[s] \in Service!Calls
            BY <1>6, ReadsOne DEF HandleQuit, Command, SlotOK, InPhase
        <3> QED  BY <2>1, <3>1 DEF Service!Calls
    <2> QED  BY <2>1, <2>2, AnswerInStep DEF Sending, BYE
<1> QED  BY <1>1, <1>2, <1>3, <1>4, <1>5, <1>6 DEF Handles

\* When the connection ends the command under way is lost, or is not.
LEMMA ClosesOne ==
    ASSUME TypeOK, NEW s \in Sessions, SlotOK(s), PeerCloses(s)
    PROVE  ~up'[s] /\ c2s'[s] \in {<<>>, c2s[s]} /\ s2c'[s] = <<>>
<1>1. PICK n \in 0..Len(c2s[s]) : c2s' = [c2s EXCEPT ![s] = SubSeq(@, 1, n)]
    BY DEF PeerCloses
<1>2. ~up'[s] /\ s2c'[s] = <<>> /\ c2s'[s] = SubSeq(c2s[s], 1, n)
    BY <1>1 DEF PeerCloses, TypeOK
<1>3. CASE c2s[s] = <<>>
    BY <1>2, <1>3
<1>4. CASE c2s[s] # <<>>
    <2>1. PICK r : c2s[s] = <<r>>
        BY <1>4 DEF SlotOK, OneCommand
    <2>2. n = 0 \/ n = Len(c2s[s])
        BY <2>1
    <2>3. c2s[s] \in Seq(Requests)
        BY DEF TypeOK
    <2>4. SubSeq(c2s[s], 1, 0) = <<>> /\ SubSeq(c2s[s], 1, Len(c2s[s])) = c2s[s]
        BY <2>3, SubSeqEmpty, SubSeqFull
    <2> QED  BY <1>2, <2>2, <2>4
<1> QED  BY <1>2, <1>3, <1>4

\* The client's own steps.
LEMMA ClientInStep ==
    ASSUME TypeOK, ClientsTypeOK, NEW s \in Callers, SlotOK(s), Paced,
           \/ Connect(s) \/ ClientStep(s) \/ SaysQuit(s) \/ ClientEnds(s)
           \/ NetworkBreaks(s) \/ \E r \in ClientCalls : Call(s, r)
    PROVE  SlotOK(s)'
<1> USE CallersAssumption DEF ClientsTypeOK, Moves
<1>1. CASE Connect(s)
    <2>1. c2s[s] = <<>> /\ s2c[s] = <<>>
        BY <1>1 DEF Connect, PeerConnect, SlotOK, OneCommand, OneAnswer
    <2> QED  BY <1>1, <2>1 DEF Connect, PeerConnect, SlotOK, OneCommand, OneAnswer,
                Decided, InPhase, TypeOK
<1>2. CASE Greeted(s)
    <2>1. PICK m : /\ s2c[s] = <<m>> /\ c2s[s] = <<>>
                   /\ \/ pc[s] = "none"
                      \/ pc[s] = "register" /\ m = PROMPT
                      \/ pc[s] = "loop" /\ m.op # "REGISTER"
                   /\ m.op = "OK" => users[user[s]] # NoKey
        BY <1>2 DEF Greeted, PeerReads, SlotOK, OneAnswer
    <2>2. Head(s2c[s]) = m /\ s2c'[s] = <<>>
        BY <1>2, <2>1 DEF Greeted, PeerReads, TypeOK
    <2>3. /\ up'[s] = up[s] /\ user'[s] = user[s] /\ out'[s] = out[s]
          /\ pc'[s] = pc[s] /\ users' = users /\ c2s'[s] = <<>>
        BY <1>2, <2>1 DEF Greeted, PeerReads
    <2>4. /\ cli'[s] \in {"idle", "register", "leave"}
          /\ cli'[s] = "idle" => m.op = "OK"
          /\ cli'[s] = "register" => m.op = "REGISTER"
        BY <1>2, <2>2 DEF Greeted
    <2> QED  BY <2>1, <2>2, <2>3, <2>4 DEF SlotOK, OneCommand, OneAnswer, Decided,
                InPhase, Quiet, PROMPT
<1>3. CASE Registers(s)
    <2>1. c2s[s] = <<>> /\ s2c[s] = <<>> /\ pc[s] = "register"
        BY <1>3 DEF Registers, PeerSends, SlotOK, InPhase, Quiet
    <2>2. c2s'[s] = <<MyRegister>>
        BY <1>3, <2>1 DEF Registers, PeerSends, TypeOK, MyRegister
    <2>3. /\ up'[s] = up[s] /\ user'[s] = user[s] /\ out'[s] = out[s]
          /\ pc'[s] = pc[s] /\ users' = users /\ s2c'[s] = <<>>
          /\ cli'[s] = "greet"
        BY <1>3, <2>1 DEF Registers, PeerSends
    <2> QED  BY <1>3, <2>1, <2>2, <2>3 DEF PeerSends, Registers, SlotOK, OneCommand,
                OneAnswer, Decided, InPhase, Quiet
<1>4. CASE Refused(s)
    BY <1>4 DEF Refused, serverVars, SlotOK, OneCommand, OneAnswer, Decided, InPhase,
                Quiet
<1>5. CASE Return(s)
    <2>1. PICK m : s2c[s] = <<m>> /\ c2s[s] = <<>> /\ m = Head(s2c[s])
        <3>1. PICK m : s2c[s] = <<m>> /\ c2s[s] = <<>>
            BY <1>5 DEF Return, SlotOK, OneAnswer
        <3> QED  BY <3>1
    <2>2. Fits(s, req[s], m) /\ cli[s] = "wait"
        <3>1. cli[s] = "wait"
            BY <1>5 DEF Return
        <3> QED  BY <2>1, <3>1 DEF SlotOK, InPhase
    <2>3. PeerReads(s, LeftBy(s, req[s], m))
        BY <1>5, <2>1 DEF Return, Paced
    <2>4. LeftBy(s, req[s], m) = <<>>
        BY <2>2 DEF LeftBy, RowsLeft, Remainder, Fits
    <2>5. s2c'[s] = <<>>
        BY <2>1, <2>3, <2>4 DEF PeerReads, TypeOK
    <2>6. /\ up'[s] = up[s] /\ user'[s] = user[s] /\ out'[s] = out[s]
          /\ pc'[s] = pc[s] /\ users' = users /\ c2s'[s] = <<>>
          /\ cli'[s] = "idle"
        BY <1>5, <2>1, <2>3 DEF Return, PeerReads
    <2> QED  BY <2>1, <2>2, <2>3, <2>5, <2>6
             DEF SlotOK, OneCommand, OneAnswer, Decided, InPhase, Quiet
<1>6. CASE CallFails(s)
    <2>1. s2c[s] = <<>> \/ ~up[s]
        BY <1>6 DEF CallFails, EndOfFile
    <2>2. ~up[s] \/ (pc[s] = "none" /\ c2s[s] = <<>> /\ s2c[s] = <<>>)
        BY <1>6 DEF CallFails, EndOfFile, SlotOK, OneCommand
    <2>3. cli'[s] = "idle" /\ UNCHANGED serverVars
        BY <1>6 DEF CallFails
    <2> QED  BY <1>6, <2>2, <2>3 DEF CallFails, serverVars, SlotOK, OneCommand,
                OneAnswer, Decided, InPhase, Quiet
<1>7. CASE SaysQuit(s)
    <2>1. c2s[s] = <<>> /\ s2c[s] = <<>> /\ pc[s] = "loop"
        BY <1>7 DEF SaysQuit, PeerSends, SlotOK, InPhase, Quiet
    <2>2. c2s'[s] = <<Quit>>
        BY <1>7, <2>1 DEF SaysQuit, PeerSends, TypeOK, Quit
    <2>3. /\ up'[s] = up[s] /\ user'[s] = user[s] /\ out'[s] = out[s]
          /\ pc'[s] = pc[s] /\ users' = users /\ s2c'[s] = <<>>
          /\ cli'[s] = "leave"
        BY <1>7, <2>1 DEF SaysQuit, PeerSends
    <2> QED  BY <1>7, <2>1, <2>2, <2>3 DEF PeerSends, SaysQuit, SlotOK, OneCommand,
                OneAnswer, Decided, InPhase
<1>8. CASE ClientEnds(s) \/ NetworkBreaks(s)
    <2>1. ~up'[s] /\ c2s'[s] \in {<<>>, c2s[s]} /\ s2c'[s] = <<>>
        <3>1. CASE PeerCloses(s)
            BY <3>1, ClosesOne
        <3>2. CASE ~up[s] /\ UNCHANGED serverVars
            BY <3>2 DEF serverVars, SlotOK, OneAnswer
        <3> QED  BY <1>8, <3>1, <3>2 DEF ClientEnds, NetworkBreaks
    <2>2. /\ user'[s] = user[s] /\ out'[s] = out[s] /\ pc'[s] = pc[s]
          /\ users' = users
        BY <1>8 DEF ClientEnds, NetworkBreaks, PeerCloses, serverVars
    <2>3. \/ cli'[s] = "off"
          \/ cli'[s] = cli[s] /\ req'[s] = req[s]
        BY <1>8 DEF ClientEnds, NetworkBreaks, clientVars
    <2> QED  BY <2>1, <2>2, <2>3 DEF SlotOK, OneCommand, OneAnswer, Decided, InPhase
<1>9. CASE \E r \in ClientCalls : Call(s, r)
    <2>1. PICK r \in ClientCalls : Call(s, r)
        BY <1>9
    <2>2. CASE ~up[s]
        BY <2>1, <2>2 DEF Call, serverVars, SlotOK, OneCommand, OneAnswer, Decided,
           InPhase, Quiet
    <2>3. CASE up[s]
        <3>1. /\ c2s[s] = <<>> /\ s2c[s] = <<>> /\ pc[s] \in {"loop", "none"}
              /\ users[user[s]] # NoKey /\ r \in Service!Calls
            BY <2>1, <2>3 DEF Call, SlotOK, InPhase, Quiet, Paced
        <3>2. \/ pc[s] = "none" /\ c2s'[s] = <<>>
              \/ pc[s] = "loop" /\ c2s'[s] = <<r>>
            BY <2>1, <2>3, <3>1 DEF Call, PeerSends, serverVars, TypeOK
        <3>3. /\ up'[s] = up[s] /\ user'[s] = user[s] /\ out'[s] = out[s]
              /\ pc'[s] = pc[s] /\ users' = users /\ s2c'[s] = <<>>
              /\ cli'[s] = "wait" /\ req'[s] = r
            BY <2>1, <2>3, <3>1 DEF Call, PeerSends, serverVars
        <3> QED  BY <3>1, <3>2, <3>3 DEF SlotOK, OneCommand, OneAnswer, Decided,
                    InPhase
    <2> QED  BY <2>2, <2>3
<1> QED  BY <1>1, <1>2, <1>3, <1>4, <1>5, <1>6, <1>7, <1>8, <1>9 DEF ClientStep

\* Everything that can happen on one connection.
ClientMoves(s) ==
    \/ Connect(s) \/ ClientStep(s) \/ SaysQuit(s) \/ ClientEnds(s)
    \/ NetworkBreaks(s) \/ \E r \in ClientCalls : Call(s, r)

Steps(s) ==
    \/ s \in Callers /\ ClientMoves(s)
    \/ s \notin Callers /\ OtherStep(s)
    \/ Handle(s) \/ (ChildDies(s) /\ UNCHANGED clientVars)

LEMMA StepsAre ==
    ASSUME DiaryNext
    PROVE  \E s \in Sessions : Steps(s)
BY CallersAssumption DEF DiaryNext, Steps, ClientMoves

LEMMA OthersStill ==
    ASSUME TypeOK, ClientsTypeOK, NEW s \in Sessions, Steps(s),
           NEW t \in Sessions, t # s
    PROVE  /\ pc'[t] = pc[t] /\ user'[t] = user[t] /\ out'[t] = out[t]
           /\ up'[t] = up[t] /\ c2s'[t] = c2s[t] /\ s2c'[t] = s2c[t]
           /\ cli'[t] = cli[t] /\ req'[t] = req[t] /\ ret'[t] = ret[t]
<1> USE DEF TypeOK, ClientsTypeOK
<1>1. CASE Handles(s) /\ UNCHANGED clientVars
    <2>1. c2s'[t] = c2s[t]
        BY <1>1 DEF Handles, HandleStart, HandleRegister, HandlePost, HandleGet,
           HandleUpdate, HandleDelete, HandleOther, HandleQuit, Command, Reads
    <2>2. PICK m, next : Answer(s, m, next)
        BY <1>1 DEF Handles, HandleStart, HandleRegister, HandlePost, HandleGet,
           HandleUpdate, HandleDelete, HandleOther, HandleQuit
    <2> QED  BY <1>1, <2>1, <2>2 DEF Answer, clientVars
<1>2. CASE (SendReply(s) \/ PeerGone(s) \/ ChildDies(s)) /\ UNCHANGED clientVars
    BY <1>2 DEF SendReply, PeerGone, ChildDies, Exit, clientVars
<1>3. CASE Connect(s) \/ Registers(s) \/ SaysQuit(s) \/ NetworkBreaks(s)
    BY <1>3 DEF Connect, PeerConnect, Registers, SaysQuit, PeerSends,
                NetworkBreaks, PeerCloses, clientVars, Moves
<1>4. CASE Greeted(s) \/ Return(s)
    <2>1. \E rest : PeerReads(s, rest)
        BY <1>4 DEF Greeted, Return
    <2> QED  BY <1>4, <2>1 DEF Greeted, Return, PeerReads, Moves
<1>5. CASE Refused(s) \/ CallFails(s) \/ \E r \in ClientCalls : Call(s, r)
    BY <1>5 DEF Refused, CallFails, Call, PeerSends, Moves, serverVars
<1>6. CASE ClientEnds(s)
    BY <1>6 DEF ClientEnds, PeerCloses, serverVars
<1>7. CASE OtherStep(s)
    <2>1. \/ PeerConnect(s) \/ PeerCloses(s)
          \/ (\E rest : PeerReads(s, rest)) \/ \E r : PeerSends(s, r)
        BY <1>7 DEF OtherStep, PeerRead
    <2> QED  BY <1>7, <2>1 DEF OtherStep, PeerConnect, PeerCloses, PeerReads,
                PeerSends, clientVars
<1> QED  BY <1>1, <1>2, <1>3, <1>4, <1>5, <1>6, <1>7
         DEF Steps, ClientMoves, ClientStep, Handle, ChildStep, Handles

LEMMA ClientsTypeStep ==
    ASSUME ClientsTypeOK, NEW s \in Sessions, Steps(s)
    PROVE  ClientsTypeOK'
<1> USE DEF ClientsTypeOK, Phases
<1>1. CASE \/ Handle(s) \/ (ChildDies(s) /\ UNCHANGED clientVars)
           \/ NetworkBreaks(s) \/ OtherStep(s)
    BY <1>1 DEF Handle, NetworkBreaks, OtherStep, clientVars
<1>2. CASE Connect(s) \/ Refused(s) \/ CallFails(s) \/ Registers(s) \/ SaysQuit(s)
           \/ Return(s)
    BY <1>2 DEF Connect, Refused, CallFails, Registers, SaysQuit, Return, Moves
<1>3. CASE Greeted(s)
    <2>1. \E next \in Phases : cli' = [cli EXCEPT ![s] = next]
        BY <1>3 DEF Greeted, Moves
    <2> QED  BY <1>3, <2>1 DEF Greeted
<1>4. CASE ClientEnds(s) \/ \E r \in ClientCalls : Call(s, r)
    BY <1>4 DEF ClientEnds, Call, Moves
<1> QED  BY <1>1, <1>2, <1>3, <1>4 DEF Steps, ClientMoves, ClientStep

\* What net.c and proto_connect send is legible.
LEMMA ClientsAreLegible ==
    /\ Legible(MyRegister) /\ Legible(Quit)
    /\ \A r \in Service!Calls : Legible(r)
<1>1. Legible(MyRegister) /\ Legible(Quit)
    BY DEF Legible, MyRegister, Quit
<1>2. ASSUME NEW r \in Service!Calls PROVE Legible(r)
    <2>1. ASSUME r.op = "POST" PROVE r.data \in Sealed /\ r.epoch # BadEpoch
        BY <2>1, StampsAssumption DEF Service!Calls, Service!NoEpoch, BadEpoch
    <2>2. r.op = "UPDATE" => r.data \in Sealed
        BY DEF Service!Calls
    <2>3. \A data \in Sealed : Readable(data)
        BY BlankAssumption, UndecodableAssumption DEF Readable, Malformed
    <2> QED  BY <2>1, <2>2, <2>3 DEF Legible, StoredBy
<1> QED  BY <1>1, <1>2

\* Lines are taken from the front, cut off, or added at the end.
LinesMove(s) ==
    \/ c2s'[s] = c2s[s] \/ c2s'[s] = <<>>
    \/ c2s[s] # <<>> /\ c2s'[s] = Tail(c2s[s])
    \/ \E n \in 0..Len(c2s[s]) : c2s'[s] = SubSeq(c2s[s], 1, n)
    \/ \E r : Legible(r) /\ c2s'[s] = Append(c2s[s], r)

LEMMA LinesStep ==
    ASSUME TypeOK, Paced, NEW s \in Sessions, Steps(s)
    PROVE  LinesMove(s)
<1>1. ASSUME Handles(s) PROVE LinesMove(s)
    BY <1>1 DEF TypeOK, LinesMove, Handles, HandleStart, HandleRegister,
       HandlePost, HandleGet,
       HandleUpdate, HandleDelete, HandleOther, HandleQuit, Command, Reads
<1>2. ASSUME SendReply(s) \/ PeerGone(s) \/ ChildDies(s) PROVE LinesMove(s)
    BY <1>2 DEF TypeOK, LinesMove, SendReply, PeerGone, ChildDies, Exit
<1>3. ASSUME NEW r, Legible(r), PeerSends(s, r) PROVE LinesMove(s)
    BY <1>3 DEF TypeOK, LinesMove, PeerSends
<1>4. ASSUME \/ PeerConnect(s) \/ (\E rest : PeerReads(s, rest))
             \/ UNCHANGED serverVars
      PROVE  LinesMove(s)
    BY <1>4 DEF TypeOK, LinesMove, PeerConnect, PeerReads, serverVars
<1>5. ASSUME PeerCloses(s) PROVE LinesMove(s)
    BY <1>5 DEF TypeOK, LinesMove, PeerCloses
<1>6. ASSUME s \in Callers, ClientMoves(s)
      PROVE  \/ PeerConnect(s) \/ (\E rest : PeerReads(s, rest))
             \/ UNCHANGED serverVars \/ PeerCloses(s)
             \/ \E r : Legible(r) /\ PeerSends(s, r)
    <2>1. CASE Registers(s) \/ SaysQuit(s)
        BY <2>1, ClientsAreLegible DEF Registers, SaysQuit, MyRegister, Quit
    <2>2. CASE \E r \in ClientCalls : Call(s, r)
        BY <2>2, ClientsAreLegible DEF Call, Paced
    <2>3. CASE \/ Connect(s) \/ Greeted(s) \/ Refused(s) \/ Return(s)
               \/ CallFails(s) \/ ClientEnds(s) \/ NetworkBreaks(s)
        BY <2>3 DEF Connect, Greeted, Refused, Return, CallFails, ClientEnds,
           NetworkBreaks
    <2> QED  BY <1>6, <2>1, <2>2, <2>3 DEF ClientMoves, ClientStep
<1>7. ASSUME s \notin Callers, OtherStep(s)
      PROVE  \/ PeerConnect(s) \/ (\E rest : PeerReads(s, rest)) \/ PeerCloses(s)
             \/ \E r : Legible(r) /\ PeerSends(s, r)
    BY <1>7 DEF OtherStep, PeerRead, Paced
<1>8. CASE s \in Callers /\ ClientMoves(s)
    BY <1>3, <1>4, <1>5, <1>6, <1>8
<1>9. CASE s \notin Callers /\ OtherStep(s)
    BY <1>3, <1>4, <1>5, <1>7, <1>9
<1>10. CASE Handle(s) \/ ChildDies(s)
    BY <1>1, <1>2, <1>10 DEF Handle, ChildStep, Handles
<1> QED  BY <1>8, <1>9, <1>10 DEF Steps

LEMMA LinesReadable ==
    ASSUME TypeOK, ClientsTypeOK, Paced, TableReadable, NEW s \in Sessions, Steps(s),
           NEW t \in Sessions, NEW i \in DOMAIN c2s'[t]
    PROVE  Legible(c2s'[t][i])
<1>1. \A j \in DOMAIN c2s[t] : Legible(c2s[t][j])
    BY DEF TableReadable
<1>2. c2s[t] \in Seq(Requests)
    BY DEF TypeOK
<1>3. CASE t # s
    BY <1>1, <1>3, OthersStill
<1>4. CASE t = s
    <2>1. CASE c2s'[t] = c2s[t] \/ c2s'[t] = <<>>
        BY <1>1, <2>1
    <2>2. CASE c2s[t] # <<>> /\ c2s'[t] = Tail(c2s[t])
        <3>1. i + 1 \in DOMAIN c2s[t] /\ c2s'[t][i] = c2s[t][i + 1]
            BY <1>2, <2>2
        <3> QED  BY <1>1, <3>1
    <2>3. CASE \E n \in 0..Len(c2s[t]) : c2s'[t] = SubSeq(c2s[t], 1, n)
        <3>1. i \in DOMAIN c2s[t] /\ c2s'[t][i] = c2s[t][i]
            BY <1>2, <2>3
        <3> QED  BY <1>1, <3>1
    <2>4. CASE \E r : Legible(r) /\ c2s'[t] = Append(c2s[t], r)
        <3>1. PICK r : Legible(r) /\ c2s'[t] = Append(c2s[t], r)
            BY <2>4
        <3>2. \/ i \in DOMAIN c2s[t] /\ c2s'[t][i] = c2s[t][i]
              \/ c2s'[t][i] = r
            BY <1>2, <3>1
        <3> QED  BY <1>1, <3>1, <3>2
    <2> QED  BY <1>4, <2>1, <2>2, <2>3, <2>4, LinesStep DEF LinesMove
<1> QED  BY <1>3, <1>4

\* The line a child reads is legible.
LEMMA LineReadable ==
    ASSUME TypeOK, TableReadable, NEW s \in Sessions, Reads(s)
    PROVE  Legible(Line(s))
<1>1. c2s[s] \in Seq(Requests) /\ c2s[s] # <<>>
    BY DEF TypeOK, Reads
<1>2. 1 \in DOMAIN c2s[s] /\ Line(s) = c2s[s][1]
    BY <1>1 DEF Line
<1> QED  BY <1>2 DEF TableReadable

LEMMA ReadableStep ==
    ASSUME TypeOK, ClientsTypeOK, Paced, TableReadable, NEW s \in Sessions, Steps(s)
    PROVE  TableReadable'
<1> SUFFICES \A i \in Ids : entries'[i] # NoRow => Readable(entries'[i].data)
    <2>1. \A t \in Sessions : \A i \in DOMAIN c2s'[t] : Legible(c2s'[t][i])
        BY LinesReadable
    <2> QED  BY <2>1 DEF TableReadable, Live, Legible, Readable, Malformed, StoredBy
<1>0. \A i \in Ids : entries[i] # NoRow => Readable(entries[i].data)
    BY DEF TableReadable, Live
<1> USE DEF TypeOK, StorageTypeOK
<1>1. CASE UNCHANGED entries
    BY <1>0, <1>1
<1>2. CASE HandlePost(s)
    <2>1. Legible(Line(s)) /\ Line(s).op = "POST"
        BY <1>2, LineReadable DEF HandlePost, Command
    <2>2. PICK ts \in Stamps, id \in -1..MaxId, data \in StoredBy(Line(s)) :
                 storage_add_entry(user[s], data, ts, id)
        <3>1. PICK now \in Stamps, id \in -1..MaxId, data \in StoredBy(Line(s)) :
                 storage_add_entry(user[s], data,
                     IF Line(s).epoch \in Stamps THEN Line(s).epoch ELSE now, id)
            BY <1>2 DEF HandlePost
        <3> QED  BY <3>1
    <2>3. \A i \in Ids : entries'[i] # entries[i] => Readable(entries'[i].data)
        BY <2>1, <2>2 DEF storage_add_entry, storageVars, Legible
    <2> QED  BY <1>0, <2>3
<1>3. CASE HandleUpdate(s)
    <2>1. Readable(Line(s).data)
        BY <1>3, LineReadable DEF HandleUpdate, Command, Legible, StoredBy
    <2>2. PICK rc : storage_update_entry(user[s], Line(s).id, Line(s).data, rc)
        BY <1>3 DEF HandleUpdate
    <2>3. \A i \in Ids : entries'[i] # entries[i] => Readable(entries'[i].data)
        BY <2>1, <2>2 DEF storage_update_entry, storageVars
    <2> QED  BY <1>0, <2>3
<1>4. CASE HandleDelete(s)
    <2>1. PICK rc : storage_delete_entry(user[s], Line(s).id, rc)
        BY <1>4 DEF HandleDelete
    <2>2. \A i \in Ids : entries'[i] # entries[i] => entries'[i] = NoRow
        BY <2>1 DEF storage_delete_entry, storageVars
    <2> QED  BY <1>0, <2>2
<1>5. CASE \/ HandleStart(s) \/ HandleRegister(s) \/ HandleGet(s)
           \/ HandleOther(s) \/ HandleQuit(s) \/ SendReply(s) \/ PeerGone(s)
           \/ ChildDies(s)
    BY <1>1, <1>5 DEF HandleStart, HandleRegister, HandleGet, HandleOther,
       HandleQuit, SendReply, PeerGone, ChildDies, storageVars,
       storage_register_user
<1>6. CASE ClientMoves(s) \/ OtherStep(s)
    <2>1. UNCHANGED serverVars \/ PeerConnect(s) \/ PeerCloses(s)
          \/ (\E rest : PeerReads(s, rest)) \/ \E r : PeerSends(s, r)
        BY <1>6 DEF ClientMoves, Connect, ClientStep, SaysQuit, ClientEnds,
           NetworkBreaks, Greeted, Registers, Refused, Return, CallFails, Call,
           OtherStep, PeerRead
    <2> QED  BY <1>1, <2>1 DEF PeerConnect, PeerCloses, PeerReads, PeerSends,
                serverVars
<1> QED  BY <1>2, <1>3, <1>4, <1>5, <1>6 DEF Steps, Handle, ChildStep

LEMMA InStepStep ==
    ASSUME Paced, TypeOK, SessionRegistered, InStep, [DiaryNext]_diaryVars
    PROVE  InStep'
<1>1. CASE UNCHANGED diaryVars
    BY <1>1 DEF diaryVars, InStep, ClientsTypeOK, TableReadable, Legible, Live,
       Readable, Malformed, StoredBy, SlotOK, OneCommand, OneAnswer, Decided, InPhase, Quiet, Fits
<1>2. CASE DiaryNext
    <2>1. PICK s \in Sessions : Steps(s)
        BY <1>2, StepsAre
    <2>2. ClientsTypeOK' /\ TableReadable'
        BY <2>1, ClientsTypeStep, ReadableStep DEF InStep
    <2>3. \A u \in Users : users[u] # NoKey => users'[u] # NoKey
        BY KeyStep, ClientIsPeer
    <2>4. ASSUME s \in Callers PROVE SlotOK(s)'
        <3> USE <2>4 DEF InStep
        <3>1. CASE Handles(s) /\ UNCHANGED clientVars
            <4>1. users[user[s]] # NoKey => users'[user[s]] # NoKey
                BY <2>3 DEF TypeOK
            <4> QED  BY <3>1, <4>1, HandlersInStep
        <3>2. CASE SendReply(s) /\ UNCHANGED clientVars
            BY <3>2, SendInStep
        <3>3. CASE (PeerGone(s) \/ ChildDies(s)) /\ UNCHANGED clientVars
            BY <3>3, ExitInStep
        <3>4. CASE ClientMoves(s)
            BY <3>4, ClientInStep DEF ClientMoves
        <3> QED  BY <2>1, <3>1, <3>2, <3>3, <3>4 DEF Steps, Handle, ChildStep,
                    Handles
    <2>5. ASSUME NEW t \in Callers, t # s PROVE SlotOK(t)'
        <3>1. users[user[t]] # NoKey => users'[user[t]] # NoKey
            BY <2>3, CallersAssumption DEF TypeOK
        <3>2. SlotOK(t) /\ t \in Sessions
            BY CallersAssumption DEF InStep
        <3> QED  BY <2>1, <2>5, <3>1, <3>2, OthersStill, ElsewhereInStep DEF InStep
    <2> QED  BY <2>2, <2>4, <2>5 DEF InStep
<1> QED  BY <1>1, <1>2

LEMMA InStepInit == DiaryInit => InStep
<1> SUFFICES ASSUME DiaryInit PROVE InStep
    OBVIOUS
<1>1. ClientsTypeOK
    BY DEF DiaryInit, ClientsTypeOK, Phases
<1>2. TableReadable
    BY DEF DiaryInit, ServerInit, StorageInit, TableReadable, Live
<1>3. ASSUME NEW s \in Callers PROVE SlotOK(s)
    BY CallersAssumption
       DEF DiaryInit, ServerInit, SlotOK, OneCommand, OneAnswer, Decided, InPhase
<1> QED  BY <1>1, <1>2, <1>3 DEF InStep

LEMMA InStepInvariant ==
    ASSUME Paced
    PROVE  DiarySpec => [](TypeOK /\ InStep)
<1>1. DiaryInit => InStep
    BY InStepInit
<1>2. TypeOK /\ SessionRegistered /\ InStep /\ [DiaryNext]_diaryVars => InStep'
    BY InStepStep
<1> QED  BY <1>1, <1>2, ClientsArePeers, TypeCorrect, SessionsAreRegistered, PTL
         DEF DiarySpec

\* Between two calls nothing of an earlier one is under way, so the line that
\* the next call reads can only be its own answer, whatever other programs
\* are connected (net.c:22, 41, 50, 69).
THEOREM AnswersAreInStep ==
    ASSUME Paced
    PROVE  DiarySpec => []AnswersInStep
<1>1. InStep => AnswersInStep
    BY DEF InStep, SlotOK, InPhase, Quiet, AnswersInStep
<1> QED  BY <1>1, InStepInvariant, PTL

\* The steps that end a call.
LEMMA CallEnds ==
    ASSUME TypeOK, ClientsTypeOK, [DiaryNext]_diaryVars, NEW s \in Callers,
           cli[s] = "wait", cli'[s] = "idle"
    PROVE  Return(s) \/ CallFails(s)
<1>1. PICK t \in Sessions : Steps(t)
    <2>1. DiaryNext
        BY DEF diaryVars
    <2> QED  BY <2>1, StepsAre
<1>2. t = s
    BY <1>1, CallersAssumption, OthersStill
<1>3. ~UNCHANGED clientVars
    BY DEF clientVars
<1>4. ~(Connect(s) \/ Greeted(s) \/ Registers(s) \/ Refused(s) \/ SaysQuit(s))
    BY DEF Connect, Greeted, Registers, Refused, SaysQuit, Moves
<1>5. ~\E r \in ClientCalls : Call(s, r)
    BY DEF Call
<1>6. ~ClientEnds(s)
    BY CallersAssumption DEF ClientEnds, ClientsTypeOK
<1> QED  BY <1>1, <1>2, <1>3, <1>4, <1>5, <1>6
         DEF Steps, ClientMoves, ClientStep, Handle, OtherStep, NetworkBreaks

\* A success has been executed: it is not the answer to an earlier command
\* while the call's own is still on its way (net.c:22-105).
THEOREM SuccessesAreReal ==
    ASSUME Paced
    PROVE  DiarySpec => SuccessIsReal
<1>1. TypeOK /\ InStep /\ [DiaryNext]_diaryVars =>
        [\A s \in Callers :
            (cli[s] = "wait" /\ cli'[s] = "idle" /\ ret'[s].ok) =>
                c2s[s] = <<>>]_diaryVars
    <2> SUFFICES ASSUME TypeOK, InStep, [DiaryNext]_diaryVars, NEW s \in Callers,
                        cli[s] = "wait", cli'[s] = "idle", ret'[s].ok
                 PROVE  c2s[s] = <<>>
        OBVIOUS
    <2>1. SlotOK(s) /\ ClientsTypeOK /\ s \in Sessions
        BY CallersAssumption DEF InStep
    <2>2. CASE Return(s)
        BY <2>1, <2>2 DEF Return, SlotOK, OneAnswer
    <2>3. CASE CallFails(s)
        BY <2>1, <2>3 DEF CallFails, ClientsTypeOK, Failure
    <2> QED  BY <2>1, <2>2, <2>3, CallEnds
<1> QED  BY <1>1, InStepInvariant, PTL DEF DiarySpec, SuccessIsReal

\* A list that has arrived is shown, foreign rows and all, unless a program has
\* stored one of the few that end the loop (client/architecture.md:102).
THEOREM CorruptEntriesHideNothing ==
    ASSUME Paced
    PROVE  DiarySpec => CorruptEntryHidesNothing
<1>1. TypeOK /\ InStep /\ [DiaryNext]_diaryVars =>
        [\A s \in Callers :
            (/\ cli[s] = "wait" /\ cli'[s] = "idle" /\ req[s].op = "GET"
             /\ s2c[s] # <<>> /\ Head(s2c[s]).op = "ENTRIES") =>
                ret'[s].ok]_diaryVars
    <2> SUFFICES ASSUME TypeOK, InStep, [DiaryNext]_diaryVars, NEW s \in Callers,
                        cli[s] = "wait", cli'[s] = "idle", req[s].op = "GET",
                        s2c[s] # <<>>, Head(s2c[s]).op = "ENTRIES"
                 PROVE  ret'[s].ok
        OBVIOUS
    <2>1. SlotOK(s) /\ ClientsTypeOK /\ s \in Sessions
        BY CallersAssumption DEF InStep
    <2>2. Fits(s, req[s], Head(s2c[s])) /\ up[s]
        BY <2>1 DEF SlotOK, InPhase, OneAnswer
    <2>3. Return(s)
        BY <2>1, <2>2, CallEnds DEF CallFails, EndOfFile
    <2>4. ret'[s] = ResultOf(s, req[s], Head(s2c[s]))
        BY <2>1, <2>3 DEF Return, Paced, ClientsTypeOK
    <2>5. ResultOf(s, req[s], Head(s2c[s])) = Answered(req[s], Head(s2c[s]))
        BY <2>2 DEF ResultOf, Fits
    <2> QED  BY <2>4, <2>5 DEF Answered, Listed
<1> QED  BY <1>1, InStepInvariant, PTL DEF DiarySpec, CorruptEntryHidesNothing

-----------------------------------------------------------------------------
(* net.c, the wire and the server together implement DiaryService.         *)

LEMMA IdsAreNat == Ids \subseteq Nat /\ IsFiniteSet(Ids)
<1>1. MaxId \in Nat
    BY MaxIdAssumption
<1>2. IsFiniteSet(1..MaxId)
    BY <1>1, FS_Interval
<1>3. ASSUME NEW i \in 1..MaxId PROVE i \in Nat
    BY <1>1, <1>3
<1> QED  BY <1>2, <1>3 DEF Ids

\* The least of a set of ids.
LEMMA LeastId ==
    ASSUME NEW S \in SUBSET Ids, S # {}
    PROVE  \E i \in S : \A j \in S : i <= j
<1>1. S \subseteq Nat
    BY IdsAreNat
<1>2. PICK i \in S : \A j \in S : <<j, i>> \notin OpToRel(<, Nat)
    BY <1>1, NatLessThanWellFounded, WFMin
<1>3. \A j \in S : ~(j < i)
    BY <1>1, <1>2 DEF OpToRel
<1> QED  BY <1>1, <1>3

LEMMA GreatestId ==
    ASSUME NEW S \in SUBSET Ids, S # {}
    PROVE  \E i \in S : \A j \in S : j <= i
<1> DEFINE T == {MaxId + 1 - j : j \in S}
<1>1. S \subseteq Int /\ MaxId \in Int
    BY IdsAreNat, MaxIdAssumption
<1>2. T \in SUBSET Ids /\ T # {}
    <2>1. ASSUME NEW j \in S PROVE MaxId + 1 - j \in 1..MaxId
        <3>1. MaxId \in Nat /\ j \in 1..MaxId
            BY MaxIdAssumption DEF Ids
        <3> QED  BY <3>1
    <2> QED  BY <2>1 DEF Ids
<1>3. PICK t \in T : \A u \in T : t <= u
    BY <1>2, LeastId
<1>4. PICK i \in S : t = MaxId + 1 - i
    BY <1>3
<1>5. \A j \in S : MaxId + 1 - i <= MaxId + 1 - j
    BY <1>3, <1>4
<1> QED  BY <1>1, <1>4, <1>5

\* The accumulator keeps everything unless it is full.
LEMMA FirstRowsFill ==
    ASSUME NEW S \in SUBSET Ids, FirstRows(S) # S
    PROVE  Cardinality(FirstRows(S)) = MaxEntries
<1> DEFINE Before(i) == {j \in S : j < i}
           F == FirstRows(S)
<1>1. S \subseteq Nat /\ IsFiniteSet(S)
    BY IdsAreNat, FS_Subset
<1>2. PICK i \in S \ F : \A j \in S \ F : i <= j
    BY LeastId DEF FirstRows
<1>3. \A k \in S : IsFiniteSet(Before(k)) /\ Cardinality(Before(k)) \in Nat
    BY <1>1, FS_Subset, FS_CardinalityType
<1>4. \A k \in S : k \in F <=> Cardinality(Before(k)) < MaxEntries
    BY DEF FirstRows
<1>5. Cardinality(Before(i)) >= MaxEntries
    BY <1>2, <1>3, <1>4, MaxEntriesAssumption
<1>6. F = Before(i)
    <2>1. ASSUME NEW k \in F, i < k PROVE FALSE
        <3>0. k \in S
            BY <2>1 DEF FirstRows
        <3>1. Before(i) \subseteq Before(k)
            <4>1. ASSUME NEW j \in S, j < i PROVE j < k
                BY <1>1, <1>2, <2>1, <3>0, <4>1
            <4> QED  BY <4>1
        <3>2. Cardinality(Before(i)) <= Cardinality(Before(k))
            <4>1. IsFiniteSet(Before(k)) /\ Before(i) \in SUBSET Before(k)
                BY <1>3, <3>0, <3>1
            <4> HIDE DEF Before
            <4> QED  BY <4>1, FS_Subset
        <3>3. Cardinality(Before(k)) < MaxEntries
            BY <1>4, <2>1, <3>0
        <3>4. Cardinality(Before(i)) \in Nat /\ Cardinality(Before(k)) \in Nat
            BY <1>2, <1>3, <3>0
        <3> HIDE DEF Before
        <3> QED  BY <1>5, <3>2, <3>3, <3>4, MaxEntriesAssumption
    <2>2. F \subseteq S /\ i \notin F
        BY <1>2 DEF FirstRows
    <2>3. \A k \in F : k \in S /\ k < i
        <3>1. ASSUME NEW k \in F PROVE k < i
            <4>1. k \in Nat /\ i \in Nat /\ k # i
                BY <1>1, <1>2, <2>2
            <4>2. ~(i < k)
                BY <2>1
            <4> QED  BY <4>1, <4>2
        <3> QED  BY <2>2, <3>1
    <2>4. \A k \in S : k < i => k \in F
        BY <1>1, <1>2
    <2> QED  BY <2>3, <2>4
<1>7. Cardinality(F) <= MaxEntries
    <2>1. F # {}
        BY <1>2, <1>3, <1>5, <1>6, FS_EmptySet, MaxEntriesAssumption
    <2>2. PICK m \in F : \A j \in F : j <= m
        BY <2>1, GreatestId DEF FirstRows
    <2>3. F \ {m} \subseteq Before(m) /\ m \in S
        <3>1. F \subseteq S
            BY DEF FirstRows
        <3>2. ASSUME NEW j \in F, j # m PROVE j < m
            <4>1. j \in Nat /\ m \in Nat /\ j <= m
                BY <1>1, <2>2, <3>1
            <4> QED  BY <3>2, <4>1
        <3> QED  BY <3>1, <3>2
    <2>4. IsFiniteSet(F)
        BY <1>2, <1>3, <1>6
    <2>5. Cardinality(F \ {m}) = Cardinality(F) - 1
        BY <2>2, <2>4, FS_RemoveElement
    <2>6. Cardinality(F \ {m}) <= Cardinality(Before(m))
        BY <1>3, <2>3, FS_Subset
    <2>7. Cardinality(Before(m)) < MaxEntries
        BY <1>4, <2>2, <2>3
    <2>8. Cardinality(F) \in Nat
        BY <2>4, FS_CardinalityType
    <2>9. Cardinality(Before(m)) \in Nat
        BY <1>3, <2>3
    <2> HIDE DEF F, Before
    <2> QED  BY <2>5, <2>6, <2>7, <2>8, <2>9, MaxEntriesAssumption
<1> QED  BY <1>2, <1>3, <1>5, <1>6, <1>7, MaxEntriesAssumption

\* The stages of a call, seen on its slot, before and after a step.
LEMMA CallIs ==
    ASSUME NEW s \in Sessions
    PROVE  /\ cli[s] # "wait" => CallOf(s) = Service!Idle(ret[s])
           /\ cli[s] = "wait" =>
                /\ c2s[s] # <<>> =>
                     CallOf(s) = [st |-> "open", by |-> user[s], req |-> req[s]]
                /\ c2s[s] = <<>> /\ pc[s] = "reply" =>
                     CallOf(s) = [st |-> "done", by |-> user[s], req |-> req[s],
                                  ret |-> ResultOf(s, req[s], out[s])]
                /\ c2s[s] = <<>> /\ pc[s] # "reply" /\ s2c[s] # <<>> =>
                     CallOf(s) = [st |-> "done", by |-> user[s], req |-> req[s],
                                  ret |-> ResultOf(s, req[s], Head(s2c[s]))]
                /\ c2s[s] = <<>> /\ pc[s] # "reply" /\ s2c[s] = <<>> =>
                     CallOf(s) = [st |-> "lost", by |-> user[s], req |-> req[s]]
BY DEF CallOf, Service!Idle

LEMMA CallBecomes ==
    ASSUME NEW s \in Sessions
    PROVE  /\ cli'[s] # "wait" => CallOf(s)' = Service!Idle(ret'[s])
           /\ cli'[s] = "wait" =>
                /\ c2s'[s] # <<>> =>
                     CallOf(s)' = [st |-> "open", by |-> user'[s],
                                   req |-> req'[s]]
                /\ c2s'[s] = <<>> /\ pc'[s] = "reply" =>
                     CallOf(s)' = [st |-> "done", by |-> user'[s],
                                   req |-> req'[s],
                                   ret |-> ResultOf(s, req'[s], out'[s])]
                /\ c2s'[s] = <<>> /\ pc'[s] # "reply" /\ s2c'[s] # <<>> =>
                     CallOf(s)' = [st |-> "done", by |-> user'[s],
                                   req |-> req'[s],
                                   ret |-> ResultOf(s, req'[s], Head(s2c'[s]))]
                /\ c2s'[s] = <<>> /\ pc'[s] # "reply" /\ s2c'[s] = <<>> =>
                     CallOf(s)' = [st |-> "lost", by |-> user'[s],
                                   req |-> req'[s]]
BY DEF CallOf, Service!Idle

\* The commands that can outlive their call are those of net.c.
LEMMA OrphanIs ==
    ASSUME TypeOK, NEW s \in Sessions, SlotOK(s)
    PROVE  /\ cli[s] = "wait" => OrphanOf(s) = NoOrphan
           /\ c2s[s] \in {<<>>, <<MyRegister>>, <<Quit>>} => OrphanOf(s) = NoOrphan
           /\ up[s] => OrphanOf(s) = NoOrphan
           /\ cli[s] # "wait" /\ c2s[s] # <<>> /\ Head(c2s[s]) \in Service!Calls =>
                /\ OrphanOf(s) = [by |-> user[s], req |-> Head(c2s[s])]
                /\ OrphanOf(s) # NoOrphan
<1>1. c2s[s] \in {<<>>, <<MyRegister>>, <<Quit>>} => OrphanOf(s) = NoOrphan
    <2>1. Head(<<MyRegister>>).op = "REGISTER" /\ Head(<<Quit>>).op = "QUIT"
        BY DEF MyRegister, Quit
    <2> QED  BY <2>1 DEF OrphanOf
<1>2. cli[s] # "wait" /\ up[s] => OrphanOf(s) = NoOrphan
    BY <1>1 DEF SlotOK, InPhase
<1>3. ASSUME cli[s] # "wait", c2s[s] # <<>>, Head(c2s[s]) \in Service!Calls
      PROVE  /\ OrphanOf(s) = [by |-> user[s], req |-> Head(c2s[s])]
             /\ OrphanOf(s) # NoOrphan
    <2>1. Head(c2s[s]).op \in {"POST", "GET", "UPDATE", "DELETE"}
        BY <1>3 DEF Service!Calls
    <2>2. user[s] \in Users /\ Head(c2s[s]) \in Requests
        BY <1>3 DEF TypeOK
    <2> QED  BY <1>3, <2>1, <2>2, OrphanAssumption DEF OrphanOf
<1> QED  BY <1>1, <1>2, <1>3 DEF OrphanOf

LEMMA OrphanBecomes ==
    ASSUME NEW s \in Sessions
    PROVE  /\ cli'[s] = "wait" \/ c2s'[s] = <<>> => OrphanOf(s)' = NoOrphan
           /\ c2s'[s] \in {<<MyRegister>>, <<Quit>>} => OrphanOf(s)' = NoOrphan
           /\ cli'[s] # "wait" /\ c2s'[s] # <<>> /\ Head(c2s'[s]) \in Service!Calls =>
                OrphanOf(s)' = [by |-> user'[s], req |-> Head(c2s'[s])]
<1>1. Head(<<MyRegister>>).op = "REGISTER" /\ Head(<<Quit>>).op = "QUIT"
    BY DEF MyRegister, Quit
<1>2. \A r \in Service!Calls : r.op \in {"POST", "GET", "UPDATE", "DELETE"}
    BY DEF Service!Calls
<1> QED  BY <1>1, <1>2 DEF OrphanOf

\* A step of one connection is a step of one caller.
LEMMA Abstracted ==
    ASSUME TypeOK, ClientsTypeOK, Orderly, NEW s \in Sessions, Steps(s)
    PROVE  /\ s \in Callers
           /\ absCall' = [absCall EXCEPT ![s] = CallOf(s)']
           /\ absOrphan' = [absOrphan EXCEPT ![s] = OrphanOf(s)']
           /\ absCall[s] = CallOf(s) /\ absOrphan[s] = OrphanOf(s)
           /\ absCall \in [Callers -> {CallOf(t) : t \in Callers}]
<1>1. s \in Callers /\ Callers = Sessions
    BY DEF Orderly
<1>2. ASSUME NEW t \in Callers, t # s
      PROVE  CallOf(t)' = CallOf(t) /\ OrphanOf(t)' = OrphanOf(t)
    BY <1>1, <1>2, OthersStill DEF CallOf, OrphanOf
<1>3. absCall' = [t \in Callers |-> CallOf(t)']
    BY DEF absCall
<1>4. absOrphan' = [t \in Callers |-> OrphanOf(t)']
    BY DEF absOrphan
<1>5. absCall' = [absCall EXCEPT ![s] = CallOf(s)']
    BY <1>1, <1>2, <1>3 DEF absCall
<1>6. absOrphan' = [absOrphan EXCEPT ![s] = OrphanOf(s)']
    BY <1>1, <1>2, <1>4 DEF absOrphan
<1> QED  BY <1>1, <1>5, <1>6 DEF absCall, absOrphan

LEMMA AsStutter ==
    ASSUME TypeOK, ClientsTypeOK, Orderly, NEW s \in Sessions, Steps(s),
           UNCHANGED storageVars, CallOf(s)' = CallOf(s),
           OrphanOf(s)' = OrphanOf(s)
    PROVE  UNCHANGED Service!serviceVars
<1>1. absCall' = absCall
    BY Abstracted
<1>2. absOrphan' = absOrphan
    BY Abstracted DEF absOrphan
<1> QED  BY <1>1, <1>2 DEF Service!serviceVars, storageVars

LEMMA AsLose ==
    ASSUME TypeOK, ClientsTypeOK, Orderly, NEW s \in Sessions, Steps(s),
           UNCHANGED storageVars, OrphanOf(s)' = OrphanOf(s),
           CallOf(s).st \in {"open", "done"},
           CallOf(s)' = [st |-> "lost", by |-> CallOf(s).by, req |-> CallOf(s).req]
    PROVE  Service!Lose(s)
<1>1. absOrphan' = absOrphan
    BY Abstracted DEF absOrphan
<1>2. absCall' = [absCall EXCEPT ![s] = [st |-> "lost", by |-> @.by, req |-> @.req]]
    BY Abstracted
<1> QED  BY <1>1, <1>2, Abstracted DEF Service!Lose, storageVars

LEMMA AsBegin ==
    ASSUME TypeOK, ClientsTypeOK, Orderly, NEW s \in Sessions, Steps(s),
           UNCHANGED storageVars, OrphanOf(s)' = OrphanOf(s),
           NEW u \in Users, NEW r \in Service!Calls, NEW st \in {"open", "lost"},
           CallOf(s).st = "idle", users[u] # NoKey,
           CallOf(s)' = [st |-> st, by |-> u, req |-> r]
    PROVE  Service!Begin(s, u, r)
<1>1. absOrphan' = absOrphan
    BY Abstracted DEF absOrphan
<1>2. absCall' = [absCall EXCEPT ![s] = [st |-> st, by |-> u, req |-> r]]
    BY Abstracted
<1> QED  BY <1>1, <1>2, Abstracted DEF Service!Begin, storageVars

LEMMA AsReturn ==
    ASSUME TypeOK, ClientsTypeOK, Orderly, NEW s \in Sessions, Steps(s),
           UNCHANGED storageVars, OrphanOf(s)' = OrphanOf(s),
           CallOf(s).st = "done", CallOf(s)' = Service!Idle(CallOf(s).ret)
    PROVE  Service!Return(s)
<1>1. absOrphan' = absOrphan
    BY Abstracted DEF absOrphan
<1>2. absCall' = [absCall EXCEPT ![s] = Service!Idle(@.ret)]
    BY Abstracted
<1> QED  BY <1>1, <1>2, Abstracted DEF Service!Return, storageVars

LEMMA AsFail ==
    ASSUME TypeOK, ClientsTypeOK, Orderly, NEW s \in Sessions, Steps(s),
           UNCHANGED storageVars, CallOf(s)' = Service!Idle(Failure),
           \/ OrphanOf(s)' = OrphanOf(s)
           \/ /\ CallOf(s).st = "open" /\ OrphanOf(s) = NoOrphan
              /\ OrphanOf(s)' = [by |-> CallOf(s).by, req |-> CallOf(s).req]
    PROVE  Service!Fail(s)
<1>1. absCall' = [absCall EXCEPT ![s] = Service!Idle(Service!Failure)]
    BY Abstracted DEF Service!Failure, Failure
<1>2. \/ absOrphan' = absOrphan
      \/ /\ absCall[s].st = "open" /\ absOrphan[s] = NoOrphan
         /\ absOrphan' = [absOrphan EXCEPT ![s] = [by |-> absCall[s].by,
                                                   req |-> absCall[s].req]]
    <2>1. CASE OrphanOf(s)' = OrphanOf(s)
        BY <2>1, Abstracted DEF absOrphan
    <2> QED  BY <2>1, Abstracted
<1> QED  BY <1>1, <1>2 DEF Service!Fail, storageVars

\* A command left behind is lost, or takes effect.
LEMMA AsTakeOrphan ==
    ASSUME TypeOK, ClientsTypeOK, Orderly, NEW s \in Sessions, Steps(s),
           CallOf(s)' = CallOf(s),
           OrphanOf(s) # NoOrphan, OrphanOf(s)' = NoOrphan,
           \/ UNCHANGED storageVars
           \/ \E x \in {Failure, Done} \cup {Posted(i) : i \in Ids} :
                Service!Effect(OrphanOf(s).by, OrphanOf(s).req, x)
    PROVE  Service!TakeOrphan(s)
<1>1. absCall' = absCall
    BY Abstracted DEF absCall
<1>2. absOrphan[s] # NoOrphan /\ absOrphan' = [absOrphan EXCEPT ![s] = NoOrphan]
    BY Abstracted
<1>3. absOrphan[s] = OrphanOf(s)
    BY Abstracted
<1> HIDE DEF absOrphan, absCall
<1> QED  BY <1>1, <1>2, <1>3 DEF Service!TakeOrphan, Service!storageVars, storageVars,
            Service!Failure, Service!Done, Service!Posted, Service!Ids,
            Failure, Done, Posted, Ids

LEMMA AsTake ==
    ASSUME TypeOK, ClientsTypeOK, Orderly, NEW s \in Sessions, Steps(s),
           OrphanOf(s)' = OrphanOf(s), CallOf(s).st = "open",
           NEW x,
           x \in {Failure, Done} \cup {Posted(i) : i \in Ids}
                  \cup {Listed(rows) : rows \in
                     UNION {[S -> [ts : Stamps, text : Sealed \cup {NoText}]] :
                              S \in SUBSET Ids}},
           Service!Effect(CallOf(s).by, CallOf(s).req, x),
           CallOf(s)' = [st |-> "done", by |-> CallOf(s).by,
                         req |-> CallOf(s).req, ret |-> x]
    PROVE  Service!Take(s)
<1>1. absOrphan' = absOrphan
    BY Abstracted DEF absOrphan
<1>2. absCall' = [absCall EXCEPT ![s] = [st |-> "done", by |-> @.by,
                                         req |-> @.req, ret |-> x]]
    BY Abstracted
<1>3. absCall[s] = CallOf(s)
    BY Abstracted
<1>4. x \in {Service!Failure, Service!Done} \cup {Service!Posted(i) : i \in Service!Ids}
             \cup {Service!Listed(rows) : rows \in
                UNION {[S -> [ts : Stamps, text : Sealed \cup {NoText}]] :
                         S \in SUBSET Service!Ids}}
    BY DEF Service!Failure, Service!Done, Service!Posted, Service!Listed,
           Service!Ids, Failure, Done, Posted, Listed, Ids
<1> HIDE DEF absOrphan, absCall
<1> QED  BY <1>1, <1>2, <1>3, <1>4 DEF Service!Take

LEMMA SlotsInStep ==
    ASSUME Orderly, InStep, NEW s \in Sessions
    PROVE  SlotOK(s) /\ ClientsTypeOK
BY DEF Orderly, InStep

\* The client's steps, seen by DiaryService.
LEMMA ConnectingRefines ==
    ASSUME Orderly, TypeOK, InStep, NEW s \in Sessions, Steps(s),
           \/ Connect(s) \/ Greeted(s) \/ Registers(s) \/ Refused(s)
           \/ SaysQuit(s)
    PROVE  UNCHANGED Service!serviceVars
<1>0. SlotOK(s) /\ ClientsTypeOK
    BY SlotsInStep
<1> USE <1>0 DEF ClientsTypeOK, Moves
<1>1. /\ UNCHANGED storageVars
      /\ cli[s] # "wait" /\ cli'[s] # "wait" /\ ret' = ret
    <2>1. \/ PeerConnect(s) \/ (\E rest : PeerReads(s, rest))
          \/ (\E r : PeerSends(s, r)) \/ UNCHANGED serverVars
        BY DEF Connect, Greeted, Registers, Refused, SaysQuit
    <2>2. UNCHANGED storageVars
        BY <2>1 DEF PeerConnect, PeerReads, PeerSends, serverVars, storageVars
    <2>3. cli[s] # "wait" /\ ret' = ret
        BY DEF Connect, Greeted, Registers, Refused, SaysQuit
    <2>4. cli'[s] # "wait"
        BY DEF Connect, Greeted, Registers, Refused, SaysQuit
    <2> QED  BY <2>2, <2>3, <2>4
<1>2. CallOf(s)' = CallOf(s)
    BY <1>1, CallIs, CallBecomes
<1>3. OrphanOf(s)' = OrphanOf(s)
    <2>1. CASE Greeted(s) \/ Refused(s)
        <3>1. c2s' = c2s /\ user' = user
            BY <2>1 DEF Greeted, PeerReads, Refused, serverVars
        <3> QED  BY <1>1, <3>1 DEF OrphanOf
    <2>2. CASE Connect(s)
        <3>1. c2s[s] = <<>> /\ c2s' = c2s
            BY <2>2 DEF Connect, PeerConnect, SlotOK, OneCommand
        <3> QED  BY <3>1, OrphanIs, OrphanBecomes
    <2>3. CASE Registers(s) \/ SaysQuit(s)
        <3>1. c2s[s] = <<>>
            BY <2>3 DEF Registers, SaysQuit, PeerSends, SlotOK, InPhase, Quiet
        <3>2. c2s'[s] \in {<<MyRegister>>, <<Quit>>}
            BY <2>3, <3>1 DEF Registers, SaysQuit, PeerSends, TypeOK, MyRegister, Quit
        <3> QED  BY <3>1, <3>2, OrphanIs, OrphanBecomes
    <2> QED  BY <2>1, <2>2, <2>3
<1> QED  BY <1>1, <1>2, <1>3, AsStutter

LEMMA CallRefines ==
    ASSUME Orderly, TypeOK, InStep, NEW s \in Sessions, Steps(s),
           NEW r \in ClientCalls, Call(s, r)
    PROVE  Service!Fail(s) \/ \E u \in Users : Service!Begin(s, u, r)
<1>0. SlotOK(s) /\ ClientsTypeOK
    BY SlotsInStep
<1> USE <1>0 DEF ClientsTypeOK
<1>1. SlotOK(s) /\ cli[s] = "idle" /\ r \in Service!Calls /\ user[s] \in Users
    BY DEF Call, Orderly, TypeOK
<1>2. CASE ~up[s]
    <2>1. UNCHANGED serverVars /\ cli' = cli /\ ret'[s] = Failure
        BY <1>2 DEF Call
    <2>2. UNCHANGED storageVars /\ OrphanOf(s)' = OrphanOf(s)
        BY <2>1 DEF serverVars, storageVars, OrphanOf
    <2>3. CallOf(s)' = Service!Idle(Failure)
        BY <1>1, <2>1, CallBecomes
    <2> QED  BY <2>2, <2>3, AsFail
<1>3. CASE up[s]
    <2>1. /\ c2s[s] = <<>> /\ s2c[s] = <<>> /\ pc[s] \in {"loop", "none"}
          /\ users[user[s]] # NoKey
        BY <1>1, <1>3 DEF SlotOK, InPhase, Quiet
    <2>2. /\ UNCHANGED storageVars /\ cli'[s] = "wait" /\ req'[s] = r
          /\ user'[s] = user[s] /\ pc'[s] = pc[s] /\ s2c'[s] = <<>>
        BY <1>3, <2>1 DEF Call, PeerSends, serverVars, storageVars, Moves
    <2>3. OrphanOf(s)' = OrphanOf(s)
        BY <1>1, <2>1, <2>2, OrphanIs, OrphanBecomes
    <2>4. \E st \in {"open", "lost"} :
             CallOf(s)' = [st |-> st, by |-> user[s], req |-> r]
        BY <2>1, <2>2, CallBecomes
    <2>5. CallOf(s).st = "idle"
        BY <1>1, CallIs DEF Service!Idle
    <2> QED  BY <1>1, <2>1, <2>2, <2>3, <2>4, <2>5, AsBegin
<1> QED  BY <1>2, <1>3

LEMMA ReturnRefines ==
    ASSUME Orderly, TypeOK, InStep, NEW s \in Sessions, Steps(s), Return(s)
    PROVE  Service!Return(s)
<1>0. SlotOK(s) /\ ClientsTypeOK
    BY SlotsInStep
<1> USE <1>0 DEF ClientsTypeOK
<1>1. SlotOK(s) /\ cli[s] = "wait" /\ s2c[s] # <<>> /\ cli'[s] = "idle"
    BY DEF Return, Moves
<1>2. c2s[s] = <<>> /\ pc[s] # "reply"
    BY <1>1 DEF SlotOK, OneAnswer
<1>3. /\ ret'[s] = ResultOf(s, req[s], Head(s2c[s]))
      /\ UNCHANGED storageVars /\ c2s' = c2s
    BY DEF Return, PeerReads, Orderly, storageVars
<1>4. CallOf(s).st = "done" /\ CallOf(s)' = Service!Idle(CallOf(s).ret)
    BY <1>1, <1>2, <1>3, CallIs, CallBecomes
<1>5. OrphanOf(s)' = OrphanOf(s)
    BY <1>1, <1>2, <1>3, OrphanIs, OrphanBecomes
<1> QED  BY <1>3, <1>4, <1>5, AsReturn

\* The caller gives up: its command is gone, or left behind in the socket.
LEMMA GivesUpRefines ==
    ASSUME Orderly, TypeOK, InStep, NEW s \in Sessions, Steps(s),
           UNCHANGED storageVars, cli'[s] # "wait", ret'[s] = Failure,
           user'[s] = user[s], c2s'[s] \in {<<>>, c2s[s]},
           cli[s] = "wait" \/ up[s] \/ c2s'[s] = c2s[s]
    PROVE  Service!Fail(s)
<1>0. SlotOK(s) /\ ClientsTypeOK
    BY SlotsInStep
<1> USE <1>0 DEF ClientsTypeOK
<1>1. SlotOK(s)
    OBVIOUS
<1>2. CallOf(s)' = Service!Idle(Failure)
    BY CallBecomes
<1>3. CASE cli[s] = "wait"
    <2>1. OrphanOf(s) = NoOrphan
        BY <1>1, <1>3, OrphanIs
    <2>2. CASE c2s'[s] = <<>>
        BY <1>2, <2>1, <2>2, OrphanBecomes, AsFail
    <2>3. CASE c2s'[s] # <<>>
        <3>1. c2s[s] # <<>> /\ c2s'[s] = c2s[s] /\ Head(c2s[s]) = req[s]
              /\ req[s] \in Service!Calls
            BY <1>1, <1>3, <2>3 DEF SlotOK, InPhase
        <3>2. CallOf(s) = [st |-> "open", by |-> user[s], req |-> req[s]]
            BY <1>3, <3>1, CallIs
        <3>3. OrphanOf(s)' = [by |-> user[s], req |-> req[s]]
            BY <3>1, OrphanBecomes
        <3> QED  BY <1>2, <2>1, <3>2, <3>3, AsFail
    <2> QED  BY <2>2, <2>3
<1>4. CASE cli[s] # "wait" /\ c2s'[s] = c2s[s]
    <2>1. OrphanOf(s)' = OrphanOf(s)
        BY <1>4 DEF OrphanOf
    <2> QED  BY <1>2, <2>1, AsFail
<1>5. CASE cli[s] # "wait" /\ up[s]
    <2>1. OrphanOf(s) = NoOrphan
        BY <1>1, <1>5, OrphanIs
    <2>2. c2s'[s] \in {<<>>, <<MyRegister>>, <<Quit>>}
        BY <1>1, <1>5 DEF SlotOK, InPhase
    <2>3. OrphanOf(s)' = NoOrphan
        BY <2>2, OrphanBecomes
    <2> QED  BY <1>2, <2>1, <2>3, AsFail
<1> QED  BY <1>3, <1>4, <1>5

LEMMA EndsRefine ==
    ASSUME Orderly, TypeOK, InStep, NEW s \in Sessions, Steps(s),
           CallFails(s) \/ ClientEnds(s)
    PROVE  Service!Fail(s)
<1>0. SlotOK(s) /\ ClientsTypeOK
    BY SlotsInStep
<1> USE <1>0 DEF ClientsTypeOK
<1>1. CASE CallFails(s)
    <2>1. /\ UNCHANGED serverVars /\ cli'[s] # "wait" /\ ret'[s] = Failure
        BY <1>1 DEF CallFails, Moves
    <2> QED  BY <2>1, GivesUpRefines DEF serverVars, storageVars
<1>2. CASE ClientEnds(s) /\ ~up[s]
    <2>1. /\ UNCHANGED serverVars /\ cli'[s] # "wait" /\ ret'[s] = Failure
        BY <1>2 DEF ClientEnds
    <2> QED  BY <2>1, GivesUpRefines DEF serverVars, storageVars
<1>3. CASE ClientEnds(s) /\ up[s]
    <2>1. /\ PeerCloses(s) /\ cli'[s] # "wait" /\ ret'[s] = Failure
        BY <1>3 DEF ClientEnds
    <2>2. c2s'[s] \in {<<>>, c2s[s]}
        BY <2>1, ClosesOne
    <2>3. UNCHANGED storageVars /\ user'[s] = user[s]
        BY <2>1 DEF PeerCloses, storageVars
    <2> QED  BY <1>3, <2>1, <2>2, <2>3, GivesUpRefines
<1> QED  BY <1>1, <1>2, <1>3

\* What the wire and the end of a child can do to a call or to an orphan.
LEMMA WireRefines ==
    ASSUME Orderly, TypeOK, InStep, NEW s \in Sessions, Steps(s),
           SendReply(s) \/ PeerGone(s) \/ ChildDies(s) \/ PeerCloses(s),
           UNCHANGED clientVars
    PROVE  UNCHANGED Service!serviceVars \/ Service!Lose(s) \/ Service!TakeOrphan(s)
<1>0. SlotOK(s) /\ ClientsTypeOK
    BY SlotsInStep
<1> USE <1>0 DEF ClientsTypeOK
<1>1. /\ SlotOK(s) /\ UNCHANGED storageVars
      /\ cli' = cli /\ req' = req /\ ret' = ret /\ user' = user
    BY DEF SendReply, PeerGone, ChildDies, PeerCloses, storageVars, clientVars
<1>2. c2s'[s] \in {<<>>, c2s[s]}
    BY ClosesOne DEF SendReply, PeerGone, ChildDies, Exit, TypeOK
<1>3. CASE cli[s] # "wait"
    <2>1. CallOf(s)' = CallOf(s)
        BY <1>1, <1>3, CallIs, CallBecomes
    <2>2. CASE c2s'[s] = c2s[s]
        <3>1. OrphanOf(s)' = OrphanOf(s)
            BY <1>1, <2>2 DEF OrphanOf
        <3> QED  BY <1>1, <2>1, <3>1, AsStutter
    <2>3. CASE c2s'[s] = <<>>
        <3>1. OrphanOf(s)' = NoOrphan
            BY <2>3, OrphanBecomes
        <3> QED  BY <1>1, <2>1, <3>1, AsStutter, AsTakeOrphan
    <2> QED  BY <1>2, <2>2, <2>3
<1>4. CASE cli[s] = "wait"
    <2>1. OrphanOf(s)' = OrphanOf(s)
        BY <1>1, <1>4, OrphanIs, OrphanBecomes
    <2>2. \/ CallOf(s)' = CallOf(s)
          \/ /\ CallOf(s).st \in {"open", "done"}
             /\ CallOf(s)' = [st |-> "lost", by |-> CallOf(s).by,
                              req |-> CallOf(s).req]
        <3>1. c2s[s] # <<>> => pc[s] = "loop" /\ s2c[s] = <<>>
            BY <1>1, <1>4 DEF SlotOK, OneCommand, OneAnswer, InPhase
        <3>2. pc[s] = "reply" => s2c[s] = <<>>
            BY <1>1 DEF SlotOK, OneAnswer
        <3>3. CASE PeerCloses(s)
            <4>1. pc'[s] = pc[s] /\ out'[s] = out[s] /\ s2c'[s] = <<>>
                BY <1>1, <3>3, ClosesOne DEF PeerCloses
            <4> QED  BY <1>1, <1>2, <1>4, <3>1, <4>1, CallIs, CallBecomes
        <3>4. CASE PeerGone(s) \/ ChildDies(s)
            <4>1. pc'[s] = "none" /\ c2s'[s] = <<>> /\ s2c'[s] = s2c[s]
                BY <3>4 DEF PeerGone, ChildDies, Exit, TypeOK
            <4> QED  BY <1>1, <1>4, <3>1, <3>2, <4>1, CallIs, CallBecomes
        <3>5. CASE SendReply(s)
            <4>1. pc[s] = "reply" /\ s2c[s] = <<>> /\ c2s[s] = <<>>
                BY <1>1, <1>4, <3>1, <3>2, <3>5
                   DEF SendReply, Sending, SlotOK, InPhase
            <4>2. /\ pc'[s] = "loop" /\ c2s'[s] = <<>>
                  /\ s2c'[s] = IF up[s] THEN <<out[s]>> ELSE <<>>
                BY <3>5, <4>1 DEF SendReply, TypeOK
            <4>3. Head(<<out[s]>>) = out[s]
                OBVIOUS
            <4> QED  BY <1>1, <1>4, <4>1, <4>2, <4>3, CallIs, CallBecomes
        <3> QED  BY <3>3, <3>4, <3>5
    <2> QED  BY <1>1, <2>1, <2>2, AsStutter, AsLose
<1> QED  BY <1>3, <1>4

\* The child's steps that are not for a call.
LEMMA SessionRefines ==
    ASSUME Orderly, TypeOK, InStep, NEW s \in Sessions, Steps(s),
           \/ HandleStart(s) \/ HandleRegister(s) \/ HandleOther(s)
           \/ HandleQuit(s),
           UNCHANGED clientVars
    PROVE  \/ UNCHANGED Service!serviceVars
           \/ \E u \in Users, k \in Keys : Service!Register(u, k)
<1>0. SlotOK(s) /\ ClientsTypeOK
    BY SlotsInStep
<1> USE <1>0 DEF ClientsTypeOK
<1>1. SlotOK(s) /\ cli' = cli /\ ret' = ret
    BY DEF clientVars
<1>2. ~HandleOther(s)
    <2>1. ASSUME HandleOther(s) PROVE Line(s) \in Service!Calls \cup {Quit}
        BY <2>1, ReadsOne DEF HandleOther, Command
    <2> QED  BY <2>1 DEF HandleOther, Command, Service!Calls, Quit
<1>3. cli[s] # "wait" /\ c2s[s] \in {<<>>, <<MyRegister>>, <<Quit>>} /\ c2s'[s] = <<>>
    <2>1. CASE HandleStart(s)
        BY <1>1, <2>1 DEF HandleStart, SlotOK, OneCommand, InPhase
    <2>2. CASE HandleRegister(s)
        BY <1>1, <2>2, ReadsOne DEF HandleRegister
    <2>3. CASE HandleQuit(s)
        <3>1. /\ Line(s) \in Service!Calls \cup {Quit} /\ Line(s).op = "QUIT"
              /\ c2s[s] = <<Line(s)>> /\ c2s'[s] = <<>>
              /\ cli[s] = "wait" => Line(s) = req[s]
            BY <2>3, ReadsOne DEF HandleQuit, Command
        <3>2. Line(s) = Quit /\ Line(s) \notin Service!Calls
            BY <3>1 DEF Service!Calls, Quit
        <3> QED  BY <1>1, <3>1, <3>2 DEF SlotOK, InPhase
    <2> QED  BY <1>2, <2>1, <2>2, <2>3
<1>4. CallOf(s)' = CallOf(s) /\ OrphanOf(s)' = OrphanOf(s)
    BY <1>1, <1>3, CallIs, CallBecomes, OrphanIs, OrphanBecomes
<1>5. CASE UNCHANGED storageVars
    BY <1>4, <1>5, AsStutter
<1>6. CASE HandleRegister(s) /\ ~UNCHANGED storageVars
    <2>1. PICK k \in Keys : \E rc \in {0, -1} : storage_register_user(user[s], k, rc)
        BY <1>6 DEF HandleRegister
    <2>2. /\ users[user[s]] = NoKey /\ UNCHANGED <<entries, seq>>
          /\ users' = [users EXCEPT ![user[s]] = k]
        BY <1>6, <2>1 DEF storage_register_user, storageVars, TypeOK, StorageTypeOK
    <2>3. absCall' = absCall /\ absOrphan' = absOrphan
        BY <1>4, Abstracted DEF absCall, absOrphan
    <2>4. user[s] \in Users
        BY DEF TypeOK
    <2> QED  BY <2>2, <2>3, <2>4 DEF Service!Register
<1>7. HandleStart(s) \/ HandleQuit(s) => UNCHANGED storageVars
    BY DEF HandleStart, HandleQuit, storageVars
<1> QED  BY <1>2, <1>5, <1>6, <1>7

\* The values a call can return.
ShortResults == {Failure, Done} \cup {Posted(i) : i \in Ids}
Lists == {Listed(rows) : rows \in
            UNION {[S -> [ts : Stamps, text : Sealed \cup {NoText}]] :
                     S \in SUBSET Ids}}

\* A handler has the effect of the command on the tables, for the caller that
\* waits for it or for one that has given up.
LEMMA EffectRefines ==
    ASSUME Orderly, TypeOK, InStep, NEW s \in Sessions, Steps(s),
           pc[s] = "loop", Reads(s), NEW m, Answer(s, m, "reply"),
           UNCHANGED clientVars, Line(s) \in Service!Calls,
           NEW x, x = ResultOf(s, Line(s), m),
           x \in ShortResults \cup Lists,
           Service!Effect(user[s], Line(s), x),
           x \in ShortResults \/ UNCHANGED storageVars
    PROVE  Service!Take(s) \/ Service!TakeOrphan(s)
<1>0. SlotOK(s) /\ ClientsTypeOK
    BY SlotsInStep
<1> USE <1>0 DEF ClientsTypeOK
<1>1. /\ SlotOK(s) /\ cli' = cli /\ req' = req /\ ret' = ret /\ user' = user
      /\ pc'[s] = "reply" /\ out'[s] = m
    BY DEF clientVars, Answer, TypeOK
<1>2. /\ c2s[s] # <<>> /\ c2s'[s] = <<>> /\ Head(c2s[s]) = Line(s)
      /\ cli[s] = "wait" => Line(s) = req[s]
    BY <1>1, ReadsOne DEF Line
<1>3. OrphanOf(s)' = NoOrphan
    BY <1>2, OrphanBecomes
<1>4. CASE cli[s] = "wait"
    <2>1. OrphanOf(s) = NoOrphan
        BY <1>1, <1>4, OrphanIs
    <2>2. CallOf(s) = [st |-> "open", by |-> user[s], req |-> req[s]]
        BY <1>2, <1>4, CallIs
    <2>3. CallOf(s)' = [st |-> "done", by |-> user[s], req |-> req[s], ret |-> x]
        BY <1>1, <1>2, <1>4, CallBecomes
    <2>4. Service!Effect(CallOf(s).by, CallOf(s).req, x)
        BY <1>2, <1>4, <2>2
    <2> QED  BY <1>3, <2>1, <2>2, <2>3, <2>4, AsTake DEF ShortResults, Lists
<1>5. CASE cli[s] # "wait"
    <2>1. CallOf(s)' = CallOf(s)
        BY <1>1, <1>5, CallIs, CallBecomes
    <2>2. OrphanOf(s) = [by |-> user[s], req |-> Line(s)] /\ OrphanOf(s) # NoOrphan
        BY <1>1, <1>2, <1>5, OrphanIs
    <2>3. Service!Effect(OrphanOf(s).by, OrphanOf(s).req, x)
        BY <2>2
    <2> QED  BY <1>3, <2>1, <2>2, <2>3, AsTakeOrphan DEF ShortResults
<1> QED  BY <1>4, <1>5

LEMMA ResultsAre ==
    ASSUME NEW s, NEW r
    PROVE  /\ ResultOf(s, r, FAIL) = Failure
           /\ r.op \in {"UPDATE", "DELETE"} => ResultOf(s, r, OK) = Done
           /\ r.op = "POST" => \A i : ResultOf(s, r, [op |-> "OKID", id |-> i])
                                        = Posted(i)
BY DEF ResultOf, Answered, FAIL, OK

LEMMA PostRefines ==
    ASSUME Orderly, TypeOK, InStep, NEW s \in Sessions, Steps(s),
           HandlePost(s), UNCHANGED clientVars
    PROVE  Service!Take(s) \/ Service!TakeOrphan(s)
<1>1. /\ pc[s] = "loop" /\ Reads(s) /\ Line(s) \in Service!Calls
      /\ Line(s).op = "POST"
    BY ReadsOne, SlotsInStep DEF HandlePost, Command, Quit
<1>2. Line(s).epoch \in Stamps \cup {0} /\ Line(s).epoch # BadEpoch
    BY <1>1, StampsAssumption DEF Service!Calls, Service!NoEpoch, BadEpoch
<1>3. PICK ts \in Stamps, id \in -1..MaxId :
         /\ Line(s).epoch # 0 => ts = Line(s).epoch
         /\ storage_add_entry(user[s], Line(s).data, ts, id)
         /\ IF id < 0 THEN Answer(s, FAIL, "reply")
                      ELSE Answer(s, [op |-> "OKID", id |-> id], "reply")
    BY <1>2 DEF HandlePost, StoredBy
<1> DEFINE x == IF id < 0 THEN Failure ELSE Posted(id)
<1>4. Service!Effect(user[s], Line(s), x)
    <2>1. Service!storage_add_entry(user[s], Line(s).data, ts, id)
        BY <1>3 DEF storage_add_entry, Service!storage_add_entry, Fails,
                    Service!Fails, storageVars, Service!storageVars
    <2> QED  BY <1>1, <1>3, <2>1 DEF Service!Effect, Service!NoEpoch,
                Service!Failure, Service!Posted, Failure, Posted
<1>5. x \in ShortResults
    <2>1. id < 0 \/ id \in Ids
        BY <1>3, MaxIdAssumption DEF storage_add_entry, TypeOK, StorageTypeOK, Ids
    <2> QED  BY <2>1 DEF ShortResults
<1>6. PICK m : Answer(s, m, "reply") /\ x = ResultOf(s, Line(s), m)
    BY <1>1, <1>3, ResultsAre
<1> HIDE DEF x
<1> QED  BY <1>1, <1>4, <1>5, <1>6, EffectRefines

LEMMA EditRefines ==
    ASSUME Orderly, TypeOK, InStep, NEW s \in Sessions, Steps(s),
           HandleUpdate(s) \/ HandleDelete(s), UNCHANGED clientVars
    PROVE  Service!Take(s) \/ Service!TakeOrphan(s)
<1>1. /\ pc[s] = "loop" /\ Reads(s) /\ Line(s) \in Service!Calls
      /\ Line(s).op \in {"UPDATE", "DELETE"}
    BY ReadsOne, SlotsInStep DEF HandleUpdate, HandleDelete, Command, Quit
<1>2. PICK rc \in {0, -1} :
         /\ \/ /\ Line(s).op = "UPDATE"
               /\ storage_update_entry(user[s], Line(s).id, Line(s).data, rc)
            \/ /\ Line(s).op = "DELETE"
               /\ storage_delete_entry(user[s], Line(s).id, rc)
         /\ Answer(s, IF rc = 0 THEN OK ELSE FAIL, "reply")
    BY DEF HandleUpdate, HandleDelete, Command
<1> DEFINE x == IF rc = 0 THEN Done ELSE Failure
<1>3. Service!Effect(user[s], Line(s), x)
    <2>1. \/ /\ Line(s).op = "UPDATE"
             /\ Service!storage_update_entry(user[s], Line(s).id, Line(s).data, rc)
          \/ /\ Line(s).op = "DELETE"
             /\ Service!storage_delete_entry(user[s], Line(s).id, rc)
        BY <1>2 DEF storage_update_entry, Service!storage_update_entry,
           storage_delete_entry, Service!storage_delete_entry, Own, Service!Own,
           Live, Service!Live, Ids, Service!Ids, Fails, Service!Fails,
           storageVars, Service!storageVars
    <2> QED  BY <2>1 DEF Service!Effect, Service!Failure, Service!Done, Failure, Done
<1>4. x \in ShortResults
    BY DEF ShortResults
<1>5. PICK m : Answer(s, m, "reply") /\ x = ResultOf(s, Line(s), m)
    BY <1>1, <1>2, ResultsAre
<1> HIDE DEF x
<1> QED  BY <1>1, <1>3, <1>4, <1>5, EffectRefines

\* The list a GET returns when its answer holds the rows of "kept".
ListOf(kept) == [i \in kept |-> Opened(entries[i].ts, entries[i].data)]

LEMMA ListIs ==
    ASSUME TypeOK, TableReadable, NEW s \in Callers, NEW r, r.op = "GET",
           NEW kept \in SUBSET Live,
           NEW m, m.op = "ENTRIES", DOMAIN m.rows = kept,
           \A i \in kept : /\ m.rows[i].ts = entries[i].ts
                           /\ m.rows[i].data = entries[i].data
    PROVE  ResultOf(s, r, m) = Listed(ListOf(kept)) /\ Listed(ListOf(kept)) \in Lists
<1> DEFINE list == ListOf(kept)
<1>1. \A i \in kept : ~Malformed(s, m.rows[i].data)
    BY DEF TableReadable, Readable
<1>2. m.op = "ENTRIES" /\ DOMAIN m.rows = kept
    OBVIOUS
<1>3. ResultOf(s, r, m) = Answered(r, m)
    BY <1>1, <1>2 DEF ResultOf
<1>4. Answered(r, m) = Listed([i \in kept |->
                          Opened(m.rows[i].ts, m.rows[i].data)])
    BY <1>2 DEF Answered
<1>5. Answered(r, m) = Listed(list)
    BY <1>4 DEF ListOf
<1>6. list \in [kept -> [ts : Stamps, text : Sealed \cup {NoText}]]
    <2>1. \A i \in kept : entries[i] \in Row
        BY DEF TypeOK, StorageTypeOK, Live
    <2>2. \A i \in kept : entries[i].ts \in Stamps
        BY <2>1 DEF Row
    <2> QED  BY <2>2 DEF Opened, ListOf
<1>7. kept \in SUBSET Ids
    BY DEF Live
<1> HIDE DEF list
<1>8. Listed(list) \in Lists
    BY <1>6, <1>7 DEF Lists
<1> QED  BY <1>3, <1>5, <1>8 DEF list

LEMMA GetRefines ==
    ASSUME Orderly, TypeOK, InStep, NEW s \in Sessions, Steps(s),
           HandleGet(s), UNCHANGED clientVars
    PROVE  Service!Take(s) \/ Service!TakeOrphan(s)
<1>1. /\ pc[s] = "loop" /\ Reads(s) /\ Line(s) \in Service!Calls
      /\ Line(s).op = "GET" /\ UNCHANGED storageVars /\ user[s] \in Users
    BY ReadsOne, SlotsInStep DEF HandleGet, Command, Quit, TypeOK
<1>2. CASE Fails("memory") /\ Answer(s, FAIL, "reply")
    <2>1. ResultOf(s, Line(s), FAIL) = Failure
        BY ResultsAre
    <2>2. Service!Effect(user[s], Line(s), Failure)
        BY <1>1, <1>2 DEF Service!Effect, Service!Failure, Failure, Fails,
           Service!Fails, storageVars, Service!storageVars
    <2> QED  BY <1>1, <1>2, <2>1, <2>2, EffectRefines DEF ShortResults
<1>3. CASE \E kept \in SUBSET Ids :
             /\ GetRows(user[s], kept)
             /\ Answer(s,
                  [op |-> "ENTRIES",
                   rows |-> [i \in kept |-> [ts |-> entries[i].ts,
                                             data |-> entries[i].data]]],
                  "reply")
    <2>1. PICK kept \in SUBSET Ids :
             /\ GetRows(user[s], kept)
             /\ Answer(s,
                  [op |-> "ENTRIES",
                   rows |-> [i \in kept |-> [ts |-> entries[i].ts,
                                             data |-> entries[i].data]]],
                  "reply")
        BY <1>3
    <2> DEFINE m == [op |-> "ENTRIES",
                     rows |-> [i \in kept |-> [ts |-> entries[i].ts,
                                               data |-> entries[i].data]]]
               x == Listed(ListOf(kept))
    <2>2. kept \in SUBSET Own(user[s]) /\ kept \in SUBSET Live
        BY <1>1, <2>1, RowsAreOwn DEF Own
    <2>3. x = ResultOf(s, Line(s), m) /\ x \in Lists
        <3>1. TableReadable /\ s \in Callers
            BY DEF InStep, Orderly
        <3>2. /\ m.op = "ENTRIES" /\ DOMAIN m.rows = kept
              /\ \A i \in kept : /\ m.rows[i].ts = entries[i].ts
                              /\ m.rows[i].data = entries[i].data
            OBVIOUS
        <3> HIDE DEF m
        <3> QED  BY <1>1, <2>2, <3>1, <3>2, ListIs
    <2>4. \/ kept = Own(user[s]) \/ Fails("rows") \/ Fails("memory")
          \/ Cardinality(kept) = MaxEntries
        <3>1. kept = FirstRows(Own(user[s])) \/ Fails("rows") \/ Fails("memory")
            BY <2>1 DEF GetRows, storage_get_entries, collect_entry
        <3> QED  BY <3>1, FirstRowsFill DEF Own, Live
    <2>5. Service!Effect(user[s], Line(s), x)
        <3>1. Service!Own(user[s]) = Own(user[s])
            BY DEF Own, Live, Ids, Service!Own, Service!Live, Service!Ids
        <3>2. x = Service!Listed([i \in kept |->
                     Service!Opened(entries[i].ts, entries[i].data)])
            BY DEF ListOf, Listed, Opened, Service!Listed, Service!Opened
        <3>3. UNCHANGED Service!storageVars
            BY <1>1 DEF storageVars, Service!storageVars
        <3>4. Service!Cardinality(kept) = Cardinality(kept)
            BY DEF Cardinality, Service!Cardinality
        <3> HIDE DEF x
        <3> QED  BY <1>1, <2>2, <2>4, <3>4, <3>1, <3>2, <3>3
                 DEF Service!Effect, Fails, Service!Fails
    <2>6. Answer(s, m, "reply")
        BY <2>1
    <2> HIDE DEF x, m
    <2> QED  BY <1>1, <2>3, <2>5, <2>6, EffectRefines
<1> QED  BY <1>2, <1>3 DEF HandleGet

LEMMA ServiceStep ==
    ASSUME Orderly, TypeOK, InStep, [DiaryNext]_diaryVars
    PROVE  [Service!ServiceNext]_(Service!serviceVars)
<1>1. CASE UNCHANGED diaryVars
    BY <1>1 DEF diaryVars, Service!serviceVars, absCall, absOrphan, CallOf, OrphanOf
<1>2. CASE DiaryNext
    <2>1. PICK s \in Sessions : Steps(s)
        BY <1>2, StepsAre
    <2>2. s \in Callers
        BY DEF Orderly
    <2>3. CASE \/ Connect(s) \/ Greeted(s) \/ Registers(s) \/ Refused(s)
               \/ SaysQuit(s)
        BY <2>1, <2>3, ConnectingRefines
    <2>4. CASE Return(s) \/ CallFails(s) \/ ClientEnds(s)
        BY <2>1, <2>2, <2>4, ReturnRefines, EndsRefine DEF Service!ServiceNext
    <2>5. CASE \E r \in ClientCalls : Call(s, r)
        <3>1. ClientCalls \subseteq Service!Calls
            BY DEF Orderly
        <3> QED  BY <2>1, <2>2, <2>5, <3>1, CallRefines DEF Service!ServiceNext
    <2>6. CASE (SendReply(s) \/ PeerGone(s) \/ ChildDies(s) \/ PeerCloses(s))
               /\ UNCHANGED clientVars
        BY <2>1, <2>2, <2>6, WireRefines DEF Service!ServiceNext
    <2>7. CASE (\/ HandleStart(s) \/ HandleRegister(s) \/ HandleOther(s)
                \/ HandleQuit(s))
               /\ UNCHANGED clientVars
        BY <2>1, <2>7, SessionRefines DEF Service!ServiceNext
    <2>8. CASE (\/ HandlePost(s) \/ HandleGet(s) \/ HandleUpdate(s)
                \/ HandleDelete(s))
               /\ UNCHANGED clientVars
        BY <2>1, <2>2, <2>8, PostRefines, GetRefines, EditRefines
           DEF Service!ServiceNext
    <2> QED  BY <2>1, <2>2, <2>3, <2>4, <2>5, <2>6, <2>7, <2>8
             DEF Steps, ClientMoves, ClientStep, Handle, ChildStep, NetworkBreaks
<1> QED  BY <1>1, <1>2

\* A call of net.c takes effect at most once, between its start and its return
\* or after it has reported failure, and a success has happened; whatever
\* child, client or connection dies at whatever instant (net.c:22-105,
\* client_handler.c:68-129).
THEOREM DiaryImplementsService ==
    ASSUME Orderly
    PROVE  DiarySpec => ImplementsService
<1>1. DiaryInit => Service!ServiceInit
    <2> SUFFICES ASSUME DiaryInit PROVE Service!ServiceInit
        OBVIOUS
    <2>1. Service!StorageInit
        BY DEF DiaryInit, ServerInit, StorageInit, Service!StorageInit, Ids,
               Service!Ids
    <2>2. \A s \in Callers : /\ CallOf(s) = Service!Idle(Service!Failure)
                            /\ OrphanOf(s) = NoOrphan
        BY CallersAssumption DEF DiaryInit, ServerInit, CallOf, OrphanOf,
           Service!Idle, Service!Failure, Failure
    <2> QED  BY <2>1, <2>2 DEF Service!ServiceInit, absCall, absOrphan
<1>2. TypeOK /\ InStep /\ [DiaryNext]_diaryVars
        => [Service!ServiceNext]_(Service!serviceVars)
    BY ServiceStep
<1>3. Paced
    BY DEF Orderly, Paced
<1> QED  BY <1>1, <1>2, <1>3, InStepInvariant, PTL
         DEF DiarySpec, ImplementsService, Service!ServiceSpec
=============================================================================
