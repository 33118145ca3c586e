------------------------------- MODULE Diary --------------------------------
(***************************************************************************)
(* The server of DiaryServer with diary-client at the other end of the     *)
(* connections: client/net.c, and the connection set-up that client/main.c *)
(* takes from the protocol library; or with DiaryConnection.java there.    *)
(*                                                                         *)
(* Every client action is a peer action of DiaryServer with a policy: one  *)
(* command at a time, then wait for what looks like the answer.  A slot of *)
(* Sessions \ Callers is some other program that speaks the protocol.  The *)
(* server is started once: restarts are looked at in DiaryServer.          *)
(***************************************************************************)
EXTENDS DiaryServer, NetResults

CONSTANTS
    Callers,        \* the slots whose peer is diary-client
    JavaCallers,    \* those of them where it is the Android client
    Blank,          \* an empty data column
    Undecodable,    \* data that Base64.decode throws at, such as ill-padded
    NoOrphan,       \* of DiaryService
    MyKey,          \* the encryption key in the user's key file
    ClientCalls,    \* the commands the callers of this instance may issue
    RawRequests     \* the commands the other programs may issue

ASSUME CallersAssumption ==
    Callers \subseteq Sessions /\ JavaCallers \subseteq Callers
ASSUME MyKeyAssumption   == MyKey \in Keys
ASSUME RawAssumption     == RawRequests \subseteq Requests
ASSUME CallsAssumption   == ClientCalls \subseteq Requests
ASSUME SealedAssumption  == Sealed \subseteq Data /\ Blank \in Data
ASSUME BlankAssumption   == Blank \notin Sealed /\ Junk \cap Sealed = {}
ASSUME UndecodableAssumption ==
    Undecodable \subseteq Data \ (Sealed \cup {Blank})
ASSUME OrphanAssumption  == NoOrphan \notin [by : Users, req : Requests]

VARIABLES
    cli,        \* where the client of a slot stands
    req,        \* the command its call sent
    ret         \* what its last call returned

clientVars == <<cli, req, ret>>
diaryVars  == <<users, entries, seq, allowed, pc, user, out, up, c2s, s2c,
                cli, req, ret>>

\* off, greet and register (inside proto_connect), idle, wait (inside a
\* net_* function), leave (about to exit).
Phases == {"off", "greet", "register", "idle", "wait", "leave"}

NoCall == [op |-> "NONE"]

(* What a net_* function makes of the bytes it reads. *)

BadMalformed(s, data) == data = Blank    \* in Java like in C

\* A row that ends the loop over the list.  In C there is no token where
\* strtok_r expects the data; DiaryConnection.java finds an empty string there,
\* which does not open, but Base64.decode throws at some that are not empty.
Malformed(s, data) ==
    IF s \in JavaCallers THEN data \in Undecodable ELSE data = Blank

\* What an answer says if every row can be read: DiaryConnection.java throws
\* where Failure is returned.
Answered(r, m) ==
    CASE r.op = "POST" /\ m.op = "OKID" -> Posted(m.id)
      [] r.op \in {"UPDATE", "DELETE"} /\ m.op = "OK" -> Done
      [] r.op = "GET" /\ m.op = "ENTRIES" ->
           Listed([i \in DOMAIN m.rows |-> Opened(m.rows[i].ts, m.rows[i].data)])
      [] OTHER -> Failure

\* The value returned for command r when m is the first unread message.
ResultOf(s, r, m) ==
    IF m.op = "ENTRIES" /\ \E i \in DOMAIN m.rows : Malformed(s, m.rows[i].data)
    THEN Failure ELSE Answered(r, m)

BadRowsLeft(s, r, m) ==    \* every call reads one line
    {i \in DOMAIN m.rows : m.op = "ROWS" => \E j \in DOMAIN m.rows : j < i}

\* The ids of the rows that are still unread when the function returns: a GET
\* stops at the first malformed row, any other call reads one line.
RowsLeft(s, r, m) ==
    IF r.op = "GET" /\ m.op = "ENTRIES"
    THEN {i \in DOMAIN m.rows :
            \E j \in DOMAIN m.rows : j < i /\ Malformed(s, m.rows[j].data)}
    ELSE {i \in DOMAIN m.rows :
            m.op = "ROWS" => \E j \in DOMAIN m.rows : j < i}

Remainder(m, ids) ==
    IF ids = {} THEN <<>>
    ELSE <<[op |-> "ROWS", rows |-> [i \in ids |-> m.rows[i]]]>>

LeftBy(s, r, m) ==
    IF m.op \in {"ENTRIES", "ROWS"} THEN Remainder(m, RowsLeft(s, r, m)) ELSE <<>>

-----------------------------------------------------------------------------
DiaryInit ==
    /\ ServerInit
    /\ cli = [s \in Sessions |-> "off"]
    /\ req = [s \in Sessions |-> NoCall]
    /\ ret = [s \in Sessions |-> Failure]

Moves(s, from, to) == cli[s] = from /\ cli' = [cli EXCEPT ![s] = to]

\* The peer sees end of file once it has read everything.
EndOfFile(s) == ~up[s] \/ (pc[s] = "none" /\ s2c[s] = <<>>)

\* proto_connect: reads the greeting, registers if asked to, gives up on
\* anything that is neither.
Connect(s) ==
    /\ Moves(s, "off", "greet")
    /\ PeerConnect(s)
    /\ UNCHANGED <<req, ret>>

Greeted(s) ==
    /\ PeerReads(s, <<>>)
    /\ LET op == Head(s2c[s]).op IN
       Moves(s, "greet", CASE op = "OK" -> "idle"
                           [] op = "REGISTER" -> "register"
                           [] OTHER -> "leave")
    /\ UNCHANGED <<req, ret>>

Registers(s) ==
    /\ pc[s] # "none" /\ Room(s)
    /\ Moves(s, "register", "greet")
    /\ PeerSends(s, [op |-> "REGISTER", key |-> MyKey])
    /\ UNCHANGED <<req, ret>>

Refused(s) ==
    /\ EndOfFile(s)
    /\ \/ Moves(s, "greet", "leave")
       \/ Moves(s, "register", "leave")
    /\ UNCHANGED <<serverVars, req, ret>>

\* The first half of net_post_entry, net_update_entry, net_delete_entry and
\* net_get_entries.  On a connection known to be dead the send fails and so
\* does the call; to a child that has died the bytes go nowhere.
Call(s, r) ==
    /\ cli[s] = "idle"
    /\ \/ /\ ~up[s]
          /\ ret' = [ret EXCEPT ![s] = Failure]
          /\ UNCHANGED <<serverVars, cli, req>>
       \/ /\ up[s] /\ Room(s)
          /\ Moves(s, "idle", "wait")
          /\ req' = [req EXCEPT ![s] = r]
          /\ ret' = [ret EXCEPT ![s] = Failure]
          /\ IF pc[s] = "none" THEN UNCHANGED serverVars ELSE PeerSends(s, r)

\* The second half: the function takes the next line for its answer.  With no
\* memory for the list, GET returns with all its rows unread.
Return(s) ==
    /\ s2c[s] # <<>>
    /\ LET m == Head(s2c[s]) IN
       \/ /\ PeerReads(s, LeftBy(s, req[s], m))
          /\ ret' = [ret EXCEPT ![s] = ResultOf(s, req[s], m)]
       \/ /\ Fails("client memory") /\ s \notin JavaCallers
          /\ req[s].op = "GET" /\ m.op = "ENTRIES"
          /\ PeerReads(s, Remainder(m, DOMAIN m.rows))
          /\ ret' = [ret EXCEPT ![s] = Failure]
    /\ Moves(s, "wait", "idle")
    /\ req' = [req EXCEPT ![s] = NoCall]

\* recv returns end of file instead of an answer.
CallFails(s) ==
    /\ EndOfFile(s)
    /\ Moves(s, "wait", "idle")
    /\ req' = [req EXCEPT ![s] = NoCall]
    /\ ret' = [ret EXCEPT ![s] = Failure]
    /\ UNCHANGED serverVars

\* The user quits (a QUIT may be sent first), or the process is killed in
\* whatever it is doing.
SaysQuit(s) ==
    /\ pc[s] # "none" /\ Room(s)
    /\ Moves(s, "idle", "leave")
    /\ PeerSends(s, [op |-> "QUIT"])
    /\ UNCHANGED <<req, ret>>

ClientEnds(s) ==
    /\ cli[s] # "off"
    /\ cli' = [cli EXCEPT ![s] = "off"]
    /\ req' = [req EXCEPT ![s] = NoCall]
    /\ ret' = [ret EXCEPT ![s] = Failure]
    /\ IF up[s] THEN PeerCloses(s) ELSE UNCHANGED serverVars

\* Either end may find the connection broken at any time.
NetworkBreaks(s) == PeerCloses(s) /\ UNCHANGED clientVars

\* Some other program.
OtherStep(s) ==
    /\ \/ PeerConnect(s) \/ PeerRead(s) \/ PeerCloses(s)
       \/ Room(s) /\ \E r \in RawRequests : PeerSends(s, r)
    /\ UNCHANGED clientVars

ClientStep(s) ==
    \/ Greeted(s) \/ Registers(s) \/ Refused(s) \/ Return(s) \/ CallFails(s)

Handle(s) == ChildStep(s) /\ UNCHANGED clientVars

DiaryNext ==
    \/ \E s \in Callers :
         \/ Connect(s) \/ ClientStep(s)
         \/ \E r \in ClientCalls : Call(s, r)
         \/ SaysQuit(s) \/ ClientEnds(s) \/ NetworkBreaks(s)
    \/ \E s \in Sessions \ Callers : OtherStep(s)
    \/ \E s \in Sessions : Handle(s) \/ (ChildDies(s) /\ UNCHANGED clientVars)

DiarySpec == DiaryInit /\ [][DiaryNext]_diaryVars

\* The kernel lets every child and every client go on, and a broken
\* connection is reported to both ends.  Users, operators and faults owe
\* nothing.
FairDiarySpec ==
    /\ DiarySpec
    /\ \A s \in Sessions : WF_diaryVars(Handle(s))
    /\ \A s \in Callers : WF_diaryVars(ClientStep(s))

-----------------------------------------------------------------------------
(* Refinement: what DiaryService says of calls, read off the connection.   *)

\* A command waiting for the child, the answer the child has decided on, the
\* answer on its way, or nothing that could still become an answer.
CallOf(s) ==
    LET by(st)  == [st |-> st, by |-> user[s], req |-> req[s]]
        done(m) == [st |-> "done", by |-> user[s], req |-> req[s],
                    ret |-> ResultOf(s, req[s], m)]
    IN  IF cli[s] # "wait"      THEN [st |-> "idle", ret |-> ret[s]]
        ELSE IF c2s[s] # <<>>   THEN by("open")
        ELSE IF pc[s] = "reply" THEN done(out[s])
        ELSE IF s2c[s] # <<>>   THEN done(Head(s2c[s]))
        ELSE by("lost")

OrphanOf(s) ==
    IF /\ cli[s] # "wait" /\ c2s[s] # <<>>
       /\ Head(c2s[s]).op \in {"POST", "GET", "UPDATE", "DELETE"}
    THEN [by |-> user[s], req |-> Head(c2s[s])]
    ELSE NoOrphan

absCall   == [s \in Callers |-> CallOf(s)]
absOrphan == [s \in Callers |-> OrphanOf(s)]

Service == INSTANCE DiaryService WITH call <- absCall, orphan <- absOrphan

-----------------------------------------------------------------------------
(* Properties *)

\* Every call of net.c takes effect at most once, between its start and its
\* return unless it reports failure, and never reports a success that did not
\* happen, whatever dies or breaks (net.h; client_handler.c:68-129).
ImplementsService == Service!ServiceSpec

\* A client that is not waiting has nothing under way: the next line it
\* reads cannot be the answer to an earlier command (net.c has no request
\* ids, it pairs commands and answers by counting).
AnswersInStep ==
    \A s \in Callers :
        cli[s] = "idle" /\ up[s] =>
            c2s[s] = <<>> /\ s2c[s] = <<>> /\ pc[s] \in {"loop", "none"}

\* No call blocks for ever, although neither side has a timeout: every
\* command is answered or the connection ends (net.c:22, 41, 50, 69, 79).
CallReturns == \A s \in Callers : cli[s] = "wait" ~> cli[s] # "wait"

\* A child does not outlive a connection that has ended, wherever in its
\* handler it stood (client_handler.c:42, 68).
ChildrenEnd ==
    \A s \in Sessions : (pc[s] # "none" /\ ~up[s]) ~> pc[s] = "none"

\* A call that reports success has been executed: its command is no longer
\* waiting to be read by the server.
SuccessIsReal ==
    [][\A s \in Callers :
        (cli[s] = "wait" /\ cli'[s] = "idle" /\ ret'[s].ok) =>
            c2s[s] = <<>>]_diaryVars

\* net.h:33, "Downloads and decrypts all entries": a GET that succeeds, with
\* nobody else at work, lists every entry of its user.
GetListsAll ==
    [][\A s \in Callers :
        (cli[s] = "wait" /\ cli'[s] = "idle" /\ ret'[s].ok
         /\ req[s].op = "GET") =>
            DOMAIN ret'[s].rows = Own(user[s])]_diaryVars

\* client/architecture.md:102, "one corrupt or foreign-key entry must not
\* hide the rest": a list that reaches the client is shown.
CorruptEntryHidesNothing ==
    [][\A s \in Callers :
        (/\ cli[s] = "wait" /\ cli'[s] = "idle" /\ req[s].op = "GET"
         /\ s2c[s] # <<>> /\ Head(s2c[s]).op = "ENTRIES") =>
            ret'[s].ok]_diaryVars

\* tests/test_concurrent.py:12, "all try the insert; only one wins": a child
\* accepts a REGISTER only if it is the one that registers the user.
OneRegistrationWins ==
    [][\A s \in Sessions :
        (pc[s] = "register" /\ pc'[s] = "reply") =>
            users[user[s]] = NoKey]_diaryVars
=============================================================================
