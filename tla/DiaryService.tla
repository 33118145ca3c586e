---------------------------- MODULE DiaryService ----------------------------
(***************************************************************************)
(* What the functions of client/net.h promise their caller, with the       *)
(* server, its children and the connection abstracted away.                *)
(*                                                                         *)
(* A call takes effect on the tables at one instant between its start and  *)
(* its return, and a call that reports success has taken effect.  A call   *)
(* that reports failure may have taken effect once, or may still do so     *)
(* later: the command of a caller that has given up is an orphan.          *)
(***************************************************************************)
EXTENDS DiaryStorage, NetResults

CONSTANTS
    Callers,    \* the client processes, one connection each
    NoOrphan    \* no command is left behind

NoEpoch == 0    \* the server's clock dates the entry

\* The commands that net.c sends.
Calls ==
         [op : {"POST"}, epoch : Stamps \cup {NoEpoch}, data : Sealed]
    \cup [op : {"GET"}]
    \cup [op : {"UPDATE"}, id : Ids, data : Sealed]
    \cup [op : {"DELETE"}, id : Ids]

VARIABLES
    call,       \* caller |-> the stage of its call
    orphan      \* caller |-> a command that outlived its call

serviceVars == <<users, entries, seq, call, orphan>>

Idle(ret) == [st |-> "idle", ret |-> ret]

ServiceInit ==
    /\ StorageInit
    /\ call = [c \in Callers |-> Idle(Failure)]
    /\ orphan = [c \in Callers |-> NoOrphan]

\* The effect of command r on the tables, for identity u, with result ret.
Effect(u, r, ret) ==
    \/ /\ r.op = "POST"
       /\ \E id \in -1..MaxId, ts \in Stamps :
            /\ r.epoch # NoEpoch => ts = r.epoch
            /\ storage_add_entry(u, r.data, ts, id)
            /\ ret = IF id < 0 THEN Failure ELSE Posted(id)
    \/ /\ r.op = "UPDATE"
       /\ \E rc \in {0, -1} :
            /\ storage_update_entry(u, r.id, r.data, rc)
            /\ ret = IF rc = 0 THEN Done ELSE Failure
    \/ /\ r.op = "DELETE"
       /\ \E rc \in {0, -1} :
            /\ storage_delete_entry(u, r.id, rc)
            /\ ret = IF rc = 0 THEN Done ELSE Failure
    \/ /\ r.op = "GET"
       /\ UNCHANGED storageVars
       /\ \/ Fails("memory") /\ ret = Failure
          \/ \E ids \in SUBSET Own(u) :
               /\ \/ ids = Own(u)
                  \/ Fails("rows") \/ Fails("memory")
                  \/ Cardinality(ids) = MaxEntries
               /\ ret = Listed([i \in ids |->
                           Opened(entries[i].ts, entries[i].data)])

Register(u, k) ==
    /\ users[u] = NoKey
    /\ users' = [users EXCEPT ![u] = k]
    /\ UNCHANGED <<entries, seq, call, orphan>>

\* A registered caller starts; "lost" if the connection swallowed the command.
Begin(c, u, r) ==
    /\ call[c].st = "idle" /\ users[u] # NoKey
    /\ \E st \in {"open", "lost"} :
         call' = [call EXCEPT ![c] = [st |-> st, by |-> u, req |-> r]]
    /\ UNCHANGED <<users, entries, seq, orphan>>

\* The one instant at which the call has its effect.
Take(c) ==
    /\ call[c].st = "open"
    /\ \E ret \in {Failure, Done} \cup {Posted(i) : i \in Ids}
                  \cup {Listed(rows) : rows \in
                     UNION {[S -> [ts : Stamps, text : Sealed \cup {NoText}]] :
                              S \in SUBSET Ids}} :
         /\ Effect(call[c].by, call[c].req, ret)
         /\ call' = [call EXCEPT ![c] = [st |-> "done", by |-> @.by,
                                         req |-> @.req, ret |-> ret]]
    /\ UNCHANGED orphan

\* The answer, or the command itself, is lost on its way.
Lose(c) ==
    /\ call[c].st \in {"open", "done"}
    /\ call' = [call EXCEPT ![c] = [st |-> "lost", by |-> @.by, req |-> @.req]]
    /\ UNCHANGED <<users, entries, seq, orphan>>

Return(c) ==
    /\ call[c].st = "done"
    /\ call' = [call EXCEPT ![c] = Idle(@.ret)]
    /\ UNCHANGED <<users, entries, seq, orphan>>

\* The caller gives up; a command not yet taken may be left behind.  An idle
\* caller fails at once when its connection is known to be dead.
Fail(c) ==
    /\ call' = [call EXCEPT ![c] = Idle(Failure)]
    /\ \/ UNCHANGED orphan
       \/ /\ call[c].st = "open" /\ orphan[c] = NoOrphan
          /\ orphan' = [orphan EXCEPT ![c] = [by |-> call[c].by,
                                              req |-> call[c].req]]
    /\ UNCHANGED <<users, entries, seq>>

\* A command left behind takes effect, or never will.
TakeOrphan(c) ==
    /\ orphan[c] # NoOrphan
    /\ \/ UNCHANGED storageVars
       \/ \E ret \in {Failure, Done} \cup {Posted(i) : i \in Ids} :
            Effect(orphan[c].by, orphan[c].req, ret)
    /\ orphan' = [orphan EXCEPT ![c] = NoOrphan]
    /\ UNCHANGED call

ServiceNext ==
    \/ \E u \in Users, k \in Keys : Register(u, k)
    \/ \E c \in Callers :
         \/ \E u \in Users, r \in Calls : Begin(c, u, r)
         \/ Take(c) \/ Lose(c) \/ Return(c) \/ Fail(c) \/ TakeOrphan(c)

ServiceSpec == ServiceInit /\ [][ServiceNext]_serviceVars
=============================================================================
