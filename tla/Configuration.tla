--------------------------- MODULE Configuration ---------------------------
(***************************************************************************)
(* The configuration of the client and who changes it while it runs.       *)
(* ConfigStore keeps a copy in memory and one on disk: an update changes   *)
(* the copy in memory under the write lock and then writes the file.  The  *)
(* connection and relationship managers work through it; two background    *)
(* tasks, the probe that upgrades URLs to https and the health pinger,     *)
(* list the connections, wait for the network and come back later.         *)
(*                                                                         *)
(* Identifiers are fresh UUIDs: a deleted connection does not come back.   *)
(***************************************************************************)
EXTENDS Connections

CONSTANT Rels      \* identifiers of relationships

\* A RemoteConnection: its URL is a scheme and a host, its auth_type is None
\* exactly if it has no key.
Connection == [https : BOOLEAN, host : Hosts, key : Keys \cup {None}]

ASSUME NoneIsNoConnection == None \notin Connection

Config == [conn : [Conns -> Connection \cup {None}], rel : [Rels -> Conns \cup {None}]]

VARIABLES
    mem,        \* the configuration in memory
    disk,       \* the configuration file
    used,       \* identifiers given out so far
    checked,    \* Rels -> the connection a pending create has found, or None
    raced,      \* history: relationships whose connection went during their create
    probe,      \* Conns -> what the probe listed and has not handled yet, or None
    pinged,     \* the connections that a running health tick has listed, or None
    health,     \* health_map: Conns -> "up", "down" or None
    told        \* the status last broadcast for a connection, or None

configVars == <<mem, disk, used, checked, raced>>
healthVars == <<pinged, health, told>>
confVars   == <<configVars, probe, healthVars>>

NoConns == [c \in Conns |-> None]
Blank   == [conn |-> NoConns, rel |-> [r \in Rels |-> None]]

ConfTypeOK ==
    /\ mem \in Config
    /\ disk \in Config
    /\ used \subseteq Conns \cup Rels
    /\ checked \in [Rels -> Conns \cup {None}]
    /\ raced \subseteq Rels
    /\ probe \in [Conns -> Connection \cup {None}]
    /\ pinged \in (SUBSET Conns) \cup {None}
    /\ health \in [Conns -> {"up", "down", None}]
    /\ told \in [Conns -> {"up", "down", None}]

\* The client starts with the default configuration or with some connections.
ConfInit ==
    /\ mem \in [conn : [Conns -> {k \in Connection : k.key # None /\ ~k.https} \cup {None}],
                rel : {Blank.rel}]
    /\ disk = mem
    /\ used = {c \in Conns : mem.conn[c] # None}
    /\ checked = [r \in Rels |-> None] /\ raced = {}
    /\ probe = mem.conn
    /\ pinged = None /\ health = NoConns /\ told = NoConns

-----------------------------------------------------------------------------
(* ConfigStore::update with the configuration that the closure makes of mem. *)

\* The file is written, or the write fails and only the memory has the change.
Update(new) ==
    /\ Event
    /\ mem' = new
    /\ disk' \in {new, disk}

\* A change made by the program itself rather than by the user.
UpdateOwn(new) ==
    /\ mem' = new
    /\ \/ disk' = new /\ UNCHANGED spare
       \/ disk' = disk /\ Event

WithConn(c, k) == [mem EXCEPT !.conn[c] = k]

CreateConnection(c, k) ==
    /\ c \notin used
    /\ Update(WithConn(c, k))
    /\ used' = used \cup {c}
    /\ UNCHANGED <<checked, raced, probe, healthVars>>

\* update: the fields that the request names.
UpdateConnection(c, k) ==
    /\ mem.conn[c] # None
    /\ k # mem.conn[c]
    /\ Update(WithConn(c, k))
    /\ UNCHANGED <<used, checked, raced, probe, healthVars>>

\* Mutant of Unused: the relationships are not looked at.
UnusedAlways(c) == TRUE

Unused(c) == \A r \in Rels : mem.rel[r] # c

\* delete: refused while a relationship names the connection.
DeleteConnection(c) ==
    /\ mem.conn[c] # None
    /\ Unused(c)
    /\ Update(WithConn(c, None))
    /\ raced' = raced \cup {r \in Rels : checked[r] = c}
    /\ UNCHANGED <<used, checked, probe, healthVars>>

\* An update or a delete of what is not there, and a delete that is refused, change
\* nothing and still save the file.
RequestRefused ==
    /\ \E c \in Conns : mem.conn[c] = None \/ ~Unused(c)
    /\ Update(mem)
    /\ UNCHANGED <<used, checked, raced, probe, healthVars>>

\* RelationshipManager::create looks the connection up, prepares the folder, and
\* only then updates the configuration.
CreateRelationshipCheck(r, c) ==
    /\ r \notin used
    /\ mem.conn[c] # None
    /\ used' = used \cup {r}
    /\ checked' = [checked EXCEPT ![r] = c]
    /\ UNCHANGED <<mem, disk, raced, probe, healthVars, spare>>

CreateRelationshipStore(r) ==
    /\ checked[r] # None
    /\ UpdateOwn([mem EXCEPT !.rel[r] = checked[r]])
    /\ checked' = [checked EXCEPT ![r] = None]
    /\ UNCHANGED <<used, raced, probe, healthVars>>

DeleteRelationship(r) ==
    /\ mem.rel[r] # None
    /\ Update([mem EXCEPT !.rel[r] = None])
    /\ UNCHANGED <<used, checked, raced, probe, healthVars>>

\* The process restarts: what is in memory is gone, the file is loaded, and the
\* probe lists the connections.
Reload ==
    /\ Event
    /\ mem' = disk
    /\ checked' = [r \in Rels |-> None]
    /\ probe' = disk.conn
    /\ pinged' = None /\ health' = NoConns /\ told' = NoConns
    /\ UNCHANGED <<disk, used, raced>>

-----------------------------------------------------------------------------
(* probe_and_upgrade_connection_urls: one connection of its list at a time. *)

ProbeLeaves(c) ==
    /\ probe[c] # None
    /\ probe' = [probe EXCEPT ![c] = None]
    /\ UNCHANGED <<configVars, healthVars, spare>>

\* The engine redirects to https on the same host: the URL that was listed is
\* upgraded and stored over the one the connection has now.
ProbeUpgrades(c) ==
    /\ probe[c] # None /\ ~probe[c].https
    /\ probe' = [probe EXCEPT ![c] = None]
    /\ UpdateOwn(IF mem.conn[c] = None THEN mem
                 ELSE WithConn(c, [mem.conn[c] EXCEPT !.https = TRUE, !.host = probe[c].host]))
    /\ UNCHANGED <<used, checked, raced, healthVars>>

-----------------------------------------------------------------------------
(* The health pinger. *)

PingStart ==
    /\ pinged = None
    /\ pinged' = {c \in Conns : mem.conn[c] # None}
    /\ UNCHANGED <<configVars, probe, health, told, spare>>

\* Mutant of Surveyed: entries of connections that are no longer listed stay.
SurveyedKeeping(up) ==
    [c \in Conns |-> IF c \notin pinged THEN health[c] ELSE IF c \in up THEN "up" ELSE "down"]

\* The map after a tick: the connections listed, and up the ones that answered.
Surveyed(up) ==
    [c \in Conns |-> IF c \notin pinged THEN None ELSE IF c \in up THEN "up" ELSE "down"]

\* test_connection of every connection listed: which of them may turn out to be up.
Tested == IF pinged = None THEN {} ELSE SUBSET pinged

\* Every ping has answered or timed out; transitions are broadcast.
PingDone(up) ==
    /\ up \in Tested
    /\ health' = Surveyed(up)
    /\ told' = [c \in Conns |-> IF health'[c] # None /\ health'[c] # health[c]
                                THEN health'[c] ELSE told[c]]
    /\ pinged' = None
    /\ UNCHANGED <<configVars, probe, spare>>

-----------------------------------------------------------------------------
UserStep ==
    \/ \E c \in Conns, k \in Connection : CreateConnection(c, k) \/ UpdateConnection(c, k)
    \/ \E c \in Conns : DeleteConnection(c)
    \/ \E r \in Rels, c \in Conns : CreateRelationshipCheck(r, c)
    \/ \E r \in Rels : DeleteRelationship(r)
    \/ RequestRefused

StoreStep == \E r \in Rels : CreateRelationshipStore(r)
LeaveStep == \E c \in Conns : ProbeLeaves(c)
PingStep  == PingStart \/ \E up \in SUBSET Conns : PingDone(up)

ConfNext ==
    \/ UserStep \/ StoreStep \/ LeaveStep \/ PingStep \/ Reload
    \/ \E c \in Conns : ProbeUpgrades(c)

ConfSpec == ConfInit /\ spare \in 0..MaxEvents /\ [][ConfNext]_<<confVars, spare>>

-----------------------------------------------------------------------------
(* Properties. *)

\* A relationship's connection exists, in memory and in the file a restart loads,
\* unless it was deleted between the check and the update of the create.
RelationshipsResolve ==
    \A cfg \in {mem, disk}, r \in Rels :
        cfg.rel[r] # None => cfg.conn[cfg.rel[r]] # None \/ r \in raced

\* The health of a deleted connection is forgotten in the end, also when a tick that
\* was under way during the delete has stored it once more.
DeletedLeavesHealth == <>[](\A c \in Conns : mem.conn[c] = None => health[c] = None)
=============================================================================
