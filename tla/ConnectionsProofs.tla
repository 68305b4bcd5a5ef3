------------------------- MODULE ConnectionsProofs -------------------------
(***************************************************************************)
(* Proofs about Configuration and Credentials, for any connections, hosts, *)
(* keys and relationships, any number of concurrent requests, and any      *)
(* number of edits, expiries, revocations, failing calls and restarts.     *)
(***************************************************************************)
EXTENDS Configuration, Credentials, TLAPS

USE MaxEventsIsNat, NoneIsFresh, NoneIsNoConnection

-----------------------------------------------------------------------------
(* Configuration: types. *)

LEMMA BlankTyped ==
    /\ NoConns \in [Conns -> {"up", "down", None}]
    /\ Blank.rel \in [Rels -> Conns \cup {None}]
BY DEF NoConns, Blank

LEMMA ConfTypeInit == ConfInit => ConfTypeOK
<1> SUFFICES ASSUME ConfInit PROVE ConfTypeOK
  OBVIOUS
<1>1. mem.conn \in [Conns -> Connection \cup {None}] /\ mem \in Config
  BY BlankTyped DEF ConfInit, Config
<1> QED
  BY <1>1, BlankTyped DEF ConfInit, ConfTypeOK

\* A configuration with a connection replaced, or with a relationship replaced.
LEMMA WithConnTyped ==
    ASSUME mem \in Config, NEW c \in Conns, NEW k \in Connection \cup {None}
    PROVE  WithConn(c, k) \in Config
BY DEF WithConn, Config

LEMMA WithRelTyped ==
    ASSUME mem \in Config, NEW r \in Rels, NEW c \in Conns \cup {None}
    PROVE  [mem EXCEPT !.rel[r] = c] \in Config
BY DEF Config

\* The upgraded URL of the probe.
LEMMA UpgradedTyped ==
    ASSUME NEW k \in Connection, NEW listed \in Connection
    PROVE  [k EXCEPT !.https = TRUE, !.host = listed.host] \in Connection
BY DEF Connection

\* Both ways to update the configuration store it in memory, and on disk or not.
LEMMA Stored ==
    ASSUME NEW new, Update(new) \/ UpdateOwn(new)
    PROVE  mem' = new /\ disk' \in {new, disk}
BY DEF Update, UpdateOwn

\* A step that updates the configuration with a configuration.
LEMMA TypeUpdated ==
    ASSUME ConfTypeOK, NEW new \in Config, Update(new) \/ UpdateOwn(new)
    PROVE  mem' \in Config /\ disk' \in Config
BY Stored DEF ConfTypeOK

LEMMA TypeConnections ==
    ASSUME ConfTypeOK, NEW c \in Conns, NEW k \in Connection,
           CreateConnection(c, k) \/ UpdateConnection(c, k)
    PROVE  ConfTypeOK'
<1>1. mem' \in Config /\ disk' \in Config
  BY WithConnTyped, TypeUpdated DEF CreateConnection, UpdateConnection, ConfTypeOK
<1> QED
  BY <1>1 DEF CreateConnection, UpdateConnection, ConfTypeOK, healthVars

LEMMA TypeDelete ==
    ASSUME ConfTypeOK, NEW c \in Conns, DeleteConnection(c)
    PROVE  ConfTypeOK'
<1>1. mem' \in Config /\ disk' \in Config
  BY WithConnTyped, TypeUpdated DEF DeleteConnection, ConfTypeOK
<1> QED
  BY <1>1 DEF DeleteConnection, ConfTypeOK, healthVars

LEMMA TypeRelationships ==
    ASSUME ConfTypeOK, NEW r \in Rels, CreateRelationshipStore(r) \/ DeleteRelationship(r)
    PROVE  ConfTypeOK'
<1>1. checked[r] \in Conns \cup {None}
  BY DEF ConfTypeOK
<1>2. mem' \in Config /\ disk' \in Config
  BY <1>1, WithRelTyped, TypeUpdated DEF CreateRelationshipStore, DeleteRelationship, ConfTypeOK
<1> QED
  BY <1>2 DEF CreateRelationshipStore, DeleteRelationship, ConfTypeOK, healthVars

LEMMA TypeProbe ==
    ASSUME ConfTypeOK, NEW c \in Conns, ProbeLeaves(c) \/ ProbeUpgrades(c)
    PROVE  ConfTypeOK'
<1>1. CASE ProbeLeaves(c)
  BY <1>1 DEF ProbeLeaves, ConfTypeOK, configVars, healthVars
<1>2. CASE ProbeUpgrades(c)
  <2>1. probe[c] \in Connection /\ mem.conn[c] \in Connection \cup {None}
    BY <1>2 DEF ProbeUpgrades, ConfTypeOK, Config
  <2>2. [mem.conn[c] EXCEPT !.https = TRUE, !.host = probe[c].host] \in Connection
          \/ mem.conn[c] = None
    BY <2>1, UpgradedTyped
  <2>3. mem' \in Config /\ disk' \in Config
    BY <1>2, <2>2, WithConnTyped, TypeUpdated DEF ProbeUpgrades, ConfTypeOK
  <2> QED
    BY <1>2, <2>3 DEF ProbeUpgrades, ConfTypeOK, healthVars
<1> QED
  BY <1>1, <1>2

LEMMA TypePing ==
    ASSUME ConfTypeOK, PingStep
    PROVE  ConfTypeOK'
<1>1. CASE PingStart
  BY <1>1 DEF PingStart, ConfTypeOK, configVars
<1>2. ASSUME NEW up \in SUBSET Conns, PingDone(up) PROVE ConfTypeOK'
  <2>1. health' \in [Conns -> {"up", "down", None}]
    BY <1>2 DEF PingDone, Surveyed
  <2>2. told' \in [Conns -> {"up", "down", None}]
    BY <1>2, <2>1 DEF PingDone, ConfTypeOK
  <2> QED
    BY <1>2, <2>1, <2>2 DEF PingDone, ConfTypeOK, configVars
<1> QED
  BY <1>1, <1>2 DEF PingStep

LEMMA TypeReload ==
    ASSUME ConfTypeOK, Reload
    PROVE  ConfTypeOK'
<1>1. disk.conn \in [Conns -> Connection \cup {None}]
  BY DEF ConfTypeOK, Config
<1> QED
  BY <1>1, BlankTyped DEF Reload, ConfTypeOK

LEMMA ConfTypeNext == ConfTypeOK /\ [ConfNext]_<<confVars, spare>> => ConfTypeOK'
<1> SUFFICES ASSUME ConfTypeOK, [ConfNext]_<<confVars, spare>> PROVE ConfTypeOK'
  OBVIOUS
<1>1. CASE UNCHANGED <<confVars, spare>>
  BY <1>1 DEF ConfTypeOK, confVars, configVars, healthVars
<1>2. CASE UserStep
  <2>1. ASSUME NEW c \in Conns, NEW k \in Connection,
               CreateConnection(c, k) \/ UpdateConnection(c, k)
        PROVE  ConfTypeOK'
    BY <2>1, TypeConnections
  <2>2. ASSUME NEW c \in Conns, DeleteConnection(c) PROVE ConfTypeOK'
    BY <2>2, TypeDelete
  <2>3. ASSUME NEW r \in Rels, NEW c \in Conns, CreateRelationshipCheck(r, c) PROVE ConfTypeOK'
    BY <2>3 DEF CreateRelationshipCheck, ConfTypeOK, healthVars
  <2>4. ASSUME NEW r \in Rels, DeleteRelationship(r) PROVE ConfTypeOK'
    BY <2>4, TypeRelationships
  <2>5. CASE RequestRefused
    BY <2>5, TypeUpdated DEF RequestRefused, ConfTypeOK, healthVars
  <2> QED
    BY <1>2, <2>1, <2>2, <2>3, <2>4, <2>5 DEF UserStep
<1>3. CASE StoreStep
  BY <1>3, TypeRelationships DEF StoreStep
<1>4. CASE LeaveStep \/ \E c \in Conns : ProbeUpgrades(c)
  BY <1>4, TypeProbe DEF LeaveStep
<1>5. CASE PingStep \/ Reload
  BY <1>5, TypePing, TypeReload
<1> QED
  BY <1>1, <1>2, <1>3, <1>4, <1>5 DEF ConfNext

\* Every step of the managers, the probe and the pinger keeps the types, in memory
\* and in the file.
THEOREM ConfTypeCorrect == ConfSpec => []ConfTypeOK
BY ConfTypeInit, ConfTypeNext, PTL DEF ConfSpec

-----------------------------------------------------------------------------
(* Relationships and their connections. *)

\* The copies of the configuration resolve; so will the pending creates.
Resolves(cfg) ==
    \A r \in Rels : cfg.rel[r] # None => cfg.conn[cfg.rel[r]] # None \/ r \in raced

PendingResolve ==
    \A r \in Rels : checked[r] # None => mem.conn[checked[r]] # None \/ r \in raced

Resolved == ConfTypeOK /\ Resolves(mem) /\ Resolves(disk) /\ PendingResolve

LEMMA ResolvedInit == ConfInit => Resolves(mem) /\ Resolves(disk) /\ PendingResolve
BY DEF ConfInit, Resolves, PendingResolve, Blank

\* A step whose configuration resolves, on whatever copy it reaches.
LEMMA ResolvedUpdate ==
    ASSUME Resolved, NEW new, mem' = new, disk' \in {new, disk}, raced \subseteq raced',
           \A r \in Rels : new.rel[r] # None => new.conn[new.rel[r]] # None \/ r \in raced'
    PROVE  Resolves(mem)' /\ Resolves(disk)'
BY DEF Resolved, Resolves

\* A connection is replaced by another one, never by nothing.
LEMMA Replaced ==
    ASSUME Resolved, NEW c \in Conns, NEW k \in Connection, mem' = WithConn(c, k),
           disk' \in {WithConn(c, k), disk}, UNCHANGED <<checked, raced>>
    PROVE  Resolves(mem)' /\ Resolves(disk)' /\ PendingResolve'
<1> DEFINE new == WithConn(c, k)
<1>1. /\ \A r \in Rels : new.rel[r] = mem.rel[r]
      /\ \A x \in Conns : mem.conn[x] # None => new.conn[x] # None
  BY DEF WithConn, Resolved, ConfTypeOK, Config
<1>2. \A r \in Rels : mem.rel[r] # None => mem.rel[r] \in Conns
  BY DEF Resolved, ConfTypeOK, Config
<1>3. \A r \in Rels : new.rel[r] # None => new.conn[new.rel[r]] # None \/ r \in raced'
  BY <1>1, <1>2 DEF Resolved, Resolves
<1>4. PendingResolve'
  BY <1>1 DEF Resolved, PendingResolve, ConfTypeOK
<1> HIDE DEF new
<1> QED
  BY <1>3, <1>4, ResolvedUpdate DEF new

LEMMA ResolvedConnections ==
    ASSUME Resolved, NEW c \in Conns, NEW k \in Connection,
           CreateConnection(c, k) \/ UpdateConnection(c, k)
    PROVE  Resolves(mem)' /\ Resolves(disk)' /\ PendingResolve'
<1>1. Update(WithConn(c, k)) /\ UNCHANGED <<checked, raced>>
  BY DEF CreateConnection, UpdateConnection
<1> QED
  BY <1>1, Stored, Replaced

LEMMA ResolvedDelete ==
    ASSUME Resolved, NEW c \in Conns, DeleteConnection(c)
    PROVE  Resolves(mem)' /\ Resolves(disk)' /\ PendingResolve'
<1> DEFINE new == WithConn(c, None)
<1>1. /\ mem' = new /\ disk' \in {new, disk} /\ UNCHANGED checked
      /\ raced' = raced \cup {r \in Rels : checked[r] = c}
  BY Stored DEF DeleteConnection
<1>2. /\ \A r \in Rels : new.rel[r] = mem.rel[r] /\ new.rel[r] # c
      /\ \A x \in Conns : x # c => new.conn[x] = mem.conn[x]
      /\ \A r \in Rels : mem.rel[r] \in Conns \cup {None}
      /\ \A r \in Rels : checked[r] \in Conns \cup {None}
  BY DEF DeleteConnection, Unused, WithConn, Resolved, ConfTypeOK, Config
<1>3. \A r \in Rels : new.rel[r] # None => new.conn[new.rel[r]] # None \/ r \in raced'
  BY <1>1, <1>2 DEF Resolved, Resolves
<1>4. PendingResolve'
  BY <1>1, <1>2 DEF Resolved, PendingResolve
<1> HIDE DEF new
<1> QED
  BY <1>1, <1>3, <1>4, ResolvedUpdate

LEMMA ResolvedRelationships ==
    ASSUME Resolved, NEW r \in Rels, CreateRelationshipStore(r) \/ DeleteRelationship(r)
    PROVE  Resolves(mem)' /\ Resolves(disk)' /\ PendingResolve'
<1>1. PICK c \in {checked[r], None} :
        /\ mem' = [mem EXCEPT !.rel[r] = c] /\ disk' \in {[mem EXCEPT !.rel[r] = c], disk}
        /\ UNCHANGED raced
        /\ \A x \in Rels : checked'[x] \in {checked[x], None}
  BY Stored DEF CreateRelationshipStore, DeleteRelationship, Resolved, ConfTypeOK
<1> DEFINE new == [mem EXCEPT !.rel[r] = c]
<1>2. /\ new.conn = mem.conn
      /\ \A x \in Rels : new.rel[x] = IF x = r THEN c ELSE mem.rel[x]
  BY DEF Resolved, ConfTypeOK, Config
<1>3. \A x \in Rels : new.rel[x] # None => new.conn[new.rel[x]] # None \/ x \in raced'
  BY <1>1, <1>2 DEF Resolved, Resolves, PendingResolve
<1>4. mem' = new /\ disk' \in {new, disk}
  BY <1>1
<1>5. PendingResolve'
  BY <1>1, <1>2, <1>4 DEF Resolved, PendingResolve
<1> HIDE DEF new
<1> QED
  BY <1>1, <1>3, <1>4, <1>5, ResolvedUpdate

LEMMA ResolvedProbe ==
    ASSUME Resolved, NEW c \in Conns, ProbeUpgrades(c)
    PROVE  Resolves(mem)' /\ Resolves(disk)' /\ PendingResolve'
<1>1. probe[c] \in Connection /\ mem.conn[c] \in Connection \cup {None}
  BY DEF ProbeUpgrades, Resolved, ConfTypeOK, Config
<1>2. CASE mem.conn[c] = None
  <2>1. UNCHANGED <<mem, checked, raced>> /\ disk' \in {mem, disk}
    BY <1>2, Stored DEF ProbeUpgrades
  <2> QED
    BY <2>1 DEF Resolved, Resolves, PendingResolve
<1>3. CASE mem.conn[c] # None
  <2> DEFINE k == [mem.conn[c] EXCEPT !.https = TRUE, !.host = probe[c].host]
  <2>1. k \in Connection
    BY <1>1, <1>3, UpgradedTyped
  <2>2. UpdateOwn(WithConn(c, k)) /\ UNCHANGED <<checked, raced>>
    BY <1>3 DEF ProbeUpgrades
  <2> HIDE DEF k
  <2> QED
    BY <2>1, <2>2, Stored, Replaced
<1> QED
  BY <1>2, <1>3

LEMMA ResolvedNext == Resolved /\ [ConfNext]_<<confVars, spare>> => Resolved'
<1> SUFFICES ASSUME Resolved, [ConfNext]_<<confVars, spare>>
             PROVE  Resolves(mem)' /\ Resolves(disk)' /\ PendingResolve'
  BY ConfTypeNext DEF Resolved
<1>1. CASE UNCHANGED <<mem, disk, checked, raced>>
  BY <1>1 DEF Resolved, Resolves, PendingResolve
<1>2. CASE UNCHANGED <<confVars, spare>> \/ PingStep \/ LeaveStep
  BY <1>1, <1>2 DEF confVars, configVars, PingStep, PingStart, PingDone, LeaveStep, ProbeLeaves
<1>3. ASSUME NEW c \in Conns, NEW k \in Connection,
             CreateConnection(c, k) \/ UpdateConnection(c, k)
      PROVE  Resolves(mem)' /\ Resolves(disk)' /\ PendingResolve'
  BY <1>3, ResolvedConnections
<1>4. ASSUME NEW c \in Conns, DeleteConnection(c)
      PROVE  Resolves(mem)' /\ Resolves(disk)' /\ PendingResolve'
  BY <1>4, ResolvedDelete
<1>5. ASSUME NEW r \in Rels, NEW c \in Conns, CreateRelationshipCheck(r, c)
      PROVE  Resolves(mem)' /\ Resolves(disk)' /\ PendingResolve'
  BY <1>5 DEF CreateRelationshipCheck, Resolved, Resolves, PendingResolve, ConfTypeOK
<1>6. ASSUME NEW r \in Rels, CreateRelationshipStore(r) \/ DeleteRelationship(r)
      PROVE  Resolves(mem)' /\ Resolves(disk)' /\ PendingResolve'
  BY <1>6, ResolvedRelationships
<1>7. CASE RequestRefused
  <2>1. UNCHANGED <<mem, checked, raced>> /\ disk' \in {mem, disk}
    BY <1>7, Stored DEF RequestRefused
  <2> QED
    BY <2>1 DEF Resolved, Resolves, PendingResolve
<1>8. ASSUME NEW c \in Conns, ProbeUpgrades(c)
      PROVE  Resolves(mem)' /\ Resolves(disk)' /\ PendingResolve'
  BY <1>8, ResolvedProbe
<1>9. CASE Reload
  BY <1>9 DEF Reload, Resolved, Resolves, PendingResolve
<1> QED
  BY <1>2, <1>3, <1>4, <1>5, <1>6, <1>7, <1>8, <1>9 DEF ConfNext, UserStep, StoreStep

\* create, update and delete of connections and relationships, the URL probe, failed
\* saves and restarts leave no relationship without its connection, in memory or in
\* the file, unless the connection went between the check and the update of its
\* create.
THEOREM RelationshipsAreResolved == ConfSpec => []RelationshipsResolve
<1>1. ConfInit => Resolved
  BY ConfTypeInit, ResolvedInit DEF Resolved
<1>2. Resolved => RelationshipsResolve
  BY DEF Resolved, Resolves, RelationshipsResolve
<1> QED
  BY <1>1, <1>2, ResolvedNext, PTL DEF ConfSpec

-----------------------------------------------------------------------------
(* Credentials: types. *)

\* Every expiry takes one of the events from outside.
Supply == spare \in 0..MaxEvents /\ era + spare <= MaxEvents

\* What the engine minted, and is on its way to the slot, is a token.
MintedTokens == \A q \in Reqs : At(q, "minted") => req[q].header \in Token

Typed == CredTypeOK /\ Supply /\ MintedTokens

LEMMA CredTypeInit == CredInit /\ spare \in 0..MaxEvents => Typed
BY DEF CredInit, Typed, CredTypeOK, Supply, MintedTokens, At

\* One request is replaced.
LEMMA TypeReplaced ==
    ASSUME Typed, NEW q \in Reqs, NEW new \in Request \cup {None},
           req' = [req EXCEPT ![q] = new],
           new # None /\ new.at = "minted" => new.header \in Token
    PROVE  req' \in [Reqs -> Request \cup {None}] /\ MintedTokens'
BY DEF Typed, CredTypeOK, MintedTokens, At

\* Requests that are given an excuse stay what they are.
LEMMA ExcusedFields ==
    ASSUME Typed, NEW S \in SUBSET Reqs
    PROVE  /\ Excused(req, S) \in [Reqs -> Request \cup {None}]
           /\ \A q \in Reqs : Excused(req, S)[q] # None =>
                /\ req[q] # None
                /\ Excused(req, S)[q].client = req[q].client
                /\ Excused(req, S)[q].kind = req[q].kind
                /\ Excused(req, S)[q].header = req[q].header
                /\ Excused(req, S)[q].tries = req[q].tries
                /\ Excused(req, S)[q].at = req[q].at
                /\ q \in S => Excused(req, S)[q].excuse = TRUE
                /\ q \notin S => Excused(req, S)[q] = req[q]
<1>1. ASSUME NEW q \in Reqs, req[q] # None
      PROVE  [req[q] EXCEPT !.excuse = TRUE] \in Request
  BY <1>1 DEF Typed, CredTypeOK, Request
<1>2. ASSUME NEW q \in Reqs, req[q] # None
      PROVE  LET e == [req[q] EXCEPT !.excuse = TRUE]
             IN  /\ e.client = req[q].client /\ e.kind = req[q].kind
                 /\ e.header = req[q].header /\ e.tries = req[q].tries /\ e.at = req[q].at
                 /\ e.excuse = TRUE
  BY <1>2 DEF Typed, CredTypeOK, Request
<1> QED
  BY <1>1, <1>2 DEF Excused, Typed, CredTypeOK

LEMMA TypeEngine ==
    ASSUME Typed, Expire \/ \E k \in Keys : Revoke(k)
    PROVE  Typed'
<1>1. req' = Excused(req, Reqs) /\ UNCHANGED <<conn, slot>>
  BY DEF Expire, Revoke
<1>2. /\ req' \in [Reqs -> Request \cup {None}]
      /\ \A q \in Reqs : req'[q] # None =>
            req[q] # None /\ req'[q].header = req[q].header /\ req'[q].at = req[q].at
  BY <1>1, ExcusedFields
<1>3. era' \in 0..MaxEvents /\ Supply' /\ revoked' \subseteq Keys
  BY DEF Expire, Revoke, Event, Typed, CredTypeOK, Supply
<1> QED
  BY <1>1, <1>2, <1>3 DEF Typed, CredTypeOK, MintedTokens, At

LEMMA FreshTyped ==
    ASSUME NEW c \in Client, NEW kind \in {"retrying", "streaming"}
    PROVE  /\ Fresh(c, kind) \in Request /\ Fresh(c, kind).at = "auth"
           /\ Fresh(c, kind).tries = 1
BY DEF Fresh, Request, Header

\* The requests of a step that leaves everything else alone.
LEMMA TypeStill ==
    ASSUME Typed, UNCHANGED <<conn, slot, era, revoked>>,
           UNCHANGED spare \/ Event,
           req' \in [Reqs -> Request \cup {None}], MintedTokens'
    PROVE  Typed'
BY DEF Typed, CredTypeOK, Supply, Event

LEMMA TypeBegin ==
    ASSUME Typed, NEW q \in Reqs, NEW kind \in {"retrying", "streaming"},
           NextRequest(q, kind) \/ \E c \in Conns : BeginRequest(q, c, kind)
    PROVE  Typed'
<1>1. PICK c \in Client : req' = [req EXCEPT ![q] = Fresh(c, kind)]
  <2>1. CASE NextRequest(q, kind)
    <3>1. req[q].client \in Client
      BY <2>1 DEF NextRequest, At, Typed, CredTypeOK, Request
    <3> QED
      BY <2>1, <3>1 DEF NextRequest, Typed, CredTypeOK
  <2>2. ASSUME NEW c \in Conns, BeginRequest(q, c, kind)
        PROVE  \E x \in Client : req' = [req EXCEPT ![q] = Fresh(x, kind)]
    <3>1. ClientOf(c) \in Client
      BY <2>2 DEF BeginRequest, ClientOf, Client, Typed, CredTypeOK
    <3> QED
      BY <2>2, <3>1 DEF BeginRequest
  <2> QED
    BY <2>1, <2>2
<1>2. UNCHANGED <<conn, slot, era, revoked, spare>>
  BY DEF NextRequest, BeginRequest
<1> QED
  BY <1>1, <1>2, FreshTyped, TypeReplaced, TypeStill

\* A request on its way is a request.
LEMMA Going ==
    ASSUME Typed, NEW q \in Reqs, req[q] # None
    PROVE  /\ req[q] \in Request /\ req[q].client \in Client
           /\ req[q].client.conn \in Conns /\ req[q].client.host \in Hosts
           /\ req[q].client.key \in Keys \cup {None}
           /\ req[q].header \in Header
BY DEF Typed, CredTypeOK, Request, Client

LEMMA TypeAuth ==
    ASSUME Typed, NEW q \in Reqs, AuthCached(q) \/ Mint(q) \/ MintFails(q)
    PROVE  Typed'
<1>1. req[q] # None /\ UNCHANGED <<conn, slot, era, revoked>> /\ (UNCHANGED spare \/ Event)
  BY DEF AuthCached, Mint, MintFails, Minting, At
<1>2. slot[req[q].client.conn] \in Header
  BY <1>1, Going DEF Typed, CredTypeOK, Header
<1>3. CASE AuthCached(q)
  <2> DEFINE h   == IF req[q].client.key = None THEN None ELSE slot[req[q].client.conn]
             new == [req[q] EXCEPT !.at = "send", !.header = h]
  <2>1. h \in Header
    BY <1>2 DEF Header
  <2>2. req' = [req EXCEPT ![q] = new]
    BY <1>3 DEF AuthCached, Typed, CredTypeOK
  <2> HIDE DEF h
  <2>3. new \in Request /\ new.at = "send"
    BY <1>1, <2>1, Going DEF Request
  <2> HIDE DEF new
  <2> QED
    BY <1>1, <2>2, <2>3, TypeReplaced, TypeStill
<1>4. CASE Mint(q)
  <2> DEFINE t   == [host |-> req[q].client.host, key |-> req[q].client.key, era |-> era]
             new == [req[q] EXCEPT !.at = "minted", !.header = t]
  <2>1. t \in Token
    BY <1>1, <1>4, Going DEF Mint, Minting, Token, Typed, CredTypeOK
  <2>2. req' = [req EXCEPT ![q] = new]
    BY <1>4 DEF Mint, Typed, CredTypeOK
  <2> HIDE DEF t
  <2>3. new \in Request /\ new.header = t
    BY <1>1, <2>1, Going DEF Request, Header
  <2> HIDE DEF new
  <2> QED
    BY <1>1, <2>1, <2>2, <2>3, TypeReplaced, TypeStill
<1>5. CASE MintFails(q)
  <2> DEFINE new == [req[q] EXCEPT !.at = "send", !.header = req[q].client.key, !.excuse = TRUE]
  <2>1. req' = [req EXCEPT ![q] = new]
    BY <1>5 DEF MintFails, Typed, CredTypeOK
  <2>2. new \in Request /\ new.at = "send"
    BY <1>1, Going DEF Request, Header
  <2> HIDE DEF new
  <2> QED
    BY <1>1, <2>1, <2>2, TypeReplaced, TypeStill
<1> QED
  BY <1>3, <1>4, <1>5

LEMMA TypeStored ==
    ASSUME Typed, NEW q \in Reqs, MintStored(q)
    PROVE  Typed'
<1> DEFINE others == {p \in Reqs \ {q} : req[p] # None /\ req[p].client.conn = req[q].client.conn}
           ex     == Excused(req, others)
<1>1. At(q, "minted") /\ req[q].header \in Token /\ req[q] \in Request
  BY Going DEF MintStored, At, Typed, MintedTokens
<1>2. slot' \in [Conns -> Token \cup {None}]
  BY <1>1, Going DEF MintStored, At, Typed, CredTypeOK
<1>3. others \in SUBSET Reqs
  OBVIOUS
<1>4. req' = [ex EXCEPT ![q] = [ex[q] EXCEPT !.at = "send"]]
  BY DEF MintStored
<1> HIDE DEF others
<1>5. /\ ex \in [Reqs -> Request \cup {None}]
      /\ \A p \in Reqs : ex[p] # None =>
            req[p] # None /\ ex[p].header = req[p].header /\ ex[p].at = req[p].at
  BY <1>3, ExcusedFields
<1>6. ex[q] = req[q]
  BY DEF Excused, others
<1> HIDE DEF ex
<1>7. [ex[q] EXCEPT !.at = "send"] \in Request /\ [ex[q] EXCEPT !.at = "send"].at = "send"
  BY <1>1, <1>6 DEF Request
<1>8. req' \in [Reqs -> Request \cup {None}]
  BY <1>4, <1>5, <1>7
<1>9. MintedTokens'
  BY <1>4, <1>5, <1>7 DEF MintedTokens, At, Typed
<1>10. UNCHANGED <<conn, era, revoked, spare>>
  BY DEF MintStored
<1> QED
  BY <1>2, <1>8, <1>9, <1>10 DEF Typed, CredTypeOK, Supply

LEMMA TypeAnswer ==
    ASSUME Typed, NEW q \in Reqs,
           Answered(q) \/ Retried(q) \/ Refused(q) \/ EndRequest(q) \/ Broken(q)
    PROVE  Typed'
<1>1. req[q] # None /\ req[q] \in Request
  BY Going DEF Answered, Retried, Refused, EndRequest, Broken, Unauthorized, At
<1>2. CASE EndRequest(q) \/ Broken(q)
  <2>1. req' = [req EXCEPT ![q] = None]
    BY <1>2 DEF EndRequest, Broken
  <2> QED
    BY <1>2, <2>1, TypeReplaced, TypeStill DEF EndRequest, Broken
<1>3. ASSUME NEW step \in {"answered", "refused"}, req' = [req EXCEPT ![q].at = step]
      PROVE  req' \in [Reqs -> Request \cup {None}] /\ MintedTokens'
  <2> DEFINE new == [req[q] EXCEPT !.at = step]
  <2>1. req' = [req EXCEPT ![q] = new]
    BY <1>3
  <2>2. new \in Request /\ new.at = step
    BY <1>1 DEF Request
  <2> HIDE DEF new
  <2> QED
    BY <2>1, <2>2, TypeReplaced
<1>4. CASE Answered(q) \/ Refused(q)
  BY <1>3, <1>4, TypeStill DEF Answered, Refused
<1>5. CASE Retried(q)
  <2> DEFINE new == [req[q] EXCEPT !.at = "auth", !.tries = 2, !.header = None, !.excuse = FALSE]
  <2>1. req' = [req EXCEPT ![q] = new]
    BY <1>5 DEF Retried
  <2>2. new \in Request /\ new.at = "auth"
    <3>1. 2 \in 1..2 /\ None \in Header
      BY DEF Header
    <3>2. [req[q] EXCEPT !.at = "auth", !.tries = 2] \in Request
      BY <1>1, <3>1 DEF Request
    <3>3. new = [[req[q] EXCEPT !.at = "auth", !.tries = 2] EXCEPT !.header = None, !.excuse = FALSE]
      OBVIOUS
    <3> QED
      BY <1>1, <3>1, <3>2, <3>3 DEF Request
  <2> HIDE DEF new
  <2>3. req' \in [Reqs -> Request \cup {None}] /\ MintedTokens'
    BY <2>1, <2>2, TypeReplaced
  <2> QED
    BY <1>5, <2>3 DEF Retried, Typed, CredTypeOK, Supply
<1> QED
  BY <1>2, <1>4, <1>5

LEMMA TypeEdit ==
    ASSUME Typed, NEW c \in Conns,
           \/ Remove(c)
           \/ \E h \in Hosts : Upgrade(c, h)
           \/ \E h \in Hosts, k \in Keys \cup {None} : Reconfigure(c, h, k)
    PROVE  Typed'
<1>1. UNCHANGED <<req, era, revoked>> /\ Event
  BY DEF Remove, Upgrade, Reconfigure
<1>2. conn' \in [Conns -> [host : Hosts, key : Keys \cup {None}] \cup {None}]
  BY DEF Remove, Upgrade, Reconfigure, Typed, CredTypeOK
<1>3. slot' \in [Conns -> Token \cup {None}]
  BY DEF Remove, Upgrade, Reconfigure, Typed, CredTypeOK
<1> QED
  BY <1>1, <1>2, <1>3 DEF Typed, CredTypeOK, Supply, MintedTokens, At, Event

LEMMA CredTypeNext == Typed /\ [CredNext]_<<credVars, spare>> => Typed'
<1> SUFFICES ASSUME Typed, [CredNext]_<<credVars, spare>> PROVE Typed'
  OBVIOUS
<1>1. CASE UNCHANGED <<credVars, spare>>
  BY <1>1 DEF credVars, Typed, CredTypeOK, Supply, MintedTokens, At
<1>2. ASSUME NEW q \in Reqs, Proceed(q) \/ Broken(q) PROVE Typed'
  BY <1>2, TypeAuth, TypeStored, TypeAnswer DEF Proceed
<1>3. ASSUME NEW q \in Reqs, NEW kind \in {"retrying", "streaming"},
             NextRequest(q, kind) \/ \E c \in Conns : BeginRequest(q, c, kind)
      PROVE  Typed'
  BY <1>3, TypeBegin
<1>4. ASSUME NEW c \in Conns,
             \/ Remove(c)
             \/ \E h \in Hosts : Upgrade(c, h)
             \/ \E h \in Hosts, k \in Keys \cup {None} : Reconfigure(c, h, k)
      PROVE  Typed'
  BY <1>4, TypeEdit
<1>5. CASE Expire \/ \E k \in Keys : Revoke(k)
  BY <1>5, TypeEngine
<1> QED
  BY <1>1, <1>2, <1>3, <1>4, <1>5 DEF CredNext

\* Slots hold tokens, headers hold tokens, keys or nothing, and the engine's era is
\* bounded by the events from outside, whatever requests interleave.
THEOREM CredTypeCorrect == CredSpec => []CredTypeOK
<1>1. Typed => CredTypeOK
  BY DEF Typed
<1> QED
  BY <1>1, CredTypeInit, CredTypeNext, PTL DEF CredSpec

-----------------------------------------------------------------------------
(* Refusals. *)

Unexcused(q) == req[q] # None /\ req[q].kind = "retrying" /\ req[q].excuse = FALSE

\* In the second try, the slot that the request emptied is empty until it goes on, and
\* what it minted then the engine accepts: only the second try is refused for good.
Good(q) ==
    Unexcused(q) =>
        /\ req[q].tries = 2 /\ req[q].at = "auth" => slot[req[q].client.conn] = None
        /\ req[q].tries = 2 /\ req[q].at \in {"minted", "send"} =>
              Accepts(req[q].header, req[q].client.host) \/ NoKey(q)
        /\ req[q].at = "refused" => NoKey(q)

Justified == Typed /\ \A q \in Reqs : Good(q)

\* One request goes on, no slot is filled, and the engine stays as it is: only that
\* request is to be looked at.
LEMMA GoodReplaced ==
    ASSUME Justified, NEW q \in Reqs, NEW new, req' = [req EXCEPT ![q] = new],
           \A c \in Conns : slot'[c] \in {slot[c], None}, UNCHANGED <<era, revoked>>,
           Good(q)'
    PROVE  \A p \in Reqs : Good(p)'
<1> SUFFICES ASSUME NEW p \in Reqs, p # q PROVE Good(p)'
  OBVIOUS
<1>1. req'[p] = req[p]
  BY DEF Justified, Typed, CredTypeOK
<1>2. req[p] # None => req[p].client.conn \in Conns
  BY Going DEF Justified
<1>3. Good(p)
  BY DEF Justified
<1> QED
  BY <1>1, <1>2, <1>3 DEF Good, Unexcused, NoKey, Accepts

\* Whoever has just been given an excuse needs nothing more.
LEMMA GoodEngine ==
    ASSUME Justified, Expire \/ \E k \in Keys : Revoke(k)
    PROVE  \A p \in Reqs : Good(p)'
<1>1. req' = Excused(req, Reqs)
  BY DEF Expire, Revoke
<1>2. \A p \in Reqs : req'[p] # None => req'[p].excuse = TRUE
  BY <1>1, ExcusedFields DEF Justified
<1> QED
  BY <1>2 DEF Good, Unexcused

LEMMA GoodBegin ==
    ASSUME Justified, NEW q \in Reqs, NEW kind \in {"retrying", "streaming"},
           NextRequest(q, kind) \/ \E c \in Conns : BeginRequest(q, c, kind)
    PROVE  \A p \in Reqs : Good(p)'
<1>1. PICK c : req' = [req EXCEPT ![q] = Fresh(c, kind)]
  BY DEF NextRequest, BeginRequest, Justified, Typed, CredTypeOK
<1>2. req'[q].tries = 1 /\ req'[q].at = "auth"
  BY <1>1 DEF Justified, Typed, CredTypeOK, Fresh
<1>3. Good(q)'
  BY <1>2 DEF Good, Unexcused
<1>4. UNCHANGED <<slot, era, revoked>>
  BY DEF NextRequest, BeginRequest
<1> QED
  BY <1>1, <1>3, <1>4, GoodReplaced

LEMMA GoodAuth ==
    ASSUME Justified, NEW q \in Reqs, AuthCached(q) \/ Mint(q) \/ MintFails(q)
    PROVE  \A p \in Reqs : Good(p)'
<1>1. /\ req[q] # None /\ req[q].at = "auth" /\ UNCHANGED <<slot, era, revoked>>
      /\ req[q] \in Request /\ Good(q)
  BY Going DEF AuthCached, Mint, MintFails, Minting, At, Justified
<1>2. CASE AuthCached(q)
  <2> DEFINE h   == IF req[q].client.key = None THEN None ELSE slot[req[q].client.conn]
             new == [req[q] EXCEPT !.at = "send", !.header = h]
  <2>1. req' = [req EXCEPT ![q] = new] /\ req'[q] = new
    BY <1>2 DEF AuthCached, Justified, Typed, CredTypeOK
  <2>2. req[q].client.key = None \/ slot[req[q].client.conn] # None
    BY <1>2 DEF AuthCached
  <2> HIDE DEF h
  <2>3. /\ new.client = req[q].client /\ new.kind = req[q].kind /\ new.tries = req[q].tries
        /\ new.excuse = req[q].excuse /\ new.at = "send"
    BY <1>1 DEF Request
  <2> HIDE DEF new
  <2>4. Good(q)'
    BY <1>1, <2>1, <2>2, <2>3 DEF Good, Unexcused, NoKey
  <2> QED
    BY <1>1, <2>1, <2>4, GoodReplaced
<1>3. CASE Mint(q)
  <2> DEFINE t   == [host |-> req[q].client.host, key |-> req[q].client.key, era |-> era]
             new == [req[q] EXCEPT !.at = "minted", !.header = t]
  <2>1. req' = [req EXCEPT ![q] = new] /\ req'[q] = new
    BY <1>3 DEF Mint, Justified, Typed, CredTypeOK
  <2>2. /\ t \in Token /\ t.host = req[q].client.host /\ t.era = era /\ t.key \notin revoked
    BY <1>1, <1>3, Going DEF Mint, Minting, Token, Justified, Typed, CredTypeOK
  <2> HIDE DEF t
  <2>3. new.client = req[q].client /\ new.header = t /\ new.at = "minted"
    BY <1>1 DEF Request
  <2> HIDE DEF new
  <2>4. Good(q)'
    BY <1>1, <2>1, <2>2, <2>3 DEF Good, Unexcused, Accepts
  <2> QED
    BY <1>1, <2>1, <2>4, GoodReplaced
<1>4. CASE MintFails(q)
  <2> DEFINE new == [req[q] EXCEPT !.at = "send", !.header = req[q].client.key, !.excuse = TRUE]
  <2>1. req' = [req EXCEPT ![q] = new] /\ req'[q] = new
    BY <1>4 DEF MintFails, Justified, Typed, CredTypeOK
  <2>2. new.excuse = TRUE
    BY <1>1 DEF Request
  <2> HIDE DEF new
  <2>3. Good(q)'
    BY <2>1, <2>2 DEF Good, Unexcused
  <2> QED
    BY <1>1, <2>1, <2>3, GoodReplaced
<1> QED
  BY <1>2, <1>3, <1>4

\* The token goes into the slot: whoever shares the slot is given an excuse.
LEMMA GoodStored ==
    ASSUME Justified, NEW q \in Reqs, MintStored(q)
    PROVE  \A p \in Reqs : Good(p)'
<1> DEFINE others == {p \in Reqs \ {q} : req[p] # None /\ req[p].client.conn = req[q].client.conn}
           ex     == Excused(req, others)
<1>1. /\ req[q] # None /\ req[q].at = "minted" /\ UNCHANGED <<era, revoked>>
      /\ req[q] \in Request /\ req[q].client.conn \in Conns
  BY Going DEF MintStored, At, Justified
<1>2. req' = [ex EXCEPT ![q] = [ex[q] EXCEPT !.at = "send"]]
  BY DEF MintStored
<1>3. \A c \in Conns : c # req[q].client.conn => slot'[c] = slot[c]
  BY DEF MintStored, Justified, Typed, CredTypeOK
<1>4. \A p \in Reqs : p # q /\ p \notin others /\ req[p] # None
                        => req[p].client.conn # req[q].client.conn
  OBVIOUS
<1>5. others \in SUBSET Reqs /\ q \notin others
  OBVIOUS
<1> HIDE DEF others
<1>6. /\ ex \in [Reqs -> Request \cup {None}]
      /\ \A p \in Reqs : p \in others /\ ex[p] # None => ex[p].excuse = TRUE
      /\ \A p \in Reqs : p \notin others => ex[p] = req[p]
  BY <1>5, ExcusedFields DEF Justified, Excused
<1> HIDE DEF ex
<1>7. ASSUME NEW p \in Reqs, p # q PROVE Good(p)'
  <2>1. req'[p] = ex[p]
    BY <1>2, <1>6, <1>7
  <2>2. CASE p \in others
    BY <1>6, <2>1, <2>2 DEF Good, Unexcused
  <2>3. CASE p \notin others
    <3>1. req'[p] = req[p] /\ Good(p)
      BY <1>6, <2>1, <2>3 DEF Justified
    <3>2. req[p] # None => slot'[req[p].client.conn] = slot[req[p].client.conn]
      BY <1>3, <1>4, <1>7, <2>3, Going DEF Justified
    <3> QED
      BY <1>1, <3>1, <3>2 DEF Good, Unexcused, NoKey, Accepts
  <2> QED
    BY <2>2, <2>3
<1>8. Good(q)'
  <2> DEFINE new == [req[q] EXCEPT !.at = "send"]
  <2>1. req'[q] = new
    BY <1>2, <1>5, <1>6
  <2>2. /\ new.client = req[q].client /\ new.kind = req[q].kind /\ new.tries = req[q].tries
        /\ new.excuse = req[q].excuse /\ new.header = req[q].header /\ new.at = "send"
    BY <1>1 DEF Request
  <2>3. Good(q)
    BY DEF Justified
  <2> HIDE DEF new
  <2> QED
    BY <1>1, <2>1, <2>2, <2>3 DEF Good, Unexcused, NoKey, Accepts
<1> QED
  BY <1>7, <1>8

LEMMA GoodAnswer ==
    ASSUME Justified, NEW q \in Reqs,
           Answered(q) \/ Retried(q) \/ Refused(q) \/ EndRequest(q) \/ Broken(q)
    PROVE  \A p \in Reqs : Good(p)'
<1>1. req[q] # None /\ req[q] \in Request /\ req[q].client.conn \in Conns /\ Good(q)
  BY Going DEF Answered, Retried, Refused, EndRequest, Broken, Unauthorized, At, Justified
<1>2. UNCHANGED <<era, revoked>> /\ \A c \in Conns : slot'[c] \in {slot[c], None}
  BY DEF Answered, Retried, Refused, EndRequest, Broken, Justified, Typed, CredTypeOK
<1>3. CASE EndRequest(q) \/ Broken(q)
  <2>1. req' = [req EXCEPT ![q] = None] /\ req'[q] = None
    BY <1>3 DEF EndRequest, Broken, Justified, Typed, CredTypeOK
  <2>2. Good(q)'
    BY <2>1 DEF Good, Unexcused
  <2> QED
    BY <1>2, <2>1, <2>2, GoodReplaced
<1>4. CASE Answered(q)
  <2> DEFINE new == [req[q] EXCEPT !.at = "answered"]
  <2>1. req' = [req EXCEPT ![q] = new] /\ req'[q] = new
    BY <1>4 DEF Answered, Justified, Typed, CredTypeOK
  <2>2. new.at = "answered"
    BY <1>1 DEF Request
  <2> HIDE DEF new
  <2>3. Good(q)'
    BY <2>1, <2>2 DEF Good
  <2> QED
    BY <1>2, <2>1, <2>3, GoodReplaced
<1>5. CASE Retried(q)
  <2> DEFINE new == [req[q] EXCEPT !.at = "auth", !.tries = 2, !.header = None, !.excuse = FALSE]
  <2>1. req' = [req EXCEPT ![q] = new] /\ req'[q] = new
    BY <1>5 DEF Retried, Justified, Typed, CredTypeOK
  <2>2. new.at = "auth" /\ new.client = req[q].client
    BY <1>1 DEF Request
  <2>3. slot'[req[q].client.conn] = None
    BY <1>1, <1>5 DEF Retried, Justified, Typed, CredTypeOK
  <2> HIDE DEF new
  <2>4. Good(q)'
    BY <2>1, <2>2, <2>3 DEF Good
  <2> QED
    BY <1>2, <2>1, <2>4, GoodReplaced
<1>6. CASE Refused(q)
  <2> DEFINE new == [req[q] EXCEPT !.at = "refused"]
  <2>1. req' = [req EXCEPT ![q] = new] /\ req'[q] = new
    BY <1>6 DEF Refused, Justified, Typed, CredTypeOK
  <2>2. /\ new.client = req[q].client /\ new.kind = req[q].kind /\ new.tries = req[q].tries
        /\ new.excuse = req[q].excuse /\ new.at = "refused"
    BY <1>1 DEF Request
  <2>3. /\ req[q].at = "send" /\ ~Accepts(req[q].header, req[q].client.host)
        /\ req[q].kind = "retrying" => req[q].tries = 2
    BY <1>6 DEF Refused, Unauthorized, At
  <2> HIDE DEF new
  <2>4. Good(q)'
    BY <1>1, <1>2, <2>1, <2>2, <2>3 DEF Good, Unexcused, NoKey
  <2> QED
    BY <1>2, <2>1, <2>4, GoodReplaced
<1> QED
  BY <1>3, <1>4, <1>5, <1>6

LEMMA GoodEdit ==
    ASSUME Justified, NEW c \in Conns,
           \/ Remove(c)
           \/ \E h \in Hosts : Upgrade(c, h)
           \/ \E h \in Hosts, k \in Keys \cup {None} : Reconfigure(c, h, k)
    PROVE  \A p \in Reqs : Good(p)'
<1>1. UNCHANGED <<req, era, revoked>> /\ \A x \in Conns : slot'[x] \in {slot[x], None}
  BY DEF Remove, Upgrade, Reconfigure, Justified, Typed, CredTypeOK
<1> SUFFICES ASSUME NEW p \in Reqs PROVE Good(p)'
  OBVIOUS
<1>2. req[p] # None => req[p].client.conn \in Conns
  BY Going DEF Justified
<1> QED
  BY <1>1, <1>2 DEF Justified, Good, Unexcused, NoKey, Accepts

LEMMA JustifiedNext == Justified /\ [CredNext]_<<credVars, spare>> => Justified'
<1> SUFFICES ASSUME Justified, [CredNext]_<<credVars, spare>> PROVE \A p \in Reqs : Good(p)'
  BY CredTypeNext DEF Justified
<1>1. CASE UNCHANGED <<credVars, spare>>
  BY <1>1 DEF credVars, Justified, Good, Unexcused, NoKey, Accepts
<1>2. ASSUME NEW q \in Reqs, Proceed(q) \/ Broken(q) PROVE \A p \in Reqs : Good(p)'
  BY <1>2, GoodAuth, GoodStored, GoodAnswer DEF Proceed
<1>3. ASSUME NEW q \in Reqs, NEW kind \in {"retrying", "streaming"},
             NextRequest(q, kind) \/ \E c \in Conns : BeginRequest(q, c, kind)
      PROVE  \A p \in Reqs : Good(p)'
  BY <1>3, GoodBegin
<1>4. ASSUME NEW c \in Conns,
             \/ Remove(c)
             \/ \E h \in Hosts : Upgrade(c, h)
             \/ \E h \in Hosts, k \in Keys \cup {None} : Reconfigure(c, h, k)
      PROVE  \A p \in Reqs : Good(p)'
  BY <1>4, GoodEdit
<1>5. CASE Expire \/ \E k \in Keys : Revoke(k)
  BY <1>5, GoodEngine
<1> QED
  BY <1>1, <1>2, <1>3, <1>4, <1>5 DEF CredNext

\* Whatever the clients of a connection do to the slot they share, a request that
\* authed_send gives up after its second 401 has no good key, or something named in
\* RefusalsExplained happened between its two tries.
THEOREM RefusalsAreExplained == CredSpec => []RefusalsExplained
<1>1. CredInit /\ spare \in 0..MaxEvents => Justified
  BY CredTypeInit DEF CredInit, Justified, Good, Unexcused
<1>2. Justified => RefusalsExplained
  <2> SUFFICES ASSUME Justified, NEW q \in Reqs, At(q, "refused"), req[q].kind = "retrying",
                      ~NoKey(q)
               PROVE  req[q].excuse
    BY DEF RefusalsExplained
  <2>1. req[q].excuse \in BOOLEAN
    BY Going DEF At, Justified, Request
  <2>2. req[q].excuse # FALSE
    BY DEF At, Justified, Good, Unexcused
  <2> QED
    BY <2>1, <2>2, ZenonT(30)
<1> QED
  BY <1>1, <1>2, JustifiedNext, PTL DEF CredSpec
=============================================================================
