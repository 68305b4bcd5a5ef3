---------------------------- MODULE Credentials ----------------------------
(***************************************************************************)
(* The JwtCache and the RemoteClients that use it: requests of handlers    *)
(* and synchronisations to the engines of the configured connections.  A   *)
(* client copies the URL and the key of its connection when it is made,    *)
(* but takes the token from the one slot its connection's clients share,   *)
(* and no lock is held while a token is fetched.  A request that is        *)
(* answered 401 empties the slot and is sent once more; a streamed upload  *)
(* is not.                                                                 *)
(*                                                                         *)
(* The engine is external: it answers 401 to a token of another host, to   *)
(* one minted before its tokens expired, and to the key it has revoked.    *)
(***************************************************************************)
EXTENDS Connections

CONSTANT Reqs      \* concurrent requests

VARIABLES
    conn,       \* Conns -> host and key of the configured connection, or None
    slot,       \* Conns -> the shared token or None
    req,        \* Reqs -> the request, or None
    era,        \* tokens minted in an earlier era have expired
    revoked     \* keys that the engine no longer accepts

credVars == <<conn, slot, req, era, revoked>>

Token  == [host : Hosts, key : Keys, era : Nat]
\* What the Authorization header carries: a token, the raw key, or nothing.
Header == Token \cup Keys \cup {None}
Client == [conn : Conns, host : Hosts, key : Keys \cup {None}]

Request ==
    [client : Client, kind : {"retrying", "streaming"}, header : Header, tries : 1..2,
     at : {"auth", "minted", "send", "answered", "refused"},
     excuse : BOOLEAN]     \* history: see RefusalsExplained

CredTypeOK ==
    /\ conn \in [Conns -> [host : Hosts, key : Keys \cup {None}] \cup {None}]
    /\ slot \in [Conns -> Token \cup {None}]
    /\ req \in [Reqs -> Request \cup {None}]
    /\ era \in 0..MaxEvents
    /\ revoked \subseteq Keys

CredInit ==
    /\ conn \in [Conns -> [host : Hosts, key : Keys]]
    /\ slot = [c \in Conns |-> None]
    /\ req = [q \in Reqs |-> None]
    /\ era = 0
    /\ revoked = {}

\* Every request on its way has an excuse: something happened behind its back.
Excused(r, S) == [q \in Reqs |-> IF q \in S /\ r[q] # None THEN [r[q] EXCEPT !.excuse = TRUE]
                                 ELSE r[q]]

-----------------------------------------------------------------------------
(* The engine. *)

Accepts(h, host) == h \in Token /\ h.host = host /\ h.era = era /\ h.key \notin revoked

Expire ==
    /\ Event
    /\ era' = era + 1
    /\ req' = Excused(req, Reqs)
    /\ UNCHANGED <<conn, slot, revoked>>

Revoke(k) ==
    /\ Event
    /\ k \notin revoked
    /\ revoked' = revoked \cup {k}
    /\ req' = Excused(req, Reqs)
    /\ UNCHANGED <<conn, slot, era>>

-----------------------------------------------------------------------------
(* Requests. *)

\* from_connection_cached: a handler, or a pass, copies the connection.
ClientOf(c) == [conn |-> c, host |-> conn[c].host, key |-> conn[c].key]

Fresh(client, kind) ==
    [client |-> client, kind |-> kind, header |-> None, tries |-> 1, at |-> "auth",
     excuse |-> FALSE]

At(q, step) == req[q] # None /\ req[q].at = step

BeginRequest(q, c, kind) ==
    /\ req[q] = None
    /\ conn[c] # None
    /\ req' = [req EXCEPT ![q] = Fresh(ClientOf(c), kind)]
    /\ UNCHANGED <<conn, slot, era, revoked, spare>>

\* The same client sends its next request, or is dropped.
NextRequest(q, kind) ==
    /\ At(q, "answered") \/ At(q, "refused")
    /\ req' = [req EXCEPT ![q] = Fresh(@.client, kind)]
    /\ UNCHANGED <<conn, slot, era, revoked, spare>>

EndRequest(q) ==
    /\ At(q, "answered") \/ At(q, "refused")
    /\ req' = [req EXCEPT ![q] = None]
    /\ UNCHANGED <<conn, slot, era, revoked, spare>>

\* auth_header: nothing without a key, else the shared token.
AuthCached(q) ==
    /\ At(q, "auth")
    /\ \/ req[q].client.key = None
       \/ slot[req[q].client.conn] # None
    /\ req' = [req EXCEPT ![q].at = "send",
                          ![q].header = IF req[q].client.key = None THEN None
                                        ELSE slot[req[q].client.conn]]
    /\ UNCHANGED <<conn, slot, era, revoked, spare>>

Minting(q) ==
    /\ At(q, "auth")
    /\ req[q].client.key # None
    /\ slot[req[q].client.conn] = None

\* exchange_token: the engine mints a token; its reply is on the way.
Mint(q) ==
    /\ Minting(q)
    /\ req[q].client.key \notin revoked
    /\ req' = [req EXCEPT ![q].at = "minted",
                          ![q].header = [host |-> req[q].client.host,
                                         key |-> req[q].client.key, era |-> era]]
    /\ UNCHANGED <<conn, slot, era, revoked, spare>>

\* The exchange fails: the raw key goes into the header instead.
MintFails(q) ==
    /\ Minting(q)
    /\ \/ req[q].client.key \in revoked /\ UNCHANGED spare
       \/ Event
    /\ req' = [req EXCEPT ![q].at = "send", ![q].header = req[q].client.key,
                          ![q].excuse = TRUE]
    /\ UNCHANGED <<conn, slot, era, revoked>>

MintStored(q) ==
    /\ At(q, "minted")
    /\ slot' = [slot EXCEPT ![req[q].client.conn] = req[q].header]
    /\ req' = [Excused(req, {p \in Reqs \ {q} : req[p] # None
                                /\ req[p].client.conn = req[q].client.conn})
                   EXCEPT ![q].at = "send"]
    /\ UNCHANGED <<conn, era, revoked, spare>>

\* The engine takes a raw key too, or it does not.
Answered(q) ==
    /\ At(q, "send")
    /\ \/ Accepts(req[q].header, req[q].client.host)
       \/ req[q].header \in Keys \ revoked
    /\ req' = [req EXCEPT ![q].at = "answered"]
    /\ UNCHANGED <<conn, slot, era, revoked, spare>>

Unauthorized(q) ==
    /\ At(q, "send")
    /\ ~Accepts(req[q].header, req[q].client.host)

\* Mutant of Retried: the token stays in the slot.
RetriedWithTheSame(q) ==
    /\ Unauthorized(q)
    /\ req[q].kind = "retrying" /\ req[q].tries = 1
    /\ req' = [req EXCEPT ![q].at = "auth", ![q].tries = 2, ![q].header = None,
                          ![q].excuse = FALSE]
    /\ UNCHANGED <<conn, slot, era, revoked, spare>>

\* authed_send: the slot is emptied and the request sent again, once.
Retried(q) ==
    /\ Unauthorized(q)
    /\ req[q].kind = "retrying" /\ req[q].tries = 1
    /\ slot' = [slot EXCEPT ![req[q].client.conn] = None]
    /\ req' = [req EXCEPT ![q].at = "auth", ![q].tries = 2, ![q].header = None,
                          ![q].excuse = FALSE]
    /\ UNCHANGED <<conn, era, revoked, spare>>

Refused(q) ==
    /\ Unauthorized(q)
    /\ req[q].kind = "streaming" \/ req[q].tries = 2
    /\ req' = [req EXCEPT ![q].at = "refused"]
    /\ UNCHANGED <<conn, slot, era, revoked, spare>>

\* The request fails in transport.
Broken(q) ==
    /\ At(q, "send") \/ At(q, "minted")
    /\ Event
    /\ req' = [req EXCEPT ![q] = None]
    /\ UNCHANGED <<conn, slot, era, revoked>>

-----------------------------------------------------------------------------
(* The configuration. *)

\* update_connection changes the record and leaves the slot as it is.
Reconfigure(c, h, k) ==
    /\ Event
    /\ conn[c] # None
    /\ conn' = [conn EXCEPT ![c] = [host |-> h, key |-> k]]
    /\ conn' # conn
    /\ UNCHANGED <<slot, req, era, revoked>>

\* delete_connection leaves the slot as well: drop_slot has no caller.
Remove(c) ==
    /\ Event
    /\ conn' = [conn EXCEPT ![c] = None]
    /\ UNCHANGED <<slot, req, era, revoked>>

\* The URL probe stores the upgraded URL and empties the slot.
Upgrade(c, h) ==
    /\ Event
    /\ conn[c] # None
    /\ conn' = [conn EXCEPT ![c].host = h]
    /\ slot' = [slot EXCEPT ![c] = None]
    /\ UNCHANGED <<req, era, revoked>>

\* A request on its way goes on by itself.
Proceed(q) ==
    \/ AuthCached(q) \/ Mint(q) \/ MintFails(q) \/ MintStored(q)
    \/ Answered(q) \/ Retried(q) \/ Refused(q) \/ EndRequest(q)

CredNext ==
    \/ \E q \in Reqs :
        \/ Proceed(q) \/ Broken(q)
        \/ \E kind \in {"retrying", "streaming"} :
            NextRequest(q, kind) \/ \E c \in Conns : BeginRequest(q, c, kind)
    \/ \E c \in Conns, h \in Hosts :
        \/ \E k \in Keys \cup {None} : Reconfigure(c, h, k)
        \/ Upgrade(c, h)
    \/ \E c \in Conns : Remove(c)
    \/ Expire
    \/ \E k \in Keys : Revoke(k)

CredSpec == CredInit /\ spare \in 0..MaxEvents /\ [][CredNext]_<<credVars, spare>>

-----------------------------------------------------------------------------
(* Properties. *)

NoKey(q) == req[q].client.key = None \/ req[q].client.key \in revoked

\* "A 401 after re-mint means the underlying api_key is genuinely bad", unless the
\* exchange failed, or since the slot was emptied the tokens expired, a key was
\* revoked, or another request put its token into the slot.
RefusalsExplained ==
    \A q \in Reqs : At(q, "refused") /\ req[q].kind = "retrying" =>
        NoKey(q) \/ req[q].excuse

\* The client's copy of its connection is up to date.
Current(q) ==
    req[q] # None =>
        /\ conn[req[q].client.conn] # None
        /\ req[q].client = ClientOf(req[q].client.conn)

\* A stale token does not stick: in the end a good key is refused only while some
\* client still works with an outdated copy of its connection.
TokenRecovers ==
    <>[](\A q \in Reqs : At(q, "refused") /\ req[q].kind = "retrying" =>
            NoKey(q) \/ \E p \in Reqs : ~Current(p))
=============================================================================
