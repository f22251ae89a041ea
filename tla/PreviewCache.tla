---------------------------- MODULE PreviewCache ----------------------------
(***************************************************************************)
(* PreviewCacheService: the previews kept in Redis between the moment they *)
(* are shown and the moment they are saved.  Each action is one command    *)
(* (or one Lua script); the services that call them are in TranslatePreview*)
(* and SaveHistory.                                                        *)
(*                                                                         *)
(* A text x style x styleVersion is one member of Keys.  The translated    *)
(* text is identified with the preview id it was generated under.          *)
(***************************************************************************)
EXTENDS Integers, FiniteSets

CONSTANTS
    Users,       \* users with an account
    Keys,        \* normalized text + style + styleVersion: one cache key each
    PreviewIds,  \* the UUIDs randomUUID() can return
    NoPreview    \* "no preview id"

ASSUME CacheAssumption == NoPreview \notin PreviewIds \cup Users \cup Keys

VARIABLES
    data,     \* preview:data:<id>: the payload, or NoData
    pointer,  \* preview:hmac:<hmac of user and key>: a preview id
    marker,   \* preview:idempotency:<id>: the ids that are marked as saved
    issued,   \* history: every preview ever stored, with its owner and key
    shown     \* history: those of them that were answered to a client

cacheVars == <<data, pointer, marker, issued, shown>>

\* A payload is live, past its expiresAt, or one that this deployment cannot
\* decrypt or use (an older key version or format).
Payload == [user : Users, key : Keys, state : {"live", "lapsed", "unreadable"}]
NoData  == [user |-> NoPreview, key |-> NoPreview, state |-> "gone"]
Preview == [pid : PreviewIds, user : Users, key : Keys]

CacheTypeOK ==
    /\ data \in [PreviewIds -> Payload \cup {NoData}]
    /\ pointer \in [Users -> [Keys -> PreviewIds \cup {NoPreview}]]
    /\ marker \subseteq PreviewIds
    /\ issued \subseteq Preview
    /\ shown \subseteq Preview

CacheInit ==
    /\ data = [p \in PreviewIds |-> NoData]
    /\ pointer = [u \in Users |-> [k \in Keys |-> NoPreview]]
    /\ marker = {} /\ issued = {} /\ shown = {}

-----------------------------------------------------------------------------
(* storePreview: two SETEX commands, one after the other.                  *)

StoreData(p, u, k) ==
    /\ \A v \in issued : v.pid # p
    /\ issued' = issued \cup {[pid |-> p, user |-> u, key |-> k]}
    /\ data' = [data EXCEPT ![p] = [user |-> u, key |-> k, state |-> "live"]]

StorePointer(p, u, k) == pointer' = [pointer EXCEPT ![u][k] = p]

Show(p, u, k) == shown' = shown \cup {[pid |-> p, user |-> u, key |-> k]}

-----------------------------------------------------------------------------
(* getPreview.                                                             *)

Readable(p, u) == data[p].state = "live" /\ data[p].user = u

\* An unreadable payload, and the caller's own lapsed one, are deleted on sight;
\* somebody else's preview is reported missing and left alone.
DropsOnRead(p, u) ==
    data[p].state = "unreadable" \/ (data[p].state = "lapsed" /\ data[p].user = u)

ReadMiss(p, u) ==
    /\ ~Readable(p, u)
    /\ data' = IF DropsOnRead(p, u) THEN [data EXCEPT ![p] = NoData] ELSE data

-----------------------------------------------------------------------------
(* deletePreview: a Lua script, then the marker.                           *)

\* Wrong form: the pointer of the key is deleted whatever it points at.
UnpointAlways(p, u, k) == pointer' = [pointer EXCEPT ![u][k] = NoPreview]

Unpoint(p, u, k) ==
    pointer' = IF pointer[u][k] = p THEN [pointer EXCEPT ![u][k] = NoPreview] ELSE pointer

\* Wrong form: the marker alone is thought enough, the payload is left to its TTL.
EvictPointerOnly(p, u, k) == Unpoint(p, u, k) /\ UNCHANGED data

Evict(p, u, k) ==
    /\ data' = [data EXCEPT ![p] = NoData]
    /\ Unpoint(p, u, k)

SetMarker(p) == marker' = marker \cup {p}

-----------------------------------------------------------------------------
(* Time and deployments.  Payload and pointer get the TTL that expiresAt   *)
(* is computed from; the marker has a TTL of its own.                      *)

Lapse(p) ==
    /\ data[p].state = "live"
    /\ data' = [data EXCEPT ![p].state = "lapsed"]
    /\ UNCHANGED <<pointer, marker, issued, shown>>

ExpireData(p) ==
    /\ data[p].state \in {"lapsed", "unreadable"}
    /\ data' = [data EXCEPT ![p] = NoData]
    /\ UNCHANGED <<pointer, marker, issued, shown>>

ExpirePointer(u, k) ==
    /\ pointer[u][k] # NoPreview
    /\ data[pointer[u][k]].state # "live"
    /\ pointer' = [pointer EXCEPT ![u][k] = NoPreview]
    /\ UNCHANGED <<data, marker, issued, shown>>

ExpireMarker(p) ==
    /\ p \in marker
    /\ marker' = marker \ {p}
    /\ UNCHANGED <<data, pointer, issued, shown>>

CacheTime ==
    \/ \E p \in PreviewIds : Lapse(p) \/ ExpireData(p) \/ ExpireMarker(p)
    \/ \E u \in Users, k \in Keys : ExpirePointer(u, k)

\* A deployment that cannot use what the previous one stored.
Redeploy ==
    /\ data' = [p \in PreviewIds |->
                  IF data[p] = NoData THEN NoData
                  ELSE [data[p] EXCEPT !.state = "unreadable"]]
    /\ UNCHANGED <<pointer, marker, issued, shown>>
=============================================================================
