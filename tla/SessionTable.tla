---------------------------- MODULE SessionTable ----------------------------
(***************************************************************************)
(* The two hash maps every server port keeps:                              *)
(*   peers  : session uuid -> the connection's entry (peers_connected)     *)
(*   index  : peer uuid -> session uuid              (peers_authenticated, *)
(*            peer_uuid_to_session_uuid on a UDP port)                     *)
(* A HashMap is a function whose domain is the set of its keys. Of an      *)
(* entry these operators only use the field "peer" (peer_id).              *)
(***************************************************************************)
EXTENDS Functions

CONSTANT NoPeer      \* peer_id of a session nobody has authenticated (None)

Empty == [k \in {} |-> NoPeer]

\* HashMap::insert (an old value is overwritten) and HashMap::remove.
Insert(f, k, v) == [x \in DOMAIN f \cup {k} |-> IF x = k THEN v ELSE f[x]]
Remove(f, keys) == Restrict(f, DOMAIN f \ keys)

\* Variants with a bug, for the checks to reject: the entry also stays under
\* its old key; the index names the old key; key and value are swapped.
EntriesKeepOldKey(peers, current, peer, new) ==
    IF current \in DOMAIN peers
    THEN Insert(peers, new, [peers[current] EXCEPT !.peer = peer])
    ELSE peers
IndexOldKey(peers, index, current, peer, new) ==
    IF current \in DOMAIN peers THEN Insert(index, peer, current) ELSE index
IndexSwapped(peers, index, current, peer, new) ==
    IF current \in DOMAIN peers THEN Insert(index, new, peer) ELSE index

(***************************************************************************)
(* authenticate_peer: the entry found under the current session gets the   *)
(* peer and moves to the key `new'; the peer's index entry names that key. *)
(* A session that is not there changes nothing. The call without a new     *)
(* session is the case new = current.                                      *)
(***************************************************************************)
AuthenticatedEntries(peers, current, peer, new) ==
    IF current \in DOMAIN peers
    THEN Insert(Remove(peers, {current}), new, [peers[current] EXCEPT !.peer = peer])
    ELSE peers

AuthenticatedIndex(peers, index, current, peer, new) ==
    IF current \in DOMAIN peers THEN Insert(index, peer, new) ELSE index

\* disconnect_peer_or_session: the key removed from the entries, the peer's
\* session if the uuid names an indexed peer, else the uuid as a session.
DisconnectKey(index, uuid) == IF uuid \in DOMAIN index THEN index[uuid] ELSE uuid

IsSessionAuthenticated(peers, session) ==
    session \in DOMAIN peers /\ peers[session].peer # NoPeer

GetPeerUuidFromSession(peers, session) ==
    IF session \in DOMAIN peers THEN peers[session].peer ELSE NoPeer

IsPeerConnected(index, peer) == peer \in DOMAIN index

AnonymousSessions(peers) == {s \in DOMAIN peers : peers[s].peer = NoPeer}

AuthenticatedSessionsOf(peers) == DOMAIN peers \ AnonymousSessions(peers)
=============================================================================
