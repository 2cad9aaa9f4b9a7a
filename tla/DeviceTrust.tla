---------------------------- MODULE DeviceTrust ----------------------------
(***************************************************************************)
(* Paired devices (internal/pairing, internal/identity/pairing.go,         *)
(* internal/storage/sqlite/store.go, internal/transport/tcp): invitations  *)
(* signed by a peer, their acceptance and the revocation of a device, each *)
(* one SQLite transaction with its audit event, and the mutually           *)
(* authenticated sessions that are checked against the device table.       *)
(* Times are numbers; a peer's clock may be ahead of this node's.          *)
(***************************************************************************)
EXTENDS Integers, Sequences, FiniteSets

CONSTANTS
    Shares,
    IdOf,           \* for each public key, the device ID its fingerprint is cut down to
    Ahead,          \* for each public key, how far its holder's clock is ahead
    Local,          \* this node's device ID
    InviteTTL,      \* MaxPairingInviteTTL
    Skew,           \* pairingClockSkew, identityCertificateClockSkew, MaxClockSkew
    GrantTTL,       \* the longest and (one) the shortest control-plane grant
    CertLife        \* IdentityCertificateLifetime

VARIABLES
    clock,
    device,         \* devices: for each ID the stored key and trust state
    permission,     \* share_permissions: for each device and share
    grant,          \* control_plane_grants
    invites,        \* the invitations made so far, by plan
    accepted,       \* pairing_acceptances: for each invitation the accepted key
    audit,          \* audit_events, oldest first
    listener,       \* when the listening TLS configuration was made
    sessions        \* keys of peers with an authenticated session

trustVars == <<clock, device, permission, grant, invites, accepted, audit, listener, sessions>>

NoKey == "none"
Never == -1
Keys == DOMAIN IdOf
Devices == {IdOf[k] : k \in Keys}

NoDevice == [key |-> NoKey, trust |-> "unknown"]
NoPermission == [caps |-> {}, lan |-> FALSE]
NoGrant == [read |-> FALSE, expires |-> 0, revoked |-> FALSE]
NoInvite == [key |-> NoKey, created |-> 0, expires |-> 0]

ClockOf(k) == clock + Ahead[k]
Trusted(d) == device[d].trust = "trusted"

TrustInit(plans) ==
    /\ clock = 0
    /\ device = [d \in Devices |-> IF d = Local THEN [key |-> Local, trust |-> "trusted"] ELSE NoDevice]
    /\ permission = [d \in Devices |-> [s \in Shares |-> NoPermission]]
    /\ grant = [d \in Devices |-> NoGrant]
    /\ invites = [i \in plans |-> NoInvite]
    /\ accepted = [i \in plans |-> NoKey]
    /\ audit = <<>>
    /\ listener = Never
    /\ sessions = {}

Event(name, d, i, shares, control) ==
    [name |-> name, peer |-> d, invite |-> i, shares |-> shares, control |-> control]

-----------------------------------------------------------------------------
(* Invitations (identity/pairing.go)                                       *)

\* NewPairingInviteAt: made by the holder of plan.key, by its own clock.
NewInvite(plan) == [key |-> plan.key, created |-> ClockOf(plan.key), expires |-> ClockOf(plan.key) + plan.ttl]

\* CreateInvitation of this node records an audit event; it stores no invitation row.
CreateInvitation(i, plan) ==
    /\ invites[i] = NoInvite
    /\ plan.ttl \in 1..InviteTTL
    /\ invites' = [invites EXCEPT ![i] = NewInvite(plan)]
    /\ audit' = IF IdOf[plan.key] = Local THEN Append(audit, Event("invited", Local, i, <<>>, 0)) ELSE audit
    /\ UNCHANGED <<clock, device, permission, grant, accepted, listener, sessions>>

\* ValidatePairingInvite.  The key, the fingerprint, the device ID, the
\* invitation ID and the signature of an invitation that was made agree.
ValidInvite(invite, now) ==
    /\ invite.key # NoKey
    /\ invite.expires > invite.created
    /\ invite.expires - invite.created <= InviteTTL
    /\ invite.created <= now + Skew
    /\ now < invite.expires

\* ConfirmPairingInvite: what the operator compared and typed.
ConfirmInvite(invite, confirmed) == confirmed.key = invite.key /\ confirmed.code

\* permissionsForPeer: every granted share names at least one capability.
PermissionsForPeer(shares) == \A s \in DOMAIN shares : s \in Shares /\ shares[s].caps # {}

\* controlPlaneGrantForPeer: no grant (0), or one that lasts between the limits.
ControlPlaneGrantForPeer(ttl) == ttl \in 0..GrantTTL

\* Mutant: an invitation may be accepted again.
AcceptsAgain(i) == TRUE

\* pairing_acceptances: an invitation is accepted once; again, it only reports so.
FirstAcceptance(i) == accepted[i] = NoKey

\* Accept refuses to replace the identity material of a known device.
KeepsIdentity(d, k) == device[d].key \in {NoKey, k}

\* pairingStore.Accept, one transaction: the device, the permissions of the
\* shares named (others are kept), the grant if there is one, the event.
StoreAcceptance(request, invite, peer) ==
    /\ FirstAcceptance(request.invite)
    /\ KeepsIdentity(peer, invite.key)
    /\ device' = [device EXCEPT ![peer] = [key |-> invite.key, trust |-> "trusted"]]
    /\ permission' = [permission EXCEPT ![peer] =
                         [s \in Shares |-> IF s \in DOMAIN request.shares THEN request.shares[s] ELSE @[s]]]
    /\ grant' = IF request.control = 0 THEN grant
                ELSE [grant EXCEPT ![peer] = [read |-> TRUE, expires |-> clock + request.control, revoked |-> FALSE]]
    /\ accepted' = [accepted EXCEPT ![request.invite] = invite.key]
    /\ audit' = Append(audit, Event("accepted", peer, request.invite, request.shares, request.control))

\* Accept: the invitation is decoded and confirmed, then stored.
Accept(request) ==
    LET invite == invites[request.invite]
        peer == IdOf[invite.key] IN
    /\ ValidInvite(invite, clock)
    /\ ConfirmInvite(invite, request.confirmed)
    /\ peer # Local
    /\ PermissionsForPeer(request.shares)
    /\ ControlPlaneGrantForPeer(request.control)
    /\ StoreAcceptance(request, invite, peer)
    /\ UNCHANGED <<clock, invites, listener, sessions>>

-----------------------------------------------------------------------------
(* Revocation (pairingStore.Revoke); the replica of the device goes in the *)
(* same transaction and is the caller's part of the step.                  *)

RevokedGrant(g) == IF g = NoGrant THEN g ELSE [g EXCEPT !.read = FALSE, !.revoked = TRUE]

WithoutPermissions(d) == [permission EXCEPT ![d] = [s \in Shares |-> NoPermission]]

\* pairingStore.Revoke: a repeated revocation cleans up again and records nothing.
StoreRevocation(d) ==
    /\ permission' = WithoutPermissions(d)
    /\ grant' = [grant EXCEPT ![d] = RevokedGrant(@)]
    /\ device' = [device EXCEPT ![d].trust = "revoked"]
    /\ audit' = IF device[d].trust = "revoked" THEN audit ELSE Append(audit, Event("revoked", d, 0, <<>>, 0))

\* Revoke: any known device but this node.
Revoke(d) ==
    /\ d # Local
    /\ device[d].key # NoKey
    /\ StoreRevocation(d)
    /\ UNCHANGED <<clock, invites, accepted, listener, sessions>>

\* Authorize and authorizeShareTx: a row, a trusted device, the capability, the network.
Authorized(d, s, capability, remote) ==
    /\ Trusted(d)
    /\ capability \in permission[d][s].caps
    /\ ~(remote /\ permission[d][s].lan)

-----------------------------------------------------------------------------
(* Sessions (transport/tcp)                                                *)

\* IdentityTLSConfig: one self-signed certificate for as long as the listener runs.
Listen ==
    /\ listener = Never
    /\ listener' = clock
    /\ UNCHANGED <<clock, device, permission, grant, invites, accepted, audit, sessions>>

\* A certificate made at time t is valid at time now.
CertificateValid(t, now) == t - Skew <= now /\ now < t + CertLife

\* VerifyPeerIdentity: the device the key belongs to is trusted under this very key.
VerifyPeerIdentity(k) == Trusted(IdOf[k]) /\ device[IdOf[k]].key = k

\* verifyPeerConnection on both sides and session.authenticate; the outcome is kept.
\* The peer's certificate was made at some time until now, by the peer's clock.
Handshake(k) ==
    /\ listener # Never
    /\ k \notin sessions
    /\ \E made \in 0 .. clock : CertificateValid(made + Ahead[k], clock)
    /\ CertificateValid(listener, ClockOf(k))
    /\ VerifyPeerIdentity(k)
    /\ sessions' = sessions \cup {k}
    /\ UNCHANGED <<clock, device, permission, grant, invites, accepted, audit, listener>>

\* Closing the listener leaves accepted sessions open.
CloseListener ==
    /\ listener # Never
    /\ listener' = Never
    /\ UNCHANGED <<clock, device, permission, grant, invites, accepted, audit, sessions>>

CloseSession(k) ==
    /\ k \in sessions
    /\ sessions' = sessions \ {k}
    /\ UNCHANGED <<clock, device, permission, grant, invites, accepted, audit, listener>>

Tick(until) ==
    /\ clock < until
    /\ clock' = clock + 1
    /\ UNCHANGED <<device, permission, grant, invites, accepted, audit, listener, sessions>>

-----------------------------------------------------------------------------
(* What the audit log says of a device.                                    *)

Told(log, d) == SelectSeq(log, LAMBDA e : e.peer = d /\ e.name \in {"accepted", "revoked"})

TrustedBy(log, d) == LET told == Told(log, d) IN told # <<>> /\ told[Len(told)].name = "accepted"

\* The acceptances of d since its last revocation.
Standing(log, d) ==
    LET told == Told(log, d) IN
    {told[e] : e \in {n \in 1..Len(told) : \A later \in n..Len(told) : told[later].name = "accepted"}}

\* The permission the log's standing acceptances give d on share s.
Granted(log, d, s) ==
    LET naming == SelectSeq(Told(log, d), LAMBDA e : e.name = "revoked" \/ s \in DOMAIN e.shares) IN
    IF naming = <<>> \/ naming[Len(naming)].name = "revoked" THEN NoPermission ELSE naming[Len(naming)].shares[s]
=============================================================================
