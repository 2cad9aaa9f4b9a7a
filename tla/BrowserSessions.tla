-------------------------- MODULE BrowserSessions --------------------------
(***************************************************************************)
(* Browser sessions of the local control plane                             *)
(* (internal/api/{browser_session,control_plane,server}.go).               *)
(*                                                                         *)
(* The authenticated CLI asks for a bootstrap ticket, a browser exchanges  *)
(* it for a session, and requests are admitted by the session's cookie and *)
(* its CSRF token.  Requests run concurrently: each one reads the clock    *)
(* before it takes the manager's lock, and an exchange takes the lock      *)
(* twice.  Tickets and sessions live in memory only.  A token is the       *)
(* number of the random value it was made from.                            *)
(***************************************************************************)
EXTENDS Integers, Sequences, FiniteSets

CONSTANTS
    Calls,              \* requests that can be in the server at once
    TicketTTL,          \* browserBootstrapTTL
    SessionTTL,         \* browserSessionTTL
    MaxTickets,         \* maxBrowserBootstraps
    MaxWebSessions      \* maxBrowserSessions

VARIABLES
    tickets,            \* the manager's tickets
    web,                \* the manager's sessions
    call,               \* for each request slot the request in it
    randoms,            \* random values drawn so far
    opened,             \* the ticket each session was opened with, over all restarts
    draining            \* the server is shutting down

webVars == <<tickets, web, call, randoms, opened, draining>>

\* "arg" is the ticket or the session a request carries, "since" when its session's ticket was issued.
NoCall == [kind |-> "none", pc |-> "idle", now |-> 0, arg |-> 0, csrf |-> 0, since |-> 0]

WebInit ==
    /\ tickets = {} /\ web = {}
    /\ call = [c \in Calls |-> NoCall]
    /\ randoms = 0 /\ opened = <<>>
    /\ draining = FALSE

\* serveHTTP takes a request: a kind of route, with the token and the CSRF header it carries.
Ask(c, kind, arg, csrf, now) ==
    /\ call[c].pc = "idle" /\ ~draining
    /\ call' = [call EXCEPT ![c] = [kind |-> kind, pc |-> "lock", now |-> now, arg |-> arg, csrf |-> csrf, since |-> 0]]
    /\ UNCHANGED <<tickets, web, randoms, opened, draining>>

\* pruneLocked
LiveTickets(now) == {t \in tickets : t.expires > now}

LiveSessions(now) == {s \in web : s.expires > now}

Answer(c) == call' = [call EXCEPT ![c] = NoCall]

\* Issue's critical section
IssueLocked(c) ==
    /\ call[c].pc = "lock" /\ call[c].kind = "issue"
    /\ LET now == call[c].now
           room == Cardinality(LiveTickets(now)) < MaxTickets IN
       /\ web' = LiveSessions(now)
       /\ tickets' = LiveTickets(now) \cup
            (IF room THEN {[id |-> randoms + 1, issued |-> now, expires |-> now + TicketTTL]} ELSE {})
       /\ randoms' = randoms + 1
    /\ Answer(c)
    /\ UNCHANGED <<opened, draining>>

\* Exchange takes the ticket out before it draws the session's tokens.
RemainingTickets(now, id) == {t \in LiveTickets(now) : t.id # id}

Held(now, id) == {t \in LiveTickets(now) : t.id = id}

ExchangeTake(c) ==
    /\ call[c].pc = "lock" /\ call[c].kind = "exchange"
    /\ LET now == call[c].now
           held == Held(now, call[c].arg) IN
       /\ web' = LiveSessions(now)
       /\ IF held # {} /\ Cardinality(LiveSessions(now)) < MaxWebSessions
          THEN /\ tickets' = RemainingTickets(now, call[c].arg)
               /\ call' = [call EXCEPT ![c].pc = "store", ![c].since = (CHOOSE t \in held : TRUE).issued]
          ELSE tickets' = LiveTickets(now) /\ Answer(c)
    /\ UNCHANGED <<randoms, opened, draining>>

RoomAgain(now) == Cardinality(LiveSessions(now)) < MaxWebSessions

\* The second critical section still uses the first one's clock; without room the ticket is lost.
ExchangeStore(c) ==
    /\ call[c].pc = "store"
    /\ LET now == call[c].now IN
       /\ tickets' = LiveTickets(now)
       /\ IF RoomAgain(now)
          THEN /\ web' = LiveSessions(now) \cup {[id |-> Len(opened) + 1, csrf |-> randoms + 1,
                                                 since |-> call[c].since, expires |-> now + SessionTTL]}
               /\ opened' = Append(opened, call[c].arg)
          ELSE web' = LiveSessions(now) /\ UNCHANGED opened
       /\ randoms' = randoms + 1
    /\ Answer(c)
    /\ UNCHANGED draining

Found(now, id) == {s \in LiveSessions(now) : s.id = id}

\* Authenticate's lookup; a read goes on to rotate, a post to compare, with the clock read again.
Authenticate(c, now) ==
    /\ call[c].pc = "lock" /\ call[c].kind \in {"read", "get", "post"}
    /\ LET found == Found(call[c].now, call[c].arg) IN
       /\ tickets' = LiveTickets(call[c].now) /\ web' = LiveSessions(call[c].now)
       /\ IF found = {} THEN Answer(c)
          ELSE call' = [call EXCEPT ![c].since = (CHOOSE s \in found : TRUE).since,
                                    ![c].pc = IF call[c].kind = "get" THEN "admitted" ELSE call[c].kind,
                                    ![c].now = IF call[c].kind = "get" THEN @ ELSE now]
    /\ UNCHANGED <<randoms, opened, draining>>

\* Mutant: a rotation prolongs the session.
Prolonged(s, now, token) == [s EXCEPT !.csrf = token, !.expires = now + SessionTTL]

Rotated(s, now, token) == [s EXCEPT !.csrf = token]

\* RotateCSRF looks the session up, reads the clock again
RotateFind(c, now) ==
    /\ call[c].pc = "read"
    /\ tickets' = LiveTickets(call[c].now) /\ web' = LiveSessions(call[c].now)
    /\ IF Found(call[c].now, call[c].arg) = {} THEN Answer(c)
       ELSE call' = [call EXCEPT ![c].pc = "rotate", ![c].now = now]
    /\ UNCHANGED <<randoms, opened, draining>>

\* and replaces the token in a second critical section.
RotateCSRF(c) ==
    /\ call[c].pc = "rotate"
    /\ LET now == call[c].now
           found == Found(now, call[c].arg) IN
       /\ tickets' = LiveTickets(now)
       /\ web' = (LiveSessions(now) \ found) \cup {Rotated(s, now, randoms + 1) : s \in found}
       /\ randoms' = randoms + 1
       /\ IF found = {} THEN Answer(c) ELSE call' = [call EXCEPT ![c].pc = "admitted"]
    /\ UNCHANGED <<opened, draining>>

ValidateCSRF(c) ==
    /\ call[c].pc = "post"
    /\ LET now == call[c].now
           found == {s \in Found(now, call[c].arg) : s.csrf = call[c].csrf} IN
       /\ tickets' = LiveTickets(now) /\ web' = LiveSessions(now)
       /\ IF found = {} THEN Answer(c) ELSE call' = [call EXCEPT ![c].pc = "admitted"]
    /\ UNCHANGED <<randoms, opened, draining>>

\* The handler answers an admitted request.
Handled(c) ==
    /\ call[c].pc = "admitted"
    /\ Answer(c)
    /\ UNCHANGED <<tickets, web, randoms, opened, draining>>

\* Shutdown lets the requests in the server finish.
DrainServer ==
    /\ ~draining
    /\ draining' = TRUE
    /\ UNCHANGED <<tickets, web, call, randoms, opened>>

\* The next daemon starts with an empty manager.
RestartServer ==
    /\ draining
    /\ tickets' = {} /\ web' = {}
    /\ call' = [c \in Calls |-> NoCall]
    /\ draining' = FALSE
    /\ UNCHANGED <<randoms, opened>>

WebStep(c, now) ==
    \/ IssueLocked(c) \/ ExchangeTake(c) \/ ExchangeStore(c)
    \/ Authenticate(c, now) \/ RotateFind(c, now) \/ RotateCSRF(c) \/ ValidateCSRF(c) \/ Handled(c)
=============================================================================
