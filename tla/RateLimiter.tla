----------------------------- MODULE RateLimiter -----------------------------
(***************************************************************************)
(* The rate limiter in front of both webhook endpoints                     *)
(* (pkg/ratelimiter, and rateLimitMiddleware in                            *)
(* server/promotion_server.go).  A client's first request opens an entry   *)
(* that counts its requests; a cleaner deletes entries that have got older *)
(* than Duration, every Period.                                            *)
(*                                                                         *)
(* Time is counted in ticks.  The cleaner runs in the tick it is due in,   *)
(* before or after the requests of that tick.                              *)
(***************************************************************************)
EXTENDS Integers, FiniteSets

CONSTANTS
    Client,   \* keys: the addresses requests come from
    Limit,    \* Limiter.Limit
    Duration, \* Limiter.Duration, in ticks
    Period,   \* the cleaner's ticker, in ticks
    MaxTime   \* bound on the time of a behaviour

ASSUME RateLimiterAssumption ==
    /\ Limit \in Nat
    /\ Duration \in Nat \ {0}
    /\ Period \in Nat \ {0}
    /\ MaxTime \in Nat

VARIABLES
    now,      \* the time
    limits,   \* client -> its entry; live: is it in the map?
    due,      \* when the cleaner's ticker fires next
    stopped,  \* has Shutdown stopped the ticker?
    windows,  \* history: client -> number of entries it has had
    accepted  \* history: the requests that were let through: by whom, in
              \* which of the client's entries, as which hit, and when

vars == <<now, limits, due, stopped, windows, accepted>>

NoEntry == [live |-> FALSE, created |-> 0, hits |-> 0]

Init ==
    /\ now = 0
    /\ limits = [c \in Client |-> NoEntry]
    /\ due = Period
    /\ stopped = FALSE
    /\ windows = [c \in Client |-> 0]
    /\ accepted = {}

\* The entry that Hit counts in: the client's, or a new one.  The count stops
\* at Limit + 1, from where on all are refused.
Counted(c) ==
    LET entry == IF limits[c].live THEN limits[c]
                 ELSE [live |-> TRUE, created |-> now, hits |-> 0]
    IN  [entry EXCEPT !.hits = IF entry.hits > Limit THEN entry.hits ELSE entry.hits + 1]

Window(c) == IF limits[c].live THEN windows[c] ELSE windows[c] + 1

Hit_OffByOne(c) ==
    /\ limits' = [limits EXCEPT ![c] = Counted(c)]
    /\ windows' = [windows EXCEPT ![c] = Window(c)]
    /\ accepted' = accepted \cup
          {[client |-> c, window |-> Window(c), hit |-> Counted(c).hits, time |-> now]}
    /\ UNCHANGED <<now, due, stopped>>

\* Limiter.Hit, and what the middleware makes of it: 429 or on to the handler.
Hit(c) ==
    /\ limits' = [limits EXCEPT ![c] = Counted(c)]
    /\ windows' = [windows EXCEPT ![c] = Window(c)]
    /\ accepted' = IF Counted(c).hits > Limit THEN accepted
                   ELSE accepted \cup {[client |-> c, window |-> Window(c),
                                        hit |-> Counted(c).hits, time |-> now]}
    /\ UNCHANGED <<now, due, stopped>>

Expired_TooEarly(entry) == entry.live /\ entry.created + Duration <= now + 1

Expired_TooLate(entry) == entry.live /\ entry.created + 2 * Duration < now

\* value.Created.Before(base)
Expired(entry) == entry.live /\ entry.created < now - Duration

Clean ==
    /\ ~stopped
    /\ now = due
    /\ due' = now + Period
    /\ limits' = [c \in Client |-> IF Expired(limits[c]) THEN NoEntry ELSE limits[c]]
    /\ UNCHANGED <<now, stopped, windows, accepted>>

\* Limiter.Shutdown
Shutdown ==
    /\ ~stopped
    /\ stopped' = TRUE
    /\ UNCHANGED <<now, limits, due, windows, accepted>>

Tick ==
    /\ now < MaxTime
    /\ now < due \/ stopped
    /\ now' = now + 1
    /\ UNCHANGED <<limits, due, stopped, windows, accepted>>

Next == (\E c \in Client : Hit(c)) \/ Clean \/ Shutdown \/ Tick

Spec == Init /\ [][Next]_vars

-----------------------------------------------------------------------------

Entry == [live : BOOLEAN, created : Nat, hits : 0..(Limit + 1)]
Request == [client : Client, window : Nat, hit : 1..Limit, time : Nat]

\* Every variable has the shape the code gives it.
TypeOK ==
    /\ now \in 0..MaxTime
    /\ limits \in [Client -> Entry]
    /\ due \in Nat
    /\ stopped \in BOOLEAN
    /\ windows \in [Client -> Nat]
    /\ accepted \subseteq Request

\* the requests of client c let through in the Duration that begins at t
During(c, t) ==
    {a \in accepted : a.client = c /\ t <= a.time /\ a.time <= t + Duration}

\* No interval of length Duration sees more than twice Limit requests of a
\* client let through: an interval meets at most two of its entries, since an
\* entry is only deleted when it is older than Duration (Hit, cleaner).
AtMostTwiceLimit ==
    \A c \in Client : \A t \in 0..now : Cardinality(During(c, t)) <= 2 * Limit

\* A client that is refused is not refused for long: as long as the cleaner
\* runs, no entry gets older than Duration and one Period (cleaner).
EntriesExpire ==
    ~stopped => \A c \in Client :
        limits[c].live => now - limits[c].created <= Duration + Period

=============================================================================
