-------------------------- MODULE RateLimiterProofs --------------------------
(***************************************************************************)
(* Proofs about the rate limiter, for any clients, Limit, Duration and     *)
(* Period.                                                                 *)
(***************************************************************************)
EXTENDS RateLimiter, FiniteSetTheorems, TLAPS

-----------------------------------------------------------------------------
(***************************************************************************)
(* Types.                                                                  *)
(***************************************************************************)

\* The entry Hit counts in: the client's own or a new one, one hit later, with
\* the count stopping past Limit.
LEMMA CountedFacts ==
    ASSUME TypeOK, NEW c \in Client
    PROVE  /\ Counted(c) \in Entry
           /\ Counted(c).live
           /\ limits[c].live =>
                 /\ Counted(c).created = limits[c].created
                 /\ Counted(c).hits >= limits[c].hits
                 /\ Counted(c).hits <= Limit => Counted(c).hits = limits[c].hits + 1
           /\ ~limits[c].live => Counted(c).created = now
           /\ Counted(c).hits >= 1
<1> DEFINE entry == IF limits[c].live THEN limits[c]
                    ELSE [live |-> TRUE, created |-> now, hits |-> 0]
<1>1. entry \in Entry /\ entry.live
  BY RateLimiterAssumption DEF TypeOK, Entry
<1>2. /\ limits[c].live => entry = limits[c]
      /\ ~limits[c].live => entry.created = now
  OBVIOUS
<1>3. Counted(c) = [entry EXCEPT !.hits = IF entry.hits > Limit THEN entry.hits
                                          ELSE entry.hits + 1]
  BY DEF Counted
<1> HIDE DEF entry
<1>4. Counted(c) = [live |-> entry.live, created |-> entry.created,
                    hits |-> IF entry.hits > Limit THEN entry.hits ELSE entry.hits + 1]
  BY <1>1, <1>3 DEF Entry
<1>5. entry.hits \in 0..(Limit + 1) /\ Limit \in Nat /\ entry.created \in Nat
  BY <1>1, RateLimiterAssumption DEF Entry
<1>6. Counted(c).hits \in 1..(Limit + 1) /\ Counted(c).hits >= entry.hits
      /\ (Counted(c).hits <= Limit => Counted(c).hits = entry.hits + 1)
  BY <1>4, <1>5
<1>7. Counted(c) \in Entry /\ Counted(c).live /\ Counted(c).created = entry.created
  BY <1>1, <1>4, <1>5, <1>6 DEF Entry
<1> QED BY <1>2, <1>5, <1>6, <1>7

\* The entry of the client after a Hit, and of the others.
LEMMA HitFacts ==
    ASSUME TypeOK, NEW c \in Client, Hit(c)
    PROVE  /\ limits' \in [Client -> Entry]
           /\ windows' \in [Client -> Nat]
           /\ limits'[c] = Counted(c) /\ windows'[c] = Window(c)
           /\ Window(c) \in Nat
           /\ \A d \in Client : d # c => limits'[d] = limits[d] /\ windows'[d] = windows[d]
<1>1. Counted(c) \in Entry
  BY CountedFacts
<1>2. Window(c) \in Nat
  BY DEF Window, TypeOK
<1> QED BY <1>1, <1>2 DEF Hit, TypeOK

\* Every variable has the shape the code gives it: the count stays within Limit
\* and one, and only the first Limit hits of an entry are let through.
THEOREM TypeCorrect == Spec => []TypeOK
<1>1. Init => TypeOK
  <2>1. NoEntry \in Entry
    BY RateLimiterAssumption DEF NoEntry, Entry
  <2>2. ASSUME Init PROVE limits \in [Client -> Entry] /\ windows \in [Client -> Nat]
    BY <2>1, <2>2 DEF Init
  <2>3. ASSUME Init PROVE now \in 0..MaxTime /\ due \in Nat
    BY <2>3, RateLimiterAssumption DEF Init
  <2>4. ASSUME Init PROVE stopped \in BOOLEAN /\ accepted \subseteq Request
    BY <2>4 DEF Init
  <2> QED BY <2>2, <2>3, <2>4 DEF TypeOK
<1>2. TypeOK /\ [Next]_vars => TypeOK'
  <2> SUFFICES ASSUME TypeOK, [Next]_vars PROVE TypeOK'
    OBVIOUS
  <2>1. ASSUME NEW c \in Client, Hit(c) PROVE TypeOK'
    <3> DEFINE new == [client |-> c, window |-> Window(c),
                       hit |-> Counted(c).hits, time |-> now]
    <3>1. limits' \in [Client -> Entry] /\ windows' \in [Client -> Nat] /\ Window(c) \in Nat
      BY <2>1, HitFacts
    <3>2. Counted(c).hits \in 1..(Limit + 1)
      BY CountedFacts DEF Entry
    <3>3. Counted(c).hits <= Limit => new \in Request
      BY <3>1, <3>2, RateLimiterAssumption DEF Request, TypeOK
    <3>4. accepted' \subseteq Request
      <4>1. CASE Counted(c).hits > Limit
        BY <2>1, <4>1 DEF Hit, TypeOK
      <4>2. CASE ~(Counted(c).hits > Limit)
        <5>1. accepted' = accepted \cup {new}
          BY <2>1, <4>2 DEF Hit
        <5>2. Counted(c).hits <= Limit
          BY <3>2, <4>2, RateLimiterAssumption
        <5> HIDE DEF new
        <5> QED BY <3>3, <5>1, <5>2 DEF TypeOK
      <4> QED BY <4>1, <4>2
    <3> QED BY <2>1, <3>1, <3>4 DEF Hit, TypeOK
  <2>2. CASE Clean
    <3>1. limits' \in [Client -> Entry]
      BY <2>2, RateLimiterAssumption DEF Clean, TypeOK, NoEntry, Entry
    <3> QED BY <2>2, <3>1, RateLimiterAssumption DEF Clean, TypeOK
  <2>3. CASE Shutdown
    BY <2>3 DEF Shutdown, TypeOK
  <2>4. CASE Tick
    BY <2>4, RateLimiterAssumption DEF Tick, TypeOK
  <2>5. CASE UNCHANGED vars
    BY <2>5 DEF vars, TypeOK
  <2> QED BY <2>1, <2>2, <2>3, <2>4, <2>5 DEF Next
<1> QED BY <1>1, <1>2, PTL DEF Spec

-----------------------------------------------------------------------------
(***************************************************************************)
(* Entries expire.                                                         *)
(***************************************************************************)

\* The cleaner is never late and never more than a Period away, and no entry is
\* older than Duration when it has just run.
CleanerInv ==
    /\ due <= now + Period
    /\ ~stopped => now <= due
    /\ \A c \in Client : limits[c].live =>
          /\ limits[c].created <= now
          /\ ~stopped => due <= limits[c].created + Duration + Period

\* As long as the cleaner runs, no entry gets older than Duration and Period,
\* so that no client is refused for longer (cleaner).
THEOREM EntriesDoExpire == Spec => []EntriesExpire
<1>0. Duration \in Nat /\ Period \in Nat /\ MaxTime \in Nat
  BY RateLimiterAssumption
<1>1. Init => CleanerInv
  BY <1>0 DEF Init, CleanerInv, NoEntry
<1>2. TypeOK /\ CleanerInv /\ [Next]_vars => CleanerInv'
  <2> SUFFICES ASSUME TypeOK, CleanerInv, [Next]_vars PROVE CleanerInv'
    OBVIOUS
  <2>0. /\ now \in Nat /\ due \in Nat /\ stopped \in BOOLEAN
        /\ \A c \in Client : limits[c].created \in Nat
    BY <1>0 DEF TypeOK, Entry
  <2>1. ASSUME NEW c \in Client, Hit(c) PROVE CleanerInv'
    <3>1. /\ limits'[c] = Counted(c)
          /\ \A d \in Client : d # c => limits'[d] = limits[d]
      BY <2>1, HitFacts
    <3>2. /\ limits[c].live => Counted(c).created = limits[c].created
          /\ ~limits[c].live => Counted(c).created = now
      BY CountedFacts
    <3>3. now' = now /\ due' = due /\ stopped' = stopped
      BY <2>1 DEF Hit
    <3>4. \A d \in Client : limits'[d].live =>
             /\ limits'[d].created <= now
             /\ ~stopped => due <= limits'[d].created + Duration + Period
      BY <1>0, <2>0, <3>1, <3>2 DEF CleanerInv
    <3> QED BY <3>3, <3>4 DEF CleanerInv
  <2>2. CASE Clean
    <3>1. \A d \in Client : limits'[d].live =>
             limits'[d].created = limits[d].created /\ ~Expired(limits[d]) /\ limits[d].live
      BY <2>2 DEF Clean, NoEntry
    <3>2. now' = now /\ due' = now + Period /\ stopped' = stopped
      BY <2>2 DEF Clean
    <3> QED BY <1>0, <2>0, <3>1, <3>2 DEF CleanerInv, Expired
  <2>3. CASE Shutdown
    BY <2>3 DEF Shutdown, CleanerInv
  <2>4. CASE Tick
    BY <1>0, <2>0, <2>4 DEF Tick, CleanerInv
  <2>5. CASE UNCHANGED vars
    BY <2>5 DEF vars, CleanerInv
  <2> QED BY <2>1, <2>2, <2>3, <2>4, <2>5 DEF Next
<1>3. TypeOK /\ CleanerInv => EntriesExpire
  <2> SUFFICES ASSUME TypeOK, CleanerInv, ~stopped, NEW c \in Client, limits[c].live
               PROVE  now - limits[c].created <= Duration + Period
    BY DEF EntriesExpire
  <2>1. now \in Nat /\ due \in Nat /\ limits[c].created \in Nat
    BY <1>0 DEF TypeOK, Entry
  <2>2. now <= due /\ due <= limits[c].created + Duration + Period
    BY DEF CleanerInv
  <2> QED BY <1>0, <2>1, <2>2
<1> QED BY <1>1, <1>2, <1>3, TypeCorrect, PTL DEF Spec

-----------------------------------------------------------------------------
(***************************************************************************)
(* At most twice Limit.  A client's entries are numbered.  An entry is     *)
(* only deleted when it is older than Duration, so that requests let       *)
(* through in the one before it and in the one after it are further apart  *)
(* than that.                                                              *)
(***************************************************************************)

\* The requests let through so far, and the entries they were counted in.
Numbered ==
    /\ \A a \in accepted : a.window <= windows[a.client] /\ a.time <= now
    /\ \A c \in Client : limits[c].live => limits[c].created <= now
    /\ \A a \in accepted : limits[a.client].live /\ a.window = windows[a.client] =>
          a.hit <= limits[a.client].hits

\* A request of an earlier entry is older than the client's entry, and older
\* than that by Duration if yet another entry lies between; without an entry it
\* is older than Duration by now.
Apart ==
    /\ \A a \in accepted : limits[a.client].live /\ a.window < windows[a.client] =>
          a.time <= limits[a.client].created
    /\ \A a \in accepted : ~limits[a.client].live /\ a.window < windows[a.client] =>
          a.time + Duration < now
    /\ \A a \in accepted : limits[a.client].live /\ a.window + 1 < windows[a.client] =>
          a.time + Duration < limits[a.client].created

\* Two requests of entries that are not next to each other are further apart
\* than Duration, and no two are the same hit of the same entry.
Spread ==
    \A a, b \in accepted : a.client = b.client =>
          /\ a.window + 1 < b.window => a.time + Duration < b.time
          /\ a.window = b.window /\ a.hit = b.hit => a = b

WindowInv == Numbered /\ Apart /\ Spread

\* The invariant holds at the start.
LEMMA WindowInit == Init => WindowInv
BY DEF Init, WindowInv, Numbered, Apart, Spread, NoEntry

\* A request that is let through, or refused.
LEMMA WindowHit ==
    ASSUME TypeOK, WindowInv, NEW c \in Client, Hit(c)
    PROVE  WindowInv'
<1> DEFINE new == [client |-> c, window |-> Window(c),
                   hit |-> Counted(c).hits, time |-> now]
<1>0. /\ Duration \in Nat /\ Limit \in Nat /\ now \in Nat
      /\ \A d \in Client : /\ limits[d].created \in Nat /\ limits[d].hits \in Nat
                           /\ limits[d].live \in BOOLEAN /\ windows[d] \in Nat
      /\ \A a \in accepted : /\ a.client \in Client /\ a.window \in Nat
                             /\ a.hit \in Nat /\ a.time \in Nat
  BY RateLimiterAssumption DEF TypeOK, Entry, Request
<1>1. /\ limits'[c] = Counted(c) /\ windows'[c] = Window(c)
      /\ \A d \in Client : d # c => limits'[d] = limits[d] /\ windows'[d] = windows[d]
  BY HitFacts
<1>2. /\ Counted(c).live
      /\ Counted(c).hits \in Nat /\ Counted(c).created \in Nat
      /\ limits[c].live =>
            /\ Counted(c).created = limits[c].created
            /\ Counted(c).hits >= limits[c].hits
            /\ Counted(c).hits <= Limit => Counted(c).hits = limits[c].hits + 1
      /\ ~limits[c].live => Counted(c).created = now
  BY <1>0, CountedFacts DEF Entry
<1>3. now' = now
  BY DEF Hit
<1>4. Window(c) = IF limits[c].live THEN windows[c] ELSE windows[c] + 1
  BY DEF Window
<1>5. /\ new.client = c /\ new.window = Window(c)
      /\ new.hit = Counted(c).hits /\ new.time = now
  OBVIOUS
<1>6. \/ accepted' = accepted
      \/ accepted' = accepted \cup {new} /\ new.hit <= Limit
  BY <1>0, <1>2 DEF Hit
<1> HIDE DEF new
<1> USE DEF WindowInv
\* what held of the requests before the Hit holds after it
<1>7. ASSUME NEW a \in accepted
      PROVE  /\ a.window <= windows'[a.client] /\ a.time <= now
             /\ limits'[a.client].live /\ a.window = windows'[a.client] =>
                   a.hit <= limits'[a.client].hits
             /\ limits'[a.client].live /\ a.window < windows'[a.client] =>
                   a.time <= limits'[a.client].created
             /\ ~limits'[a.client].live /\ a.window < windows'[a.client] =>
                   a.time + Duration < now
             /\ limits'[a.client].live /\ a.window + 1 < windows'[a.client] =>
                   a.time + Duration < limits'[a.client].created
  <2>0. /\ a.client \in Client /\ a.window \in Nat /\ a.hit \in Nat /\ a.time \in Nat
        /\ a.window <= windows[a.client] /\ a.time <= now
    BY <1>0, <1>7 DEF Numbered
  <2>1. CASE a.client # c
    <3>1. limits'[a.client] = limits[a.client] /\ windows'[a.client] = windows[a.client]
      BY <1>1, <2>0, <2>1
    <3> QED BY <1>7, <3>1 DEF Numbered, Apart
  <2>2. CASE a.client = c /\ limits[c].live
    <3>1. windows'[c] = windows[c]
      BY <1>1, <1>4, <2>2
    <3>2. limits'[c].live /\ limits'[c].created = limits[c].created
          /\ limits'[c].hits >= limits[c].hits /\ limits'[c].hits \in Nat
      BY <1>1, <1>2, <2>2
    <3>3. /\ a.window = windows[c] => a.hit <= limits[c].hits
          /\ a.window < windows[c] => a.time <= limits[c].created
          /\ a.window + 1 < windows[c] => a.time + Duration < limits[c].created
      BY <1>7, <2>2 DEF Numbered, Apart
    <3> QED BY <1>0, <2>0, <2>2, <3>1, <3>2, <3>3
  <2>3. CASE a.client = c /\ ~limits[c].live
    <3>1. windows'[c] = windows[c] + 1 /\ limits'[c].live /\ limits'[c].created = now
      BY <1>1, <1>2, <1>4, <2>3
    <3>2. a.window < windows[c] => a.time + Duration < now
      BY <1>7, <2>3 DEF Apart
    <3> QED BY <1>0, <2>0, <2>3, <3>1, <3>2
  <2> QED BY <2>1, <2>2, <2>3
<1>8. \A d \in Client : limits'[d].live => limits'[d].created <= now
  BY <1>0, <1>1, <1>2 DEF Numbered
\* how the new request compares with the others of its client
<1>9. ASSUME NEW a \in accepted, a.client = c, new.hit <= Limit
      PROVE  /\ a.window <= new.window
             /\ a.window + 1 < new.window => a.time + Duration < new.time
             /\ ~(a.window = new.window /\ a.hit = new.hit)
  <2>0. /\ a.window \in Nat /\ a.hit \in Nat /\ a.time \in Nat
        /\ a.window <= windows[c]
    BY <1>0, <1>9 DEF Numbered
  <2>1. CASE limits[c].live
    <3>1. /\ new.window = windows[c] /\ new.hit = limits[c].hits + 1
          /\ limits[c].created <= now
      BY <1>2, <1>4, <1>5, <1>9, <2>1 DEF Numbered
    <3>2. /\ a.window = windows[c] => a.hit <= limits[c].hits
          /\ a.window + 1 < windows[c] => a.time + Duration < limits[c].created
      BY <1>9, <2>1 DEF Numbered, Apart
    <3> QED BY <1>0, <1>5, <2>0, <3>1, <3>2
  <2>2. CASE ~limits[c].live
    <3>1. new.window = windows[c] + 1
      BY <1>4, <1>5, <2>2
    <3>2. a.window < windows[c] => a.time + Duration < now
      BY <1>9, <2>2 DEF Apart
    <3> QED BY <1>0, <1>5, <2>0, <3>1, <3>2
  <2> QED BY <2>1, <2>2
<1>10. CASE accepted' = accepted
  BY <1>3, <1>7, <1>8, <1>10 DEF Numbered, Apart, Spread
<1>11. CASE accepted' = accepted \cup {new} /\ new.hit <= Limit
  <2>0. /\ Window(c) \in Nat /\ new.window \in Nat /\ new.hit \in Nat /\ new.time \in Nat
        /\ windows'[c] = new.window /\ limits'[c].hits = new.hit
        /\ limits'[c].live /\ limits'[c].created \in Nat
    BY <1>0, <1>1, <1>2, <1>4, <1>5
  <2>1. Numbered'
    BY <1>0, <1>3, <1>5, <1>7, <1>8, <1>11, <2>0 DEF Numbered
  <2>2. Apart'
    <3>1. ASSUME NEW a \in accepted'
          PROVE  /\ limits'[a.client].live /\ a.window < windows'[a.client] =>
                       a.time <= limits'[a.client].created
                 /\ ~limits'[a.client].live /\ a.window < windows'[a.client] =>
                       a.time + Duration < now
                 /\ limits'[a.client].live /\ a.window + 1 < windows'[a.client] =>
                       a.time + Duration < limits'[a.client].created
      <4>1. CASE a \in accepted
        BY <1>7, <4>1
      <4>2. CASE a = new
        BY <1>5, <2>0, <4>2
      <4> QED BY <1>11, <3>1, <4>1, <4>2
    <3> QED BY <1>3, <3>1 DEF Apart
  <2>3. Spread'
    <3>1. ASSUME NEW a \in accepted', NEW b \in accepted', a.client = b.client
          PROVE  /\ a.window + 1 < b.window => a.time + Duration < b.time
                 /\ a.window = b.window /\ a.hit = b.hit => a = b
      <4>1. CASE a \in accepted /\ b \in accepted
        BY <3>1, <4>1 DEF Spread
      <4>2. CASE a \in accepted /\ b = new
        BY <1>5, <1>9, <1>11, <3>1, <4>2
      <4>3. CASE a = new /\ b \in accepted
        <5>1. b.window <= new.window /\ ~(b.window = new.window /\ b.hit = new.hit)
          BY <1>5, <1>9, <1>11, <3>1, <4>3
        <5>2. b.window \in Nat
          BY <1>0, <4>3
        <5> QED BY <2>0, <4>3, <5>1, <5>2
      <4>4. CASE a = new /\ b = new
        BY <2>0, <4>4
      <4> QED BY <1>11, <3>1, <4>1, <4>2, <4>3, <4>4
    <3> QED BY <3>1 DEF Spread
  <2> QED BY <2>1, <2>2, <2>3
<1> QED BY <1>6, <1>10, <1>11

\* An entry is deleted: it was older than Duration (cleaner).
LEMMA WindowClean ==
    ASSUME TypeOK, WindowInv, Clean
    PROVE  WindowInv'
<1>0. /\ Duration \in Nat /\ now \in Nat
      /\ \A d \in Client : /\ limits[d].created \in Nat /\ limits[d].hits \in Nat
                           /\ limits[d].live \in BOOLEAN /\ windows[d] \in Nat
      /\ \A a \in accepted : /\ a.client \in Client /\ a.window \in Nat
                             /\ a.hit \in Nat /\ a.time \in Nat
  BY RateLimiterAssumption DEF TypeOK, Entry, Request
<1>1. now' = now /\ windows' = windows /\ accepted' = accepted
  BY DEF Clean
<1>2. ASSUME NEW d \in Client
      PROVE  \/ limits'[d] = limits[d]
             \/ /\ ~limits'[d].live
                /\ limits[d].live
                /\ limits[d].created + Duration < now
  BY <1>0, <1>2 DEF Clean, Expired, NoEntry
<1> USE DEF WindowInv
<1>3. Numbered'
  BY <1>0, <1>1, <1>2 DEF Numbered
<1>4. Apart'
  <2>1. ASSUME NEW a \in accepted
        PROVE  /\ limits'[a.client].live /\ a.window < windows[a.client] =>
                     a.time <= limits'[a.client].created
               /\ ~limits'[a.client].live /\ a.window < windows[a.client] =>
                     a.time + Duration < now
               /\ limits'[a.client].live /\ a.window + 1 < windows[a.client] =>
                     a.time + Duration < limits'[a.client].created
    <3>1. a.client \in Client /\ a.time \in Nat
      BY <1>0, <2>1
    <3>2. CASE limits'[a.client] = limits[a.client]
      BY <2>1, <3>2 DEF Apart
    <3>3. CASE /\ ~limits'[a.client].live
               /\ limits[a.client].live
               /\ limits[a.client].created + Duration < now
      BY <1>0, <2>1, <3>1, <3>3 DEF Apart
    <3> QED BY <1>2, <3>1, <3>2, <3>3
  <2> QED BY <1>1, <2>1 DEF Apart
<1>5. Spread'
  BY <1>1 DEF Spread
<1> QED BY <1>3, <1>4, <1>5

\* Every step keeps the invariant.
LEMMA WindowStep ==
    ASSUME TypeOK, WindowInv, [Next]_vars
    PROVE  WindowInv'
<1>1. CASE Shutdown \/ UNCHANGED vars
  BY <1>1 DEF Shutdown, vars, WindowInv, Numbered, Apart, Spread
<1>2. CASE Tick
  <2>0. /\ now \in Nat /\ Duration \in Nat /\ now' = now + 1
        /\ \A d \in Client : limits[d].created \in Nat
        /\ \A a \in accepted : a.time \in Nat /\ a.client \in Client
    BY <1>2, RateLimiterAssumption DEF Tick, TypeOK, Entry, Request
  <2> QED BY <1>2, <2>0 DEF Tick, WindowInv, Numbered, Apart, Spread
<1> QED BY <1>1, <1>2, WindowHit, WindowClean DEF Next

\* An interval of length Duration meets at most two entries, next to each other.
LEMMA TwoWindows ==
    ASSUME TypeOK, WindowInv, NEW c \in Client, NEW t \in Nat
    PROVE  \E w \in Int : \A a \in During(c, t) : a.window = w \/ a.window = w + 1
<1>0. Duration \in Nat
  BY RateLimiterAssumption
<1>1. ASSUME NEW a \in During(c, t), NEW b \in During(c, t)
      PROVE  ~(a.window + 1 < b.window)
  <2>1. /\ a \in accepted /\ b \in accepted /\ a.client = b.client
        /\ t <= a.time /\ b.time <= t + Duration
    BY <1>1 DEF During
  <2>2. a.time \in Nat /\ b.time \in Nat
    BY <2>1 DEF TypeOK, Request
  <2>3. a.window + 1 < b.window => a.time + Duration < b.time
    BY <2>1 DEF WindowInv, Spread
  <2> QED BY <1>0, <2>1, <2>2, <2>3
<1>2. \A a \in During(c, t) : a.window \in Nat
  BY DEF During, TypeOK, Request
<1>3. CASE During(c, t) = {}
  BY <1>3
<1>4. ASSUME NEW a \in During(c, t), NEW b \in During(c, t), b.window = a.window - 1
      PROVE  \E w \in Int : \A x \in During(c, t) : x.window = w \/ x.window = w + 1
  <2>1. \A x \in During(c, t) : x.window = b.window \/ x.window = b.window + 1
    BY <1>1, <1>2, <1>4
  <2> QED BY <1>2, <2>1
<1>5. ASSUME NEW a \in During(c, t), \A b \in During(c, t) : b.window # a.window - 1
      PROVE  \E w \in Int : \A x \in During(c, t) : x.window = w \/ x.window = w + 1
  <2>1. \A x \in During(c, t) : x.window = a.window \/ x.window = a.window + 1
    BY <1>1, <1>2, <1>5
  <2> QED BY <1>2, <2>1
<1> QED BY <1>3, <1>4, <1>5

\* No client gets more than twice Limit requests through in any interval of
\* length Duration, however its requests and the cleaner interleave (Hit,
\* cleaner).
THEOREM TwiceLimitAtMost == Spec => []AtMostTwiceLimit
<1>1. TypeOK /\ WindowInv => AtMostTwiceLimit
  <2> SUFFICES ASSUME TypeOK, WindowInv, NEW c \in Client, NEW t \in 0..now
               PROVE  Cardinality(During(c, t)) <= 2 * Limit
    BY DEF AtMostTwiceLimit
  <2>0. Limit \in Nat /\ t \in Nat
    BY RateLimiterAssumption DEF TypeOK
  <2>1. PICK w \in Int : \A a \in During(c, t) : a.window = w \/ a.window = w + 1
    BY <2>0, TwoWindows
  <2> DEFINE S == During(c, t)
             T == 1..(2 * Limit)
             f == [a \in S |-> IF a.window = w THEN a.hit ELSE Limit + a.hit]
  <2>2. \A a \in S : a.hit \in 1..Limit /\ a.window \in Nat
    BY DEF During, TypeOK, Request
  <2>3. \A a, b \in S : a.window = b.window /\ a.hit = b.hit => a = b
    BY DEF During, WindowInv, Spread
  <2> HIDE DEF S
  <2>4. f \in [S -> T]
    BY <2>0, <2>2
  <2>5. \A a, b \in S : f[a] = f[b] => a = b
    <3> SUFFICES ASSUME NEW a \in S, NEW b \in S, f[a] = f[b] PROVE a = b
      OBVIOUS
    <3>1. a.window = b.window /\ a.hit = b.hit
      BY <2>0, <2>1, <2>2 DEF S
    <3> QED BY <2>3, <3>1
  <2>6. f \in Injection(S, T)
    BY <2>4, <2>5 DEF Injection, IsInjective
  <2>7. IsFiniteSet(T) /\ Cardinality(T) = 2 * Limit
    BY <2>0, FS_Interval
  <2> HIDE DEF f, T
  <2>8. Cardinality(S) <= Cardinality(T)
    BY <2>6, <2>7, FS_Injection
  <2> QED BY <2>7, <2>8 DEF S
<1> QED BY <1>1, WindowInit, WindowStep, TypeCorrect, PTL DEF Spec

=============================================================================
