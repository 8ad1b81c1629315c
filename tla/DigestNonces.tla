------------------------------ MODULE DigestNonces ------------------------------
(***************************************************************************)
(* Whether a browser that knows the password is let in: the nonces of      *)
(* HTTPDigestAuthenticator (src/sensesp/net/http_authenticator.cpp).       *)
(*                                                                         *)
(* The server keeps the last MaxNonces nonces it gave, newest first. A     *)
(* browser numbers the requests it makes with a nonce; they may arrive in  *)
(* another order. A request is accepted, or told that its nonce is stale   *)
(* (the browser repeats it with a new one by itself), or refused (the user *)
(* is asked again). Other clients get and use nonces too. The text of a    *)
(* nonce is millis() at its making and a hash of it: two of a millisecond  *)
(* are equal, and here its age stands for it. The server reads the time    *)
(* back as a signed long. It handles one request at a time, while the clock*)
(* and the browser wait; each nonce that it erases on the way is a step of *)
(* its own. Headers, hashes and what a restart forgets are left out.       *)
(***************************************************************************)
EXTENDS Integers, SequencesExt

CONSTANTS
    NonceAge,    \* nonce_max_age_
    MaxNonces,   \* kMaxNonces
    Tolerance,   \* kNcTolerance
    ClockWrap,   \* 2^32, where millis() starts again
    Horizon,     \* bound: the time of the clock it ends at
    Oldest,      \* bound on the age of a nonce somebody has
    MaxCount,    \* bound on the requests made with a nonce
    Connections  \* bound on the requests of the browser at a time

ASSUME NoncesAssumption ==
    /\ {NonceAge, MaxNonces, Tolerance, MaxCount, Connections} \subseteq Nat \ {0}
    /\ Oldest \in Nat /\ Oldest > 4 * NonceAge
    /\ ClockWrap \in Nat /\ ClockWrap > Oldest

VARIABLES
    uptime,   \* millis()
    nonces,   \* nonces_: [age, count, foreign (given to another client)]
    held,     \* the nonce the browser uses, if any
    nc,       \* requests made with it
    flying,   \* requests on their way: [nonce, nc, after]
    lookups   \* the one find_nonce is called for, if any

nonceVars == <<uptime, nonces, held, nc, flying, lookups>>

\* History: newer, the nonces given since this one; shared, its text was given
\* twice; told, a request was told that it is stale; after, the requests the
\* browser made after this one, at most Tolerance.
Nonce ==
    [age : 0..Oldest, newer : 0..MaxNonces, shared : BOOLEAN, told : BOOLEAN]

Request == [nonce : Nonce, nc : 1..MaxCount, after : 0..Tolerance]

\* own, the request is the browser's; at, the place of it in find_nonce.
Lookup == [request : Request, own : BOOLEAN, at : Nat \ {0}]

NonceTypeOK ==
    /\ uptime \in 0..ClockWrap - 1
    /\ nonces \in Seq([age : 0..Oldest, count : 0..MaxCount, foreign : BOOLEAN])
    /\ Len(nonces) <= MaxNonces
    /\ held \subseteq Nonce /\ \A m, n \in held : m = n
    /\ nc \in 0..MaxCount
    /\ flying \subseteq Request
    /\ lookups \subseteq Lookup /\ \A l, m \in lookups : l = m

\* The web server answers from any time on.
NoncesInit ==
    /\ uptime \in 0..ClockWrap - 1
    /\ nonces = <<>> /\ held = {} /\ nc = 0 /\ flying = {} /\ lookups = {}

-----------------------------------------------------------------------------
(* find_nonce *)

\* The difference of two unsigned longs.
Minus(a, b) == IF a >= b THEN a - b ELSE a + ClockWrap - b

Made(age) == Minus(uptime, age)

\* String::toInt() gives a long: a later time is read as the last one it has.
LongMax == ClockWrap \div 2 - 1

Timestamp(age) == IF Made(age) > LongMax THEN LongMax ELSE Made(age)

\* The age of a nonce as find_nonce computes it.
Seen(age) == Minus(uptime, Timestamp(age))

\* Where its loop, from a place on, comes to the nonce it looks for or to an old
\* one, or ends.
StopsAt(list, age, from) ==
    Min({i \in from..Len(list) : list[i].age = age \/ Seen(list[i].age) > 4 * NonceAge}
        \cup {Len(list) + 1})

LookUp(r, own) ==
    lookups' = {[request |-> r, own |-> own, at |-> StopsAt(nonces, r.nonce.age, 1)]}

Sought(l) == l.request.nonce.age

Erases(l) == l.at \in DOMAIN nonces /\ nonces[l.at].age # Sought(l)

\* An old nonce: it goes on after the one that follows; after the last of all it
\* starts again.
NonceErased(l) ==
    LET list == RemoveAt(nonces, l.at)
        next == IF l.at = Len(nonces) THEN 1 ELSE l.at + 1
    IN /\ Erases(l)
       /\ nonces' = list
       /\ lookups' = {[l EXCEPT !.at = StopsAt(list, Sought(l), next)]}
       /\ UNCHANGED <<uptime, held, nc, flying>>

\* A mistake: the requests have to arrive in order.
VariantReplayed(entry, count) == count <= entry.count

Replayed(entry, count) == entry.count - count >= Tolerance

\* The round that finds it, and the return after the loop.
FindNonce(l) ==
    LET i == l.at
        count == l.request.nc
    IN IF i \notin DOMAIN nonces \/ Replayed(nonces[i], count)
       THEN [is |-> "refused", list |-> nonces]
       ELSE IF Seen(Sought(l)) > NonceAge
       THEN [is |-> "stale", list |-> RemoveAt(nonces, i)]
       ELSE [is |-> "accepted",
             list |-> [nonces EXCEPT ![i].count = IF count > @ THEN count ELSE @]]

-----------------------------------------------------------------------------
(* request_authentication *)

NotNewest(n) ==
    [n EXCEPT !.newer = Min({@ + 1, MaxNonces}), !.shared = @ \/ n.age = 0]

\* create_nonce: the list has the new one, and what the browser has is not the
\* newest any more.
Challenge(list, requests, foreign) ==
    LET longer == <<[age |-> 0, count |-> 0, foreign |-> foreign]>> \o list
    IN /\ nonces' = SubSeq(longer, 1, Min({Len(longer), MaxNonces}))
       /\ flying' = {[r EXCEPT !.nonce = NotNewest(@)] : r \in requests}

\* The browser goes on with the nonce of the answer.
Challenged(list, requests) ==
    /\ Challenge(list, requests, FALSE)
    /\ nc' = 0
    /\ held' = {[age |-> 0, newer |-> 0, told |-> FALSE,
                 shared |-> \/ \E i \in DOMAIN list : list[i].age = 0
                            \/ \E r \in requests : r.nonce.age = 0]}

-----------------------------------------------------------------------------
(* The browser. *)

\* Its first request has no nonce.
FirstRequest ==
    /\ held = {} /\ lookups = {}
    /\ Challenged(nonces, flying)
    /\ UNCHANGED <<uptime, lookups>>

Passed(r, n) ==
    IF r.nonce.age = n.age
    THEN [r EXCEPT !.after = Min({@ + 1, Tolerance})] ELSE r

SendRequest ==
    /\ lookups = {} /\ nc < MaxCount /\ Cardinality(flying) < Connections
    /\ \E n \in held :
         flying' = {Passed(r, n) : r \in flying}
                   \cup {[nonce |-> n, nc |-> nc + 1, after |-> 0]}
    /\ nc' = nc + 1
    /\ UNCHANGED <<uptime, nonces, held, lookups>>

RequestArrives(r) ==
    /\ lookups = {} /\ LookUp(r, TRUE)
    /\ flying' = flying \ {r}
    /\ UNCHANGED <<uptime, nonces, held, nc>>

\* authenticate_request accepts it.
Accepted(l) ==
    LET find == FindNonce(l)
    IN /\ l.own /\ ~Erases(l) /\ find.is = "accepted"
       /\ nonces' = find.list /\ lookups' = {}
       /\ UNCHANGED <<uptime, held, nc, flying>>

\* It does not, and gives a new nonce.
NotAccepted(l) ==
    LET find == FindNonce(l)
        Told(r) == IF find.is = "stale" /\ r.nonce.age = Sought(l)
                   THEN [r EXCEPT !.nonce.told = TRUE] ELSE r
    IN /\ l.own /\ ~Erases(l) /\ find.is # "accepted"
       /\ Challenged(find.list, {Told(r) : r \in flying})
       /\ lookups' = {} /\ UNCHANGED uptime

-----------------------------------------------------------------------------
(* Other clients, and time. *)

OthersChallenge(list) ==
    /\ Challenge(list, flying, TRUE)
    /\ held' = {NotNewest(n) : n \in held}

OtherChallenged ==
    /\ lookups = {}
    /\ OthersChallenge(nonces)
    /\ UNCHANGED <<uptime, nc, lookups>>

\* With a nonce of its own (bound: numbered 1 each time).
OtherRequest(i) ==
    /\ lookups = {} /\ nonces[i].foreign
    /\ LookUp([nonce |-> [age |-> nonces[i].age, newer |-> 0, shared |-> TRUE,
                          told |-> FALSE], nc |-> 1, after |-> 0], FALSE)
    /\ UNCHANGED <<uptime, nonces, held, nc, flying>>

OtherAnswered(l) ==
    LET find == FindNonce(l)
    IN /\ ~l.own /\ ~Erases(l) /\ lookups' = {}
       /\ \/ /\ find.is = "accepted"
             /\ nonces' = find.list /\ UNCHANGED <<held, flying>>
          \/ find.is # "accepted" /\ OthersChallenge(find.list)
       /\ UNCHANGED <<uptime, nc>>

OneOlder(n) == [n EXCEPT !.age = @ + 1]

InUse == held \cup {r.nonce : r \in flying} \cup ToSet(nonces)

TimePasses ==
    /\ lookups = {} /\ uptime # Horizon /\ \A n \in InUse : n.age < Oldest
    /\ uptime' = IF uptime + 1 = ClockWrap THEN 0 ELSE uptime + 1
    /\ nonces' = [i \in DOMAIN nonces |-> OneOlder(nonces[i])]
    /\ held' = {OneOlder(n) : n \in held}
    /\ flying' = {[r EXCEPT !.nonce = OneOlder(@)] : r \in flying}
    /\ UNCHANGED <<nc, lookups>>

NoncesNext ==
    \/ FirstRequest \/ SendRequest \/ OtherChallenged \/ TimePasses
    \/ \E r \in flying : RequestArrives(r)
    \/ \E i \in DOMAIN nonces : OtherRequest(i)
    \/ \E l \in lookups : \/ NonceErased(l) \/ Accepted(l)
                         \/ NotAccepted(l) \/ OtherAnswered(l)

NoncesSpec == NoncesInit /\ [][NoncesNext]_nonceVars

-----------------------------------------------------------------------------
(* Properties. *)

\* The user is not asked again without need: a nonce that is young, that the
\* server has not given twice in a millisecond nor had to drop for newer ones is
\* good for every request that fewer than Tolerance later ones may overtake. An
\* old one is never good, but it is said to be stale, not wrong, to the first
\* request that comes with it before it is forgotten: another one on its way at
\* that time is refused. Except for the nonces made when millis() is above the
\* largest long, 24.9 days of every 49.7: they are old as soon as millis() is
\* NonceAge above it (NotStaleYoung).
NoncesServe ==
    \A l \in lookups :
      LET n == l.request.nonce
          answer == FindNonce(l).is
      IN l.own /\ ~Erases(l) /\ ~n.shared /\ n.newer < MaxNonces
         /\ l.request.after < Tolerance /\ Made(n.age) <= LongMax =>
           /\ (answer = "accepted") = (n.age <= NonceAge)
           /\ n.age \in NonceAge + 1..4 * NonceAge /\ ~n.told =>
                answer = "stale"

\* "max_age Maximum age of the nonce in milliseconds", "-1 Nonce found but stale"
\* (find_nonce): a nonce that is said to be stale is older than that.
NotStaleYoung ==
    \A l \in lookups :
      ~Erases(l) /\ FindNonce(l).is = "stale" => Sought(l) > NonceAge
=============================================================================
