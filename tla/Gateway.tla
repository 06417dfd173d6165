------------------------------ MODULE Gateway ------------------------------
(***************************************************************************)
(* The gateway (services/gateway/src/routes/index.ts): it proxies every    *)
(* request to the service that owns its path, keeps the last good answer   *)
(* to the poll of each pod to fall back on, and gives each panel (scope)   *)
(* that shares a browser its own copy of the authentication cookies.       *)
(*                                                                         *)
(* The body of a poll's answer is the pod it is about and the moment its   *)
(* state was read at.  A cookie's name is its scope prefix and its         *)
(* canonical name; its value is the session it stands for.                 *)
(***************************************************************************)
EXTENDS Integers, FiniteSets, Sequences, SequencesExt

CONSTANTS
  Clients,
  Pods,
  Scopes,       \* AUTH_PANEL_SCOPES; a client may also send none
  None,
  MaxEntries,   \* OMMPODS_POLLING_CACHE_MAX_ENTRIES
  StaleAge,     \* OMMPODS_POLLING_STALE_MAX_AGE_MS, in ticks
  MaxClock,     \* bound
  MaxPolls,     \* bound: polls of all clients
  MaxSessions   \* bound: sessions the auth service issues

\* Assumed of the constants; the run of ServicesMC evaluates it.
GatewayAssumption ==
  /\ None \notin Scopes \cup Pods
  /\ MaxEntries \in Nat \ {0} /\ StaleAge \in Nat /\ MaxClock \in Nat
  /\ MaxPolls \in Nat /\ MaxSessions \in Nat

VARIABLES
  clock,
  cache,     \* ommpodsPollingCache: entries [pod, body, at] in the order of insertion
  call,      \* what each client waits for
  polls,     \* bound
  jar,       \* the browser's cookies: name -> session, or NoSession
  issued,    \* sessions issued so far
  owner,     \* history: the scope each session was issued for
  answer,    \* history: the last answer of each client
  newest,    \* history: the newest state of each pod a client was shown
  crossed,   \* history: when an answer last came after a younger one
  received,  \* history: the good answers received, as entries
  dropped,   \* history: pods whose entry gave way to another's
  met        \* history: what the auth service took each panel's last request for

pollVars == <<clock, cache, call, polls, answer, newest, crossed, received, dropped>>
cookieVars == <<jar, issued, owner, met>>
vars == <<pollVars, cookieVars>>

Never == -1
NoSession == 0
Body == [pod: Pods, at: Nat]
Entry == [pod: Pods, body: Body, at: Nat]
Idle == [pc |-> "idle"]
Call ==
       {Idle} \cup [pc: {"sent"}, pod: Pods]
  \cup [pc: {"answered"}, pod: Pods, status: {"ok", "degraded", "failed"}, body: Body]
Names == [scope: Scopes \cup {None}, auth: BOOLEAN]

TypeOK ==
  /\ clock \in 0..MaxClock /\ cache \in Seq(Entry) /\ Len(cache) <= MaxEntries
  /\ call \in [Clients -> Call]
  /\ jar \in [Names -> 0..MaxSessions] /\ issued \in 0..MaxSessions

----------------------------------------------------------------------------
(* The cache of polls *)

Has(p) == \E i \in DOMAIN cache : cache[i].pod = p
EntryOf(p) == cache[CHOOSE i \in DOMAIN cache : cache[i].pod = p]

\* Mutant: no entry gives way.
StoreAll(c, p, body) ==
  LET e == [pod |-> p, body |-> body, at |-> clock]
  IN  IF Has(p) THEN [i \in DOMAIN c |-> IF c[i].pod = p THEN e ELSE c[i]] ELSE Append(c, e)

\* setOmmpodsPollingCache: a Map keeps a key's place when its value is replaced; a new key
\* in a full one takes the place of the oldest.
Store(c, p, body) ==
  LET e == [pod |-> p, body |-> body, at |-> clock]
      room == IF Len(c) >= MaxEntries THEN Tail(c) ELSE c
  IN  IF Has(p) THEN [i \in DOMAIN c |-> IF c[i].pod = p THEN e ELSE c[i]]
      ELSE Append(room, e)

\* Mutant: the safe default of a degraded service is kept too.
CacheableAny(a) == a.status # "failed"

\* canCacheOmmpodsPollingResponse: a 200 whose source is not a safe default.
Cacheable(a) == a.status = "ok"

\* getOmmpodsPollingCachedResponse
Fresh(p) == Has(p) /\ clock - EntryOf(p).at <= StaleAge

\* createOmmpodsPollingFallbackResponse: what is cached, else white light and no session.
Fallback(p) ==
  IF Fresh(p) THEN [kind |-> "stale", pod |-> p, body |-> EntryOf(p).body]
  ELSE [kind |-> "default", pod |-> p]

Poll(c, p) ==
  /\ call[c] = Idle /\ polls < MaxPolls
  /\ polls' = polls + 1
  /\ call' = [call EXCEPT ![c] = [pc |-> "sent", pod |-> p]]
  /\ UNCHANGED <<clock, cache, answer, newest, crossed, received, dropped, cookieVars>>

\* External: the pod service answers, with the pod's state now or with its own safe default,
\* with a status that calls for a fallback, or not at all.
UpstreamAnswers(c, status) ==
  /\ call[c].pc = "sent"
  /\ call' = [call EXCEPT ![c] = [pc |-> "answered", pod |-> @.pod, status |-> status,
                                  body |-> [pod |-> @.pod, at |-> clock]]]
  /\ UNCHANGED <<clock, cache, polls, answer, newest, crossed, received, dropped, cookieVars>>

\* createProxyHandler, when fetch returns or throws.
Proxy(c) ==
  /\ call[c].pc = "answered"
  /\ LET a == call[c]
         kept == IF Cacheable(a) THEN Store(cache, a.pod, a.body) ELSE cache
         given == IF a.status = "failed" THEN Fallback(a.pod)
                  ELSE [kind |-> a.status, pod |-> a.pod, body |-> a.body]
     IN  /\ cache' = kept
         /\ dropped' = dropped \cup {p \in Pods : Has(p) /\ \A i \in DOMAIN kept : kept[i].pod # p}
         /\ answer' = [answer EXCEPT ![c] = given]
         /\ IF a.status = "ok"
            THEN /\ newest' = [newest EXCEPT ![a.pod] = IF a.body.at > @ THEN a.body.at ELSE @]
                 /\ crossed' = IF a.body.at < newest[a.pod]
                               THEN [crossed EXCEPT ![a.pod] = clock] ELSE crossed
                 /\ received' = received \cup {[pod |-> a.pod, body |-> a.body, at |-> clock]}
            ELSE UNCHANGED <<newest, crossed, received>>
  /\ call' = [call EXCEPT ![c] = Idle]
  /\ UNCHANGED <<clock, polls, cookieVars>>

Tick ==
  /\ clock < MaxClock
  /\ clock' = clock + 1
  /\ UNCHANGED <<cache, call, polls, answer, newest, crossed, received, dropped, cookieVars>>

----------------------------------------------------------------------------
(* The cookies of the panels *)

Canonical(n) == n.auth /\ n.scope = None   \* isCanonicalAuthCookieName

\* rewriteSetCookieHeader
Scoped(n, s) == IF s = None \/ ~Canonical(n) THEN n ELSE [n EXCEPT !.scope = s]

\* Mutant: what is not the panel's own goes up unchanged.
RewriteOwn(n, s) == IF s # None /\ n.scope = s THEN {[n EXCEPT !.scope = None]} ELSE {n}

\* rewriteCookieHeader: the names a cookie goes up under, one or none.  A panel's own
\* authentication cookies go up under their canonical name; canonical ones are left out.
Rewrite(n, s) ==
  CASE s = None                -> {n}
    [] s # None /\ n.scope = s -> IF n.auth THEN {[n EXCEPT !.scope = None]} ELSE {}
    [] s # None /\ n.scope # s -> IF Canonical(n) THEN {} ELSE {n}

\* The sessions in the cookies that go up under a name.
Sent(s, name) == {jar[n] : n \in {m \in Names : jar[m] # NoSession /\ name \in Rewrite(m, s)}}

AuthCookie == [scope |-> None, auth |-> TRUE]

\* External: the auth service knows the caller by the canonical cookie.
Knows(s) == Sent(s, AuthCookie)

\* A panel signs in: the answer's canonical cookie, renamed, is put in the jar.
SignIn(s) ==
  /\ issued < MaxSessions
  /\ issued' = issued + 1
  /\ owner' = Append(owner, s)
  /\ jar' = [jar EXCEPT ![Scoped(AuthCookie, s)] = issued']
  /\ UNCHANGED <<pollVars, met>>

SignOut(s) ==
  /\ Knows(s) # {}
  /\ jar' = [jar EXCEPT ![Scoped(AuthCookie, s)] = NoSession]
  /\ UNCHANGED <<pollVars, issued, owner, met>>

\* Any other request of a panel.
Request(s) ==
  /\ met' = [met EXCEPT ![s] = Knows(s)]
  /\ UNCHANGED <<pollVars, jar, issued, owner>>

----------------------------------------------------------------------------
Init ==
  /\ clock = 0 /\ cache = <<>> /\ polls = 0
  /\ call = [c \in Clients |-> Idle]
  /\ jar = [n \in Names |-> NoSession]
  /\ issued = 0 /\ owner = <<>>
  /\ answer = [c \in Clients |-> [kind |-> "none"]]
  /\ newest = [p \in Pods |-> Never] /\ crossed = [p \in Pods |-> Never]
  /\ received = {} /\ dropped = {}
  /\ met = [s \in Scopes \cup {None} |-> {}]

NextPolling ==
  \/ \E c \in Clients, p \in Pods : Poll(c, p)
  \/ \E c \in Clients, status \in {"ok", "degraded", "failed"} : UpstreamAnswers(c, status)
  \/ \E c \in Clients : Proxy(c)
  \/ Tick

NextCookies == \E s \in Scopes \cup {None} : SignIn(s) \/ SignOut(s) \/ Request(s)

Next == NextPolling \/ NextCookies

Spec == Init /\ [][Next]_vars

----------------------------------------------------------------------------
(* Properties *)

Recent(e) == clock - e.at <= StaleAge

\* The cache never goes back or stays behind: what it would answer for a pod is the newest
\* state a client was shown, unless answers crossed on their way since.
CacheKeepsUp ==
  \A p \in Pods :
    Fresh(p) =>
      \/ EntryOf(p).body.at = newest[p]
      \/ crossed[p] # Never /\ clock - crossed[p] <= StaleAge

\* A poll that fails while a good answer for the pod is recent is answered with a good
\* answer for that pod, and never with white light, unless other pods took its place.
FallbackIsGood ==
  \A c \in Clients :
    /\ call[c].pc = "answered" /\ call[c].status = "failed" =>
         LET p == call[c].pod
             good == {e \in received : e.pod = p /\ Recent(e)}
             f == Fallback(p)
         IN  /\ f.kind = "stale" => \E e \in good : e.body = f.body
             /\ good # {} /\ p \notin dropped => f.kind = "stale"
    /\ answer[c].kind = "stale" =>
         \E e \in received : e.pod = answer[c].pod /\ e.body = answer[c].body

\* The auth service takes a panel's requests for those of a session issued to that panel,
\* the last one, whatever other panels of the browser did; a panel with no session of its
\* own has none.
PanelsApart ==
  \A s \in Scopes \cup {None} :
    /\ Knows(s) = {jar[Scoped(AuthCookie, s)]} \ {NoSession}
    /\ \A k \in Knows(s) \cup met[s] : owner[k] = s
=============================================================================
