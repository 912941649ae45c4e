--------------------------- MODULE CookieSessions ----------------------------
(***************************************************************************)
(* The sessions kept in cookies (core.session.incookie): requests of one   *)
(* client that overlap.                                                    *)
(*                                                                         *)
(* A session is pickled, cut into chunks and sent as the cookies _s0, _s1  *)
(* and so on.  The next request joins them up to the first one that is     *)
(* missing or blank; a pickle tells its own end, so what follows it is     *)
(* ignored.  The client applies the cookies of the responses in the order  *)
(* in which they arrive.                                                   *)
(***************************************************************************)
EXTENDS Integers

CONSTANTS
  Tabs,         \* the requests that the client has under way
  MaxChunks,    \* bound: the chunks of a session
  MaxVersions   \* bound: the states of sessions that are sent

ASSUME CookieSessionsAssumption == MaxChunks \in Nat \ {0} /\ MaxVersions \in Nat

VARIABLES
  jar,       \* the cookies of the client
  tab,       \* each request: its cookies, those of its response, its session
  versions,  \* the number of states of sessions so far
  kept,      \* the session of the response that came last
  unended    \* a session ended in the first request of the client

cookieVars == <<jar, tab, versions, kept, unended>>

NoCookie == [of |-> 0]    \* no such cookie
Blank == [of |-> -1]
Chunks(v, n) == [i \in 0 .. n - 1 |-> [of |-> n, version |-> v, at |-> i]]
NoSession == 0
Broken == -1            \* a pickle that cannot be read
Resting == [session |-> NoSession]

CookiesInit ==
  /\ jar = [i \in 0 .. MaxChunks - 1 |-> NoCookie]
  /\ tab = [t \in Tabs |-> Resting]
  /\ versions = 0 /\ kept = NoSession /\ unended = FALSE

-----------------------------------------------------------------------------
\* Session.load: the pickle begins with the first chunk and is whole if the
\* chunks after it are its own.
Load(cookies) ==
  LET first == cookies[0] IN
  IF first \in {NoCookie, Blank} THEN NoSession
  ELSE IF [i \in 0 .. first.of - 1 |-> cookies[i]]
            = Chunks(first.version, first.of)
  THEN first.version ELSE Broken

\* The cookies from n on that the request has, up to the first that it has not.
SentFrom(sent, n) ==
  {j \in n .. MaxChunks - 1 : \A i \in n .. j : sent[i] # NoCookie}

Cleared(indexes) == [j \in indexes |-> Blank]

\* The cookies of f, written over those of g.
Merged(f, g) ==
  [i \in DOMAIN f \cup DOMAIN g |-> IF i \in DOMAIN f THEN f[i] ELSE g[i]]

MutantUpdated(sent, reply, v, n) ==
  Merged(Merged(Cleared(SentFrom(sent, n - 1)), Chunks(v, n)), reply)

\* Session._update: writes the chunks and clears the cookies after them that
\* the request has.
Updated(sent, reply, v, n) ==
  Merged(Merged(Cleared(SentFrom(sent, n)), Chunks(v, n)), reply)

\* A request with the cookies of the client, with or without its session.  The
\* cookies of the update that __init__ makes are written over.
Send(t) ==
  /\ tab[t] = Resting
  /\ \/ /\ Load(jar) # NoSession
        /\ tab' = [tab EXCEPT ![t] =
             [session |-> Load(jar), sent |-> jar, reply |-> <<>>,
              result |-> Load(jar), missed |-> FALSE]]
        /\ UNCHANGED versions
     \/ /\ Load(jar) = NoSession /\ versions < MaxVersions
        /\ versions' = versions + 1
        /\ \E n \in 1 .. MaxChunks :
             tab' = [tab EXCEPT ![t] =
               [session |-> versions', sent |-> jar,
                reply |-> Updated(jar, <<>>, versions', n),
                result |-> versions', missed |-> FALSE]]
  /\ UNCHANGED <<jar, kept, unended>>

\* set_value, remove_value, userid = ...
Change(t, n) ==
  /\ tab[t] # Resting /\ versions < MaxVersions
  /\ versions' = versions + 1
  /\ tab' = [tab EXCEPT ![t].session = versions', ![t].result = versions',
       ![t].reply = Updated(tab[t].sent, @, versions', n),
       ![t].missed = FALSE]
  /\ UNCHANGED <<jar, kept, unended>>

\* remove_session: clears the cookies that the request has, which are not those
\* of a session that it has just made.
EndSession(t) ==
  /\ tab[t] # Resting
  /\ tab' = [tab EXCEPT ![t].result = NoSession,
       ![t].reply = Merged(Cleared(SentFrom(tab[t].sent, 0)), @),
       ![t].missed = tab[t].sent[0] = NoCookie]
  /\ UNCHANGED <<jar, versions, kept, unended>>

\* The response arrives,
Arrive(t) ==
  /\ tab[t] # Resting
  /\ jar' = Merged(tab[t].reply, jar)
  /\ IF DOMAIN tab[t].reply = {} THEN UNCHANGED <<kept, unended>>
     ELSE kept' = tab[t].result /\ unended' = tab[t].missed
  /\ tab' = [tab EXCEPT ![t] = Resting]
  /\ UNCHANGED versions

\* or is lost.
Lose(t) ==
  /\ tab[t] # Resting
  /\ tab' = [tab EXCEPT ![t] = Resting]
  /\ UNCHANGED <<jar, versions, kept, unended>>

CookiesNext ==
  \E t \in Tabs :
    \/ Send(t) \/ EndSession(t) \/ Arrive(t) \/ Lose(t)
    \/ \E n \in 1 .. MaxChunks : Change(t, n)

CookiesSpec == CookiesInit /\ [][CookiesNext]_cookieVars
-----------------------------------------------------------------------------
\* The client has the session of the response that came last, whole, whatever
\* chunks other responses left, and none if that response ended it; except a
\* session that was made and ended in the first request of the client.
CookiesMakeASession == unended \/ Load(jar) = kept
=============================================================================
