---------------------------- MODULE Replication -----------------------------
(***************************************************************************)
(* The sites of a replicated server: db.bsddb.replication and the          *)
(* replication commands of core.services.management.                       *)
(*                                                                         *)
(* Every site keeps the sites it knows and who it takes for the master,    *)
(* and so do its sub-processes, which decide by it whether they may write. *)
(* A message to a site is a request that its management service answers; a *)
(* site that is down is passed over.  Berkeley DB holds the elections.     *)
(***************************************************************************)
EXTENDS Integers, FiniteSets, Sequences

CONSTANTS
  Sites,         \* the sites
  Founder,       \* the site that starts as the master, without joining another
  MaxJoins,      \* bound: the joins
  MaxElections,  \* bound: the elections
  MaxStops       \* bound: the sites that stop

NoSite == "none"

ASSUME ReplicationAssumption ==
  /\ IsFiniteSet(Sites) /\ Founder \in Sites /\ NoSite \notin Sites
  /\ MaxJoins \in Nat /\ MaxElections \in Nat /\ MaxStops \in Nat

VARIABLES
  member,     \* the sites whose database has joined and is up
  sites,      \* ReplicationService.sites of each site
  master,     \* ReplicationService.master of each site
  subMaster,  \* the same, in its sub-processes
  elected,    \* the master of the databases
  tasks,      \* the handlers that are under way
  counts,     \* how many joins, elections and stops there were
  overlapped  \* whether two announcements were under way at the same time

replicationVars ==
  <<member, sites, master, subMaster, elected, tasks, counts, overlapped>>

\* A handler: who tells whom about which site, and what remains to be done.
\*   kind "join":  site tells the sites in left of the new site about, then adds
\*                 it and answers with list;
\*   kind "elect": site, the new master, tells the sites in left and waits for
\*                 the answer of the one in list;
\*   kind "hear":  site has heard of the new master about.
Task == [kind : {"join", "elect", "hear"}, site : Sites, about : Sites,
         left : SUBSET Sites, list : SUBSET Sites,
         at : {"tell", "answer", "notify"}]

ReplicationTypeOK ==
  /\ member \subseteq Sites
  /\ sites \in [Sites -> SUBSET Sites]
  /\ master \in [Sites -> Sites \cup {NoSite}]
  /\ subMaster \in [Sites -> Sites \cup {NoSite}]
  /\ \A s \in member : master[s] # NoSite
  /\ elected \in Sites \cup {NoSite}
  /\ tasks \subseteq Task
  /\ counts \in [joins : 0 .. MaxJoins, elections : 0 .. MaxElections,
                 stops : 0 .. MaxStops]
  /\ overlapped \in BOOLEAN

ReplicationInit ==
  /\ member = {Founder}
  /\ sites = [s \in Sites |-> {}]
  /\ master = [s \in Sites |-> IF s = Founder THEN Founder ELSE NoSite]
  /\ subMaster = master
  /\ elected = Founder
  /\ tasks = {}
  /\ counts = [joins |-> 0, elections |-> 0, stops |-> 0]
  /\ overlapped = FALSE

Count(what) == counts' = [counts EXCEPT ![what] = @ + 1]

\* An announcement begins.
Announce(task) ==
  /\ tasks' = tasks \cup {task}
  /\ overlapped' = (overlapped \/ tasks # {})

-----------------------------------------------------------------------------
(* Joining.                                                                *)

\* A site is being joined by at most one handler at a time: it waits in
\* join_site.
Joining(j) == \E t \in tasks : t.kind = "join" /\ t.about = j

\* REP_JOIN_SITE: c takes its list of the sites, with itself.
BeginJoin(j, c) ==
  /\ counts.joins < MaxJoins
  /\ j \notin member /\ ~Joining(j)
  /\ c \in member
  /\ Announce([kind |-> "join", site |-> c, about |-> j, left |-> sites[c],
               list |-> sites[c] \cup {c}, at |-> "tell"])
  /\ Count("joins")
  /\ UNCHANGED <<member, sites, master, subMaster, elected>>

\* REP_ADD_REMOTE_SITE at the next site.  A site that is down is passed over.
TellOfSite(t, s) ==
  /\ t.kind = "join" /\ t.at = "tell" /\ s \in t.left
  /\ sites' = IF s \in member THEN [sites EXCEPT ![s] = @ \cup {t.about}]
              ELSE sites
  /\ tasks' = (tasks \ {t}) \cup {[t EXCEPT !.left = @ \ {s}]}
  /\ UNCHANGED <<member, master, subMaster, elected, counts, overlapped>>

\* c adds the site and answers,
AnswerJoin(t) ==
  /\ t.kind = "join" /\ t.at = "tell" /\ t.left = {}
  /\ sites' = [sites EXCEPT ![t.site] = @ \cup {t.about}]
  /\ tasks' = (tasks \ {t}) \cup {[t EXCEPT !.at = "answer"]}
  /\ UNCHANGED <<member, master, subMaster, elected, counts, overlapped>>

MutantEndJoin(t) ==
  /\ t.kind = "join" /\ t.at = "answer"
  /\ sites' = [sites EXCEPT ![t.about] = t.list \ {t.about, t.site}]
  /\ master' = [master EXCEPT ![t.about] = master[t.site]]
  /\ subMaster' = [subMaster EXCEPT ![t.about] = master[t.site]]
  /\ member' = member \cup {t.about}
  /\ tasks' = tasks \ {t}
  /\ UNCHANGED <<elected, counts, overlapped>>

MutantSitesOnly(t) ==
  /\ t.kind = "join" /\ t.at = "answer"
  /\ sites' = [sites EXCEPT ![t.about] = t.list \ {t.about}]
  /\ member' = member \cup {t.about}
  /\ tasks' = tasks \ {t}
  /\ UNCHANGED <<master, subMaster, elected, counts, overlapped>>

\* and the site takes over the master and the list, and starts its replication
\* manager; then its sub-processes are started with its master.
EndJoin(t) ==
  /\ t.kind = "join" /\ t.at = "answer"
  /\ sites' = [sites EXCEPT ![t.about] = t.list \ {t.about}]
  /\ master' = [master EXCEPT ![t.about] = master[t.site]]
  /\ subMaster' = [subMaster EXCEPT ![t.about] = master[t.site]]
  /\ member' = member \cup {t.about}
  /\ tasks' = tasks \ {t}
  /\ UNCHANGED <<elected, counts, overlapped>>

-----------------------------------------------------------------------------
(* Elections.                                                              *)

\* The databases elect a site that is up when they have no master that is up,
\* or prefer another one.
Elect(s) ==
  /\ counts.elections < MaxElections
  /\ s \in member /\ s # elected
  /\ elected' = s
  /\ Announce([kind |-> "elect", site |-> s, about |-> s, left |-> sites[s],
               list |-> {}, at |-> "notify"])
  /\ master' = [master EXCEPT ![s] = s]
  /\ Count("elections")
  /\ UNCHANGED <<member, sites, subMaster>>

\* event_notify tells the sub-processes of the site,
NotifyOwn(t) ==
  /\ t.kind = "elect" /\ t.at = "notify"
  /\ subMaster' = [subMaster EXCEPT ![t.site] = t.site]
  /\ tasks' = (tasks \ {t}) \cup {[t EXCEPT !.at = "tell"]}
  /\ UNCHANGED <<member, sites, master, elected, counts, overlapped>>

\* The announcement waits for the answer of the site it has told.
Heard(t) ==
  ~ \E u \in tasks : u.kind = "hear" /\ u.about = t.site /\ u.site \in t.list

\* and then the other sites, one after the other: REP_NEW_MASTER.
TellOfMaster(t, s) ==
  /\ t.kind = "elect" /\ t.at = "tell" /\ s \in t.left
  /\ Heard(t)
  /\ IF s \in member
     THEN /\ master' = [master EXCEPT ![s] = t.about]
          /\ tasks' = (tasks \ {t}) \cup
               {[t EXCEPT !.left = @ \ {s}, !.list = {s}],
                [kind |-> "hear", site |-> s, about |-> t.about, left |-> {},
                 list |-> {}, at |-> "notify"]}
     ELSE /\ tasks' = (tasks \ {t}) \cup {[t EXCEPT !.left = @ \ {s}]}
          /\ UNCHANGED master
  /\ UNCHANGED <<member, sites, subMaster, elected, counts, overlapped>>

MutantNotifySubs(t) ==
  /\ t.kind = "hear"
  /\ subMaster' = [subMaster EXCEPT ![t.site] = t.site]
  /\ tasks' = tasks \ {t}
  /\ UNCHANGED <<member, sites, master, elected, counts, overlapped>>

\* A site that has heard tells its sub-processes and answers.
NotifySubs(t) ==
  /\ t.kind = "hear"
  /\ subMaster' = [subMaster EXCEPT ![t.site] = t.about]
  /\ tasks' = tasks \ {t}
  /\ UNCHANGED <<member, sites, master, elected, counts, overlapped>>

EndElect(t) ==
  /\ t.kind = "elect" /\ t.at = "tell" /\ t.left = {}
  /\ Heard(t)
  /\ tasks' = tasks \ {t}
  /\ UNCHANGED <<member, sites, master, subMaster, elected, counts, overlapped>>

-----------------------------------------------------------------------------
\* A site stops, and its handlers with it.  The site that waits for its answer
\* finds it unreachable and does not start.  The databases have no master when
\* it was the master, until they elect one.
Stop(s) ==
  /\ counts.stops < MaxStops
  /\ s \in member
  /\ member' = member \ {s}
  /\ tasks' = {t \in tasks : t.site # s}
  /\ elected' = IF elected = s THEN NoSite ELSE elected
  /\ sites' = [sites EXCEPT ![s] = {}]
  /\ master' = [master EXCEPT ![s] = NoSite]
  /\ subMaster' = [subMaster EXCEPT ![s] = NoSite]
  /\ Count("stops")
  /\ UNCHANGED overlapped

ReplicationNext ==
  \/ \E j, c \in Sites : BeginJoin(j, c)
  \/ \E s \in Sites : Elect(s) \/ Stop(s)
  \/ \E t \in tasks :
       \/ AnswerJoin(t) \/ EndJoin(t) \/ NotifyOwn(t) \/ NotifySubs(t)
       \/ EndElect(t)
       \/ \E s \in Sites : TellOfSite(t, s) \/ TellOfMaster(t, s)

ReplicationSpec == ReplicationInit /\ [][ReplicationNext]_replicationVars
-----------------------------------------------------------------------------
(* Properties.                                                             *)

Quiet == tasks = {}

\* The sites that are up know each other, whichever of them they joined and
\* whatever stopped in between, unless two announcements overlapped: the list
\* that REP_JOIN_SITE answers with was taken before it told the others.
MembersKnowEachOther ==
  Quiet /\ ~overlapped =>
    \A a, b \in member : a # b => b \in sites[a]

\* All processes of all sites take the elected site for the master, and so one
\* site writes, unless two announcements overlapped.
OneMaster ==
  Quiet /\ ~overlapped /\ elected # NoSite =>
    \A s \in member : master[s] = elected /\ subMaster[s] = elected

\* When no message is under way, the sites agree on who they are and on who
\* their master is.
SitesAgree == MembersKnowEachOther /\ OneMaster
=============================================================================
