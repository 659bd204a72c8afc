------------------------------- MODULE Sites --------------------------------
(***************************************************************************)
(* The list of proxied sites, from the database to the PAC file: the       *)
(* daemon's sites.Manager with any number of concurrent calls (handlers of *)
(* the local API, the background refresh, the initial refresh after        *)
(* /connect), the server's DeviceAuth with its device cache, handleSync    *)
(* with its transaction and the queries after it, admin operations beside  *)
(* them, and RebuildPAC, which every caller runs on its own when the cache *)
(* has been replaced.                                                      *)
(*                                                                         *)
(* One user with one device; other users appear through the catalog Init   *)
(* and the admin.  A site has its primary domain and at most one discovered*)
(* one.  Postgres runs transactions READ COMMITTED: a toggle, which checks *)
(* updated_at, is split into its SELECT and its UPDATE.  The statements of *)
(* an add, a remove or an add_domain are one step, and a domain or ID that *)
(* the server calls invalid, which changes nothing, is left out.  A        *)
(* failure (lost request or answer, timeout, rate limit, database error)   *)
(* may happen at every step of a call.                                     *)
(***************************************************************************)
EXTENDS Naturals, FiniteSets

CONSTANTS
    SiteIDs,       \* sites the catalog may hold
    Calls,         \* calls of the daemon that may be in progress at a time
    MaxEvents      \* model bound: edits and proxy_all pushes of the user,
                   \* operations of the admin and failures, together

ASSUME SitesAssumption ==
    /\ IsFiniteSet(SiteIDs) /\ IsFiniteSet(Calls)
    /\ MaxEvents \in Nat

VARIABLES
    catalog,   \* rows of the table sites
    extra,     \* sites with a discovered domain in site_domains
    row,       \* user_sites of the user: none, on or off
    upd,       \* user_sites.updated_at
    user,      \* the user is in the table users
    dev,       \* the device is in the table devices
    dcache,    \* its entry in deviceCache: none, found or missing
    admin,     \* an operation on the device between the database and the cache
    cache,     \* sites.Cache of the daemon
    pac,       \* PacSites of the daemon
    call,      \* the calls in progress
    events     \* events so far; the clock that stamps edits

dbVars == <<catalog, extra, row, upd>>
authVars == <<user, dev, dcache, admin>>
daemonVars == <<cache, pac>>
vars == <<dbVars, authVars, daemonVars, call, events>>

EditOps == {"add", "remove", "enable", "disable", "add_domain"}

\* A site as the daemon sees it: whether it is listed, and with which domains.
Listing == [SiteIDs -> {"none", "on", "off"}]
Domains == SiteIDs \X {"primary", "found"}
Snapshots == [row : Listing, dom : SUBSET Domains]
NoSites == [row |-> [s \in SiteIDs |-> "none"], dom |-> {}]

\* Manager.EnabledDomains.
EnabledDomains(snap) == {d \in snap.dom : snap.row[d[1]] = "on"}

\* GetMySites: the domains of the listed sites.
DomainsOf(rows) ==
    {d \in Domains : /\ rows[d[1]] # "none"
                     /\ IF d[2] = "found" THEN d[1] \in extra
                                          ELSE d[1] \in catalog}
MySites == [row |-> row, dom |-> DomainsOf(row)]

\* One call of the daemon.  pc names the next step; ok says that the device was
\* found and, later, that the manager will use the answer; doms is what
\* RebuildPAC compares and sets.
CallState ==
    [pc    : {"sent", "put", "tx", "update", "query", "domains",
              "reply", "get", "doms", "set"},
     op    : EditOps \cup {"refresh"},
     site  : SiteIDs \cup {0},
     at    : 0..MaxEvents,
     ok    : BOOLEAN,
     snap  : Snapshots,
     doms  : SUBSET Domains]
Idle == [pc |-> "idle"]

TypeOK ==
    /\ catalog \subseteq SiteIDs
    /\ extra \subseteq catalog
    /\ row \in Listing /\ \A s \in SiteIDs \ catalog : row[s] = "none"
    /\ upd \in [SiteIDs -> 0..MaxEvents]
    /\ user \in BOOLEAN
    /\ dev \in {FALSE, user}
    /\ dcache \in {"none", "found", "missing"}
    /\ admin \in {"idle", "invalidate"}
    /\ cache \in Snapshots
    /\ pac \in [all : BOOLEAN, doms : SUBSET Domains]
    /\ \A c \in Calls : call[c] = Idle \/ call[c] \in CallState
    /\ events \in 0..MaxEvents

\* The daemon starts, with a key, against a database that other users and
\* earlier days have filled.
Init ==
    /\ catalog \in SUBSET SiteIDs
    /\ extra = {}
    /\ \E on \in SUBSET catalog :
         row = [s \in SiteIDs |-> IF s \in on THEN "on" ELSE "none"]
    /\ upd = [s \in SiteIDs |-> 0]
    /\ user = TRUE /\ dev = TRUE
    /\ dcache = "none" /\ admin = "idle"
    /\ cache = NoSites
    /\ pac = [all |-> TRUE, doms |-> {}]
    /\ call = [c \in Calls |-> Idle]
    /\ events = 0

\* Something happens that need not.
Event ==
    /\ events < MaxEvents
    /\ events' = events + 1

\* A call at pc without an operation that is still to be applied.
Plain(pc) ==
    [pc |-> pc, op |-> "refresh", site |-> 0, at |-> 0, ok |-> TRUE,
     snap |-> NoSites, doms |-> {}]

Goes(c, pc) == call' = [call EXCEPT ![c].pc = pc]
Ends(c) == call' = [call EXCEPT ![c] = Idle]

-----------------------------------------------------------------------------
(* The daemon sends.                                                       *)

\* SyncOps of a call; time is the number of the edit.
Send(c, op, s, at) ==
    /\ call[c] = Idle
    /\ call' = [call EXCEPT ![c] = [Plain("sent") EXCEPT !.op = op, !.site = s,
                                                         !.at = at]]

Refresh(c) ==
    /\ Send(c, "refresh", 0, 0)
    /\ UNCHANGED <<dbVars, authVars, daemonVars, events>>

\* A handler of the local API calls the manager, which sends one operation.
Edit(c, op, s) ==
    /\ Event
    /\ Send(c, op, s, events')
    /\ UNCHANGED <<dbVars, authVars, daemonVars>>

AddSite(c, s) == Edit(c, "add", s)
SetEnabled(c, s, enabled) == Edit(c, IF enabled THEN "enable" ELSE "disable", s)
RemoveSite(c, s) == Edit(c, "remove", s)
AddDomains(c, s) == Edit(c, "add_domain", s)

\* The request or the answer is lost or comes after the 15 s of the HTTP client,
\* the limiter refuses, a query fails and the transaction is rolled back: the
\* manager returns an error, the operation has been applied or not.
Fails(c) ==
    /\ call[c].pc \in {"sent", "tx", "update", "query", "domains", "reply"}
    /\ Event
    /\ Ends(c)
    /\ UNCHANGED <<dbVars, authVars, daemonVars>>

-----------------------------------------------------------------------------
(* DeviceAuth.Wrap and GetDeviceByKey.                                     *)

CacheHit(c) ==
    /\ call[c].pc = "sent"
    /\ dcache # "none"
    /\ IF dcache = "found" THEN Goes(c, "tx") ELSE Ends(c)
    /\ UNCHANGED <<dbVars, authVars, daemonVars, events>>

\* Mutant: the middleware lets a call through when the query fails.
ReadDeviceFailOpen(c) ==
    /\ call[c].pc = "sent"
    /\ dcache = "none"
    /\ \/ /\ call' = [call EXCEPT ![c].pc = "put", ![c].ok = dev]
          /\ UNCHANGED events
       \/ /\ Event
          /\ call' = [call EXCEPT ![c].pc = "put", ![c].ok = TRUE]
    /\ UNCHANGED <<dbVars, authVars, daemonVars>>

\* A miss, and the row is read; an error of the query counts as not found.
ReadDevice(c) ==
    /\ call[c].pc = "sent"
    /\ dcache = "none"
    /\ \/ /\ call' = [call EXCEPT ![c].pc = "put", ![c].ok = dev]
          /\ UNCHANGED events
       \/ /\ Event
          /\ call' = [call EXCEPT ![c].pc = "put", ![c].ok = FALSE]
    /\ UNCHANGED <<dbVars, authVars, daemonVars>>

\* The result is cached, whatever has happened to the device since.
PutDevice(c) ==
    /\ call[c].pc = "put"
    /\ dcache' = IF call[c].ok THEN "found" ELSE "missing"
    /\ IF call[c].ok THEN Goes(c, "tx") ELSE Ends(c)
    /\ UNCHANGED <<dbVars, user, dev, admin, daemonVars, events>>

\* Mutant: only failed lookups expire.
ExpireMissing ==
    /\ dcache = "missing"
    /\ dcache' = "none"
    /\ UNCHANGED <<dbVars, user, dev, admin, daemonVars, call, events>>

\* deviceCacheTTL is over.
Expire ==
    /\ dcache # "none"
    /\ dcache' = "none"
    /\ UNCHANGED <<dbVars, user, dev, admin, daemonVars, call, events>>

-----------------------------------------------------------------------------
(* handleSync.                                                             *)

\* The manager uses the answer: the status is ok and, for a domain, not
\* deduped.
Applied(c, ok) == call' = [call EXCEPT ![c] = [Plain("query") EXCEPT !.ok = ok]]

\* Mutant: user_sites carries no reference to users.
AddWithoutUser(c, s) ==
    /\ call[c].op = "add"
    /\ catalog' = catalog \cup {s}
    /\ row' = [row EXCEPT ![s] = IF @ = "none" THEN "on" ELSE @]
    /\ upd' = [upd EXCEPT ![s] = IF row[s] = "none" THEN call[c].at ELSE @]
    /\ Applied(c, TRUE)
    /\ UNCHANGED extra

\* ApplyAddOp, with ensureUserSite: an existing row is left as it is.
ApplyAddOp(c, s) ==
    /\ call[c].op = "add" /\ user
    /\ catalog' = catalog \cup {s}
    /\ row' = [row EXCEPT ![s] = IF @ = "none" THEN "on" ELSE @]
    /\ upd' = [upd EXCEPT ![s] = IF row[s] = "none" THEN call[c].at ELSE @]
    /\ Applied(c, TRUE)
    /\ UNCHANGED extra

\* The rows refer to a user that is gone: the transaction does not commit.
AddRefused(c) ==
    /\ call[c].op = "add" /\ ~user
    /\ Ends(c)
    /\ UNCHANGED dbVars

ApplyRemoveOp(c, s) ==
    /\ call[c].op = "remove"
    /\ row' = [row EXCEPT ![s] = "none"]
    /\ upd' = [upd EXCEPT ![s] = 0]
    /\ Applied(c, TRUE)
    /\ UNCHANGED <<catalog, extra>>

ApplyAddDomainOp(c, s) ==
    /\ call[c].op = "add_domain"
    /\ extra' = IF row[s] # "none" THEN extra \cup {s} ELSE extra
    /\ Applied(c, row[s] # "none" /\ s \notin extra)
    /\ UNCHANGED <<catalog, row, upd>>

\* ApplyToggleOp reads updated_at: not found, stale, or the update follows.
ApplyToggleOp(c, s) ==
    /\ call[c].op \in {"enable", "disable"}
    /\ IF row[s] = "none" \/ call[c].at < upd[s]
         THEN Applied(c, FALSE) ELSE Goes(c, "update")
    /\ UNCHANGED dbVars

\* Mutant: an answer without op_results is an error, as it is for an edit.
NoOpFails(c) ==
    /\ call[c].op = "refresh"
    /\ Applied(c, FALSE)
    /\ UNCHANGED dbVars

\* A refresh has no operations.
NoOp(c) ==
    /\ call[c].op = "refresh"
    /\ Applied(c, TRUE)
    /\ UNCHANGED dbVars

ApplyOp(c) ==
    /\ call[c].pc = "tx"
    /\ LET s == call[c].site
       IN  \/ ApplyAddOp(c, s) \/ ApplyRemoveOp(c, s) \/ ApplyAddDomainOp(c, s)
           \/ ApplyToggleOp(c, s) \/ AddRefused(c) \/ NoOp(c)
    /\ UNCHANGED <<authVars, daemonVars, events>>

\* The UPDATE, which finds no row if it was removed after the SELECT.
UpdateToggle(c) ==
    /\ call[c].pc = "update"
    /\ LET s == call[c].site
           there == row[s] # "none"
           to == IF call[c].op = "enable" THEN "on" ELSE "off"
       IN  /\ row' = [row EXCEPT ![s] = IF there THEN to ELSE @]
           /\ upd' = [upd EXCEPT ![s] = IF there THEN call[c].at ELSE @]
    /\ Applied(c, TRUE)
    /\ UNCHANGED <<catalog, extra, authVars, daemonVars, events>>

\* GetMySites, after the commit: the sites ...
QuerySites(c) ==
    /\ call[c].pc = "query"
    /\ call' = [call EXCEPT ![c].pc = "domains", ![c].snap.row = row]
    /\ UNCHANGED <<dbVars, authVars, daemonVars, events>>

\* ... then the domains of each.
QueryDomains(c) ==
    /\ call[c].pc = "domains"
    /\ call' = [call EXCEPT ![c].pc = "reply",
                            ![c].snap.dom = DomainsOf(call[c].snap.row)]
    /\ UNCHANGED <<dbVars, authVars, daemonVars, events>>

-----------------------------------------------------------------------------
(* The daemon receives.                                                    *)

\* cache.Replace, then the callback RebuildPAC.
Receive(c) ==
    /\ call[c].pc = "reply"
    /\ \/ /\ call[c].ok
          /\ cache' = call[c].snap
          /\ call' = [call EXCEPT ![c] = Plain("get")]
       \/ /\ ~call[c].ok
          /\ Ends(c)
          /\ UNCHANGED cache
    /\ UNCHANGED <<dbVars, authVars, pac, events>>

\* handlePacSitesUpdate: the flag, no domains, then RebuildPAC.
PacSitesUpdate(c, all) ==
    /\ call[c] = Idle
    /\ Event
    /\ pac' = [all |-> all, doms |-> {}]
    /\ call' = [call EXCEPT ![c] = Plain("get")]
    /\ UNCHANGED <<dbVars, authVars, cache>>

\* RebuildPAC: pacSites.Get; with proxy_all there are no domains to set.
RebuildGet(c) ==
    /\ call[c].pc = "get"
    /\ \/ pac.all /\ Ends(c)
       \/ ~pac.all /\ call' = [call EXCEPT ![c].pc = "doms", ![c].doms = pac.doms]
    /\ UNCHANGED <<dbVars, authVars, daemonVars, events>>

\* EnabledDomains, and the comparison with what Get returned.
RebuildDomains(c) ==
    /\ call[c].pc = "doms"
    /\ LET new == EnabledDomains(cache)
       IN  IF new = call[c].doms
             THEN Ends(c)
             ELSE call' = [call EXCEPT ![c].pc = "set", ![c].doms = new]
    /\ UNCHANGED <<dbVars, authVars, daemonVars, events>>

\* pacSites.Set with the flag Get returned, and CloseAllConns.
RebuildSet(c) ==
    /\ call[c].pc = "set"
    /\ pac' = [all |-> FALSE, doms |-> call[c].doms]
    /\ Ends(c)
    /\ UNCHANGED <<dbVars, authVars, cache, events>>

-----------------------------------------------------------------------------
(* The admin.                                                              *)

AdminActs ==
    /\ Event
    /\ UNCHANGED <<daemonVars, call>>

\* Mutant: the rows that refer to the site stay.
DeleteSiteOnly(s) ==
    /\ s \in catalog
    /\ AdminActs
    /\ catalog' = catalog \ {s}
    /\ UNCHANGED <<extra, row, upd, authVars>>

\* Cascades to site_domains and user_sites.
DeleteSite(s) ==
    /\ s \in catalog
    /\ AdminActs
    /\ catalog' = catalog \ {s}
    /\ extra' = extra \ {s}
    /\ row' = [row EXCEPT ![s] = "none"]
    /\ upd' = [upd EXCEPT ![s] = 0]
    /\ UNCHANGED authVars

DeleteSiteDomain(s) ==
    /\ s \in extra
    /\ AdminActs
    /\ extra' = extra \ {s}
    /\ UNCHANGED <<catalog, row, upd, authVars>>

\* What is written to the database first is dropped from the cache next.
WritesDevice ==
    /\ dev /\ admin = "idle"
    /\ AdminActs
    /\ admin' = "invalidate"
    /\ UNCHANGED <<dcache, catalog, extra>>

\* SetDeviceActive and UpdateDeviceVersion: a lookup finds the device as before.
UpdateDevice ==
    /\ WritesDevice
    /\ UNCHANGED <<user, dev, row, upd>>

DeleteDevice ==
    /\ WritesDevice
    /\ dev' = FALSE
    /\ UNCHANGED <<user, row, upd>>

\* Cascades to devices and user_sites; the catalog keeps the user's sites.
DeleteUser ==
    /\ WritesDevice
    /\ user' = FALSE /\ dev' = FALSE
    /\ row' = [s \in SiteIDs |-> "none"]
    /\ upd' = [s \in SiteIDs |-> 0]

\* ... then the cache, unless the SELECT of the key, which comes first and whose
\* error is ignored, returned none.
Invalidate ==
    /\ admin = "invalidate"
    /\ dcache' \in {dcache, "none"}
    /\ admin' = "idle"
    /\ UNCHANGED <<dbVars, user, dev, daemonVars, call, events>>

-----------------------------------------------------------------------------
Proceed(c) ==
    \/ CacheHit(c) \/ ReadDevice(c) \/ PutDevice(c)
    \/ ApplyOp(c) \/ UpdateToggle(c) \/ QuerySites(c) \/ QueryDomains(c)
    \/ Receive(c) \/ RebuildGet(c) \/ RebuildDomains(c) \/ RebuildSet(c)

Next ==
    \/ \E c \in Calls : Refresh(c) \/ Fails(c) \/ Proceed(c)
    \/ \E c \in Calls, s \in SiteIDs :
         \/ AddSite(c, s) \/ RemoveSite(c, s) \/ AddDomains(c, s)
         \/ \E enabled \in BOOLEAN : SetEnabled(c, s, enabled)
    \/ \E c \in Calls, all \in BOOLEAN : PacSitesUpdate(c, all)
    \/ Expire
    \/ \E s \in SiteIDs : DeleteSite(s) \/ DeleteSiteDomain(s)
    \/ UpdateDevice \/ DeleteDevice \/ DeleteUser \/ Invalidate

Spec == Init /\ [][Next]_vars

\* The refresh ticker ticks, what has been started goes on, entries expire.
Fairness ==
    /\ WF_vars(\E c \in Calls : Refresh(c))
    /\ \A c \in Calls : WF_vars(Proceed(c))
    /\ WF_vars(Expire)
    /\ WF_vars(Invalidate)

FairSpec == Spec /\ Fairness

-----------------------------------------------------------------------------
(* Properties.                                                             *)

\* Transactions of a user that is deleted meanwhile go on, statement by
\* statement, but none of them brings a row of user_sites back: an add no longer
\* commits, and a toggle whose SELECT found the row finds it gone.
UserRowsGone ==
    ~user => \A s \in SiteIDs : row[s] = "none" /\ upd[s] = 0

\* The device is deleted, the cache does not vouch for it, and no request that
\* was authenticated earlier is still on its way to the database.
Revoked ==
    /\ ~dev /\ dcache # "found"
    /\ \A c \in Calls : /\ call[c].pc \notin {"tx", "update"}
                         /\ ~(call[c].pc = "put" /\ call[c].ok)

\* Once the requests in flight have drained, the revocation is final: whatever
\* the daemon sends, whatever fails and whatever expires, the key does not get
\* in again, and the tables of sites only ever shrink (by the admin).
RevocationFinal ==
    [][Revoked => /\ Revoked'
                  /\ catalog' \subseteq catalog
                  /\ extra' \subseteq extra
                  /\ \A s \in SiteIDs : row'[s] \in {row[s], "none"}]_vars

\* Answers are applied in any order, each by a RebuildPAC of its own, after
\* timeouts and beside admin operations; still the daemon ends up with the
\* sites the server has, and the PAC file with exactly the enabled domains of
\* these, unless proxy_all is set or the device is gone.
PacConverges ==
    <>[](dev => /\ cache = MySites
                /\ pac.all \/ pac.doms = EnabledDomains(MySites))

\* A deleted device is refused from some time on: a lookup that read the row
\* before the deletion may cache it after the invalidation, but not for ever.
RevocationTakes ==
    <>[](~dev => dcache # "found" /\ \A c \in Calls : call[c].pc # "tx")

=============================================================================
