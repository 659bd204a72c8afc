---------------------------- MODULE Sites_proofs ----------------------------
(***************************************************************************)
(* For any number of sites, of concurrent calls of the daemon and of       *)
(* events: the tables keep their references, the rows of a deleted user do *)
(* not come back, and a revocation that has taken effect is final.         *)
(***************************************************************************)
EXTENDS Sites, TLAPS

-----------------------------------------------------------------------------
(* The inductive invariant, part by part. *)

\* The tables: whatever refers to a site refers to one in the catalog.
DbOK ==
    /\ catalog \subseteq SiteIDs
    /\ extra \subseteq catalog
    /\ row \in Listing /\ \A s \in SiteIDs \ catalog : row[s] = "none"
    /\ upd \in [SiteIDs -> 0..MaxEvents]

\* The device is one of the user's.
AuthOK ==
    /\ user \in BOOLEAN
    /\ dev \in BOOLEAN
    /\ dev => user
    /\ dcache \in {"none", "found", "missing"}
    /\ admin \in {"idle", "invalidate"}

\* What the daemon has cached and published.
DaemonOK ==
    /\ cache \in Snapshots
    /\ pac \in [all : BOOLEAN, doms : SUBSET Domains]

\* An edit in progress is about a site; a refresh is about none.
CallRecs == {Idle} \cup {x \in CallState : x.op # "refresh" => x.site \in SiteIDs}
CallsOK == call \in [Calls -> CallRecs]

IInv ==
    /\ DbOK
    /\ AuthOK
    /\ DaemonOK
    /\ CallsOK
    /\ events \in 0..MaxEvents
    /\ UserRowsGone

-----------------------------------------------------------------------------
(* Calls. *)

\* A call that is not idle has all the fields.
LEMMA Busy ==
    ASSUME CallsOK, NEW c \in Calls, call[c].pc # "idle"
    PROVE  call[c] \in CallState /\ (call[c].op # "refresh" => call[c].site \in SiteIDs)
<1>1. call[c] \in CallRecs
  BY DEF CallsOK
<1>2. call[c] # Idle
  BY DEF Idle
<1> QED BY <1>1, <1>2 DEF CallRecs

\* A call without an operation is one.
LEMMA PlainRec ==
    ASSUME NEW pc \in {"query", "get"}, NEW ok \in BOOLEAN
    PROVE  [Plain(pc) EXCEPT !.ok = ok] \in CallRecs /\ Plain(pc) \in CallRecs
<1>1. NoSites \in Snapshots
  BY DEF NoSites, Snapshots, Listing
<1>2. 0 \in 0..MaxEvents
  BY SitesAssumption
<1>3. \A b \in BOOLEAN :
        [pc |-> pc, op |-> "refresh", site |-> 0, at |-> 0, ok |-> b,
         snap |-> NoSites, doms |-> {}] \in CallState
  BY <1>1, <1>2 DEF CallState
<1>4. Plain(pc) \in CallState
  BY <1>3 DEF Plain
<1>5. [Plain(pc) EXCEPT !.ok = ok] =
        [pc |-> pc, op |-> "refresh", site |-> 0, at |-> 0, ok |-> ok,
         snap |-> NoSites, doms |-> {}]
  BY DEF Plain
<1>6. Plain(pc).op = "refresh" /\ [Plain(pc) EXCEPT !.ok = ok].op = "refresh"
  BY <1>5 DEF Plain
<1> QED BY <1>3, <1>4, <1>5, <1>6 DEF CallRecs

\* A call becomes another one, or ends.
LEMMA CallSet ==
    ASSUME CallsOK, NEW c \in Calls, NEW x \in CallRecs,
           call' = [call EXCEPT ![c] = x]
    PROVE  CallsOK'
  BY DEF CallsOK

\* Idle again is always allowed.
LEMMA CallEnds ==
    ASSUME CallsOK, NEW c \in Calls, Ends(c)
    PROVE  CallsOK'
<1>1. Idle \in CallRecs
  BY DEF CallRecs
<1> QED BY <1>1, CallSet DEF Ends

\* A call keeps its operation and goes on with other fields.
LEMMA CallGoesOn ==
    ASSUME CallsOK, NEW c \in Calls, call[c].pc # "idle",
           NEW x \in CallState, x.op = call[c].op, x.site = call[c].site,
           call' = [call EXCEPT ![c] = x]
    PROVE  CallsOK'
<1>1. x \in CallRecs
  BY Busy DEF CallRecs
<1> QED BY <1>1, CallSet

\* ... such as the next step.
LEMMA CallGoes ==
    ASSUME CallsOK, NEW c \in Calls, call[c].pc # "idle",
           NEW pc \in {"put", "tx", "update", "domains", "reply", "doms", "set"},
           Goes(c, pc)
    PROVE  CallsOK'
<1> DEFINE x == [call[c] EXCEPT !.pc = pc]
<1>1. call[c] \in CallState
  BY Busy
<1>2. x \in CallState /\ x.op = call[c].op /\ x.site = call[c].site
  BY <1>1 DEF CallState
<1>3. call' = [call EXCEPT ![c] = x]
  BY DEF Goes
<1> HIDE DEF x
<1> QED BY <1>2, <1>3, CallGoesOn

\* After its operation a call has only the answer to wait for.
LEMMA CallApplied ==
    ASSUME CallsOK, NEW c \in Calls, NEW ok \in BOOLEAN, Applied(c, ok)
    PROVE  CallsOK'
<1>1. [Plain("query") EXCEPT !.ok = ok] \in CallRecs
  BY PlainRec
<1> QED BY <1>1, CallSet DEF Applied
-----------------------------------------------------------------------------
(* The steps. *)

\* No call is in progress at the start, and other users' sites are in place.
LEMMA InitIInv == Init => IInv
<1> SUFFICES ASSUME Init PROVE IInv
  OBVIOUS
<1>0. 0 \in 0..MaxEvents
  BY SitesAssumption
<1>1. DbOK
  <2>1. PICK on \in SUBSET catalog :
          row = [s \in SiteIDs |-> IF s \in on THEN "on" ELSE "none"]
    BY DEF Init
  <2> QED BY <1>0, <2>1 DEF Init, DbOK, Listing
<1>2. AuthOK
  BY DEF Init, AuthOK
<1>3. DaemonOK
  BY DEF Init, DaemonOK, NoSites, Snapshots, Listing
<1>4. CallsOK
  BY DEF Init, CallsOK, CallRecs
<1>5. UserRowsGone
  BY DEF Init, UserRowsGone
<1> QED BY <1>0, <1>1, <1>2, <1>3, <1>4, <1>5 DEF IInv, Init

\* What a step leaves alone keeps its part of the invariant.
LEMMA Frame ==
    ASSUME IInv
    PROVE  /\ UNCHANGED dbVars => DbOK'
           /\ UNCHANGED authVars => AuthOK'
           /\ UNCHANGED daemonVars => DaemonOK'
           /\ UNCHANGED call => CallsOK'
           /\ UNCHANGED events \/ Event => events' \in 0..MaxEvents
           /\ UNCHANGED <<user, row, upd>> => UserRowsGone'
<1>1. UNCHANGED dbVars => DbOK'
  BY DEF IInv, DbOK, dbVars
<1>2. UNCHANGED authVars => AuthOK'
  BY DEF IInv, AuthOK, authVars
<1>3. UNCHANGED daemonVars => DaemonOK'
  BY DEF IInv, DaemonOK, daemonVars
<1>4. UNCHANGED call => CallsOK'
  BY DEF IInv, CallsOK
<1>5. UNCHANGED events \/ Event => events' \in 0..MaxEvents
  BY SitesAssumption DEF IInv, Event
<1>6. UNCHANGED <<user, row, upd>> => UserRowsGone'
  BY DEF IInv, UserRowsGone
<1> QED BY <1>1, <1>2, <1>3, <1>4, <1>5, <1>6

\* The daemon sends, or gives up.
LEMMA SendStep ==
    ASSUME IInv, NEW c \in Calls,
           \/ Refresh(c) \/ Fails(c)
           \/ \E s \in SiteIDs, op \in EditOps : Edit(c, op, s)
    PROVE  IInv'
<1>1. ASSUME NEW op \in EditOps \cup {"refresh"}, NEW s \in SiteIDs \cup {0},
             op # "refresh" => s \in SiteIDs,
             NEW at \in 0..MaxEvents, Send(c, op, s, at)
      PROVE  CallsOK'
  <2> DEFINE x == [Plain("sent") EXCEPT !.op = op, !.site = s, !.at = at]
  <2>1. NoSites \in Snapshots /\ 0 \in 0..MaxEvents
    BY SitesAssumption DEF NoSites, Snapshots, Listing
  <2>2. Plain("sent") \in CallState
    BY <2>1 DEF Plain, CallState
  <2>3. x \in CallState /\ x.op = op /\ x.site = s
    BY <1>1, <2>2 DEF CallState
  <2>4. x \in CallRecs
    BY <1>1, <2>3 DEF CallRecs
  <2>5. call' = [call EXCEPT ![c] = x]
    BY <1>1 DEF Send
  <2> HIDE DEF x
  <2> QED BY <2>4, <2>5, CallSet DEF IInv
<1>2. CASE Refresh(c)
  <2>1. 0 \in 0..MaxEvents
    BY SitesAssumption
  <2>2. CallsOK'
    BY <1>1, <1>2, <2>1 DEF Refresh
  <2> QED BY <1>2, <2>2, Frame DEF Refresh, IInv, dbVars, authVars
<1>3. ASSUME NEW s \in SiteIDs, NEW op \in EditOps, Edit(c, op, s)
      PROVE  IInv'
  <2>1. events' \in 0..MaxEvents
    BY <1>3, Frame DEF Edit
  <2>2. op # "refresh"
    BY DEF EditOps
  <2>3. CallsOK'
    BY <1>1, <1>3, <2>1, <2>2 DEF Edit
  <2> QED BY <1>3, <2>1, <2>3, Frame DEF Edit, IInv, dbVars, authVars
<1>4. CASE Fails(c)
  <2>1. CallsOK'
    BY <1>4, CallEnds DEF Fails, IInv
  <2> QED BY <1>4, <2>1, Frame DEF Fails, IInv, dbVars, authVars
<1> QED BY <1>2, <1>3, <1>4

\* DeviceAuth.
LEMMA AuthStep ==
    ASSUME IInv, NEW c \in Calls, CacheHit(c) \/ ReadDevice(c) \/ PutDevice(c)
    PROVE  IInv'
<1> USE DEF IInv
<1>1. CASE CacheHit(c)
  <2>1. CallsOK'
    BY <1>1, CallGoes, CallEnds DEF CacheHit
  <2> QED BY <1>1, <2>1, Frame DEF CacheHit, dbVars, authVars
<1>2. CASE ReadDevice(c)
  <2>1. PICK ok \in BOOLEAN : call' = [call EXCEPT ![c].pc = "put", ![c].ok = ok]
    BY <1>2 DEF ReadDevice, AuthOK
  <2> DEFINE x == [call[c] EXCEPT !.pc = "put", !.ok = ok]
  <2>2. call[c] \in CallState /\ call[c].pc # "idle"
    BY <1>2, Busy DEF ReadDevice
  <2>3. x \in CallState /\ x.op = call[c].op /\ x.site = call[c].site
    BY <2>2 DEF CallState
  <2>4. call' = [call EXCEPT ![c] = x]
    BY <2>1, <2>2 DEF CallsOK
  <2> HIDE DEF x
  <2>5. CallsOK'
    BY <2>2, <2>3, <2>4, CallGoesOn
  <2> QED BY <1>2, <2>5, Frame DEF ReadDevice, dbVars, authVars
<1>3. CASE PutDevice(c)
  <2>1. CallsOK'
    BY <1>3, CallGoes, CallEnds DEF PutDevice
  <2>2. AuthOK'
    BY <1>3 DEF PutDevice, AuthOK
  <2> QED BY <1>3, <2>1, <2>2, Frame DEF PutDevice, dbVars
<1> QED BY <1>1, <1>2, <1>3


\* The operation of a call on the tables: references are kept, and no row of a
\* deleted user appears.
LEMMA ApplyStep ==
    ASSUME IInv, NEW c \in Calls, ApplyOp(c)
    PROVE  IInv'
<1> DEFINE s == call[c].site
<1> USE DEF IInv
<1>1. /\ call[c] \in CallState /\ call[c].pc = "tx"
      /\ call[c].op # "refresh" => s \in SiteIDs
      /\ call[c].at \in 0..MaxEvents
  <2>1. call[c].pc = "tx"
    BY DEF ApplyOp
  <2>2. call[c] \in CallState
    BY <2>1, Busy
  <2> QED BY <2>1, <2>2, Busy DEF CallState
<1>2. AuthOK' /\ DaemonOK' /\ events' \in 0..MaxEvents /\ user' = user
  BY Frame DEF ApplyOp, authVars
<1>3. \A ok \in BOOLEAN : Applied(c, ok) => CallsOK'
  BY CallApplied
<1>4. CASE ApplyAddOp(c, s)
  <2>1. s \in SiteIDs
    BY <1>1, <1>4 DEF ApplyAddOp
  <2>2. DbOK'
    BY <1>1, <1>4, <2>1 DEF ApplyAddOp, DbOK, Listing
  <2>3. UserRowsGone'
    BY <1>2, <1>4 DEF ApplyAddOp, UserRowsGone
  <2> QED BY <1>2, <1>3, <1>4, <2>2, <2>3 DEF ApplyAddOp
<1>5. CASE ApplyRemoveOp(c, s)
  <2>1. 0 \in 0..MaxEvents
    BY SitesAssumption
  <2>2. s \in SiteIDs
    BY <1>1, <1>5 DEF ApplyRemoveOp
  <2>3. DbOK'
    BY <1>5, <2>1, <2>2 DEF ApplyRemoveOp, DbOK, Listing
  <2>4. UserRowsGone'
    BY <1>2, <1>5, <2>2 DEF ApplyRemoveOp, UserRowsGone, DbOK, Listing
  <2> QED BY <1>2, <1>3, <1>5, <2>3, <2>4 DEF ApplyRemoveOp
<1>6. CASE ApplyAddDomainOp(c, s)
  <2>1. s \in SiteIDs
    BY <1>1, <1>6 DEF ApplyAddDomainOp
  <2>2. DbOK'
    BY <1>6, <2>1 DEF ApplyAddDomainOp, DbOK
  <2>3. UserRowsGone' /\ CallsOK'
    BY <1>2, <1>3, <1>6, Frame DEF ApplyAddDomainOp
  <2> QED BY <1>2, <2>2, <2>3
<1>7. CASE ApplyToggleOp(c, s)
  <2>1. CallsOK'
    BY <1>1, <1>3, <1>7, CallGoes DEF ApplyToggleOp
  <2> QED BY <1>2, <1>7, <2>1, Frame DEF ApplyToggleOp, dbVars
<1>8. CASE AddRefused(c)
  BY <1>2, <1>8, CallEnds, Frame DEF AddRefused, dbVars
<1>9. CASE NoOp(c)
  BY <1>2, <1>3, <1>9, Frame DEF NoOp, dbVars
<1> QED BY <1>4, <1>5, <1>6, <1>7, <1>8, <1>9 DEF ApplyOp

\* The UPDATE of a toggle touches a row only if it is still there.
LEMMA UpdateStep ==
    ASSUME IInv, NEW c \in Calls, UpdateToggle(c)
    PROVE  IInv'
<1> DEFINE s == call[c].site
<1> USE DEF IInv
<1>1. call[c].pc = "update"
  BY DEF UpdateToggle
<1>2. call[c].at \in 0..MaxEvents
  BY <1>1, Busy DEF CallState
<1>3. AuthOK' /\ DaemonOK' /\ events' \in 0..MaxEvents /\ user' = user
  BY Frame DEF UpdateToggle, authVars
<1>4. CallsOK'
  BY CallApplied DEF UpdateToggle
<1>5. PICK to \in {"on", "off"} :
        /\ row' = [row EXCEPT ![s] = IF row[s] # "none" THEN to ELSE row[s]]
        /\ upd' = [upd EXCEPT ![s] = IF row[s] # "none" THEN call[c].at ELSE upd[s]]
        /\ UNCHANGED <<catalog, extra>>
  BY DEF UpdateToggle
<1>6. DbOK'
  BY <1>2, <1>5 DEF DbOK, Listing
<1>7. UserRowsGone'
  BY <1>3, <1>5 DEF UserRowsGone, DbOK, Listing
<1> QED BY <1>3, <1>4, <1>6, <1>7

\* The two queries of GetMySites fill the snapshot of the answer.
LEMMA QueryCall ==
    ASSUME IInv, NEW c \in Calls, QuerySites(c) \/ QueryDomains(c)
    PROVE  \E pc \in {"domains", "reply"}, y \in Snapshots :
             call' = [call EXCEPT ![c] = [call[c] EXCEPT !.pc = pc, !.snap = y]]
<1> USE DEF IInv
<1>1. call[c] \in CallState
  BY Busy DEF QuerySites, QueryDomains
<1>2. call[c].snap \in [row : Listing, dom : SUBSET Domains]
  BY <1>1 DEF CallState, Snapshots
<1>3. CASE QuerySites(c)
  <2> DEFINE y == [call[c].snap EXCEPT !.row = row]
  <2>1. y \in Snapshots
    BY <1>2 DEF Snapshots, DbOK
  <2>2. call' = [call EXCEPT ![c] = [call[c] EXCEPT !.pc = "domains", !.snap = y]]
    BY <1>1, <1>3 DEF QuerySites, CallsOK, CallState
  <2> HIDE DEF y
  <2> QED BY <2>1, <2>2
<1>4. CASE QueryDomains(c)
  <2> DEFINE y == [call[c].snap EXCEPT !.dom = DomainsOf(call[c].snap.row)]
  <2>1. y \in Snapshots
    BY <1>2 DEF Snapshots, DomainsOf
  <2>2. call' = [call EXCEPT ![c] = [call[c] EXCEPT !.pc = "reply", !.snap = y]]
    BY <1>1, <1>4 DEF QueryDomains, CallsOK, CallState
  <2> HIDE DEF y
  <2> QED BY <2>1, <2>2
<1> QED BY <1>3, <1>4

\* GetMySites.
LEMMA QueryStep ==
    ASSUME IInv, NEW c \in Calls, QuerySites(c) \/ QueryDomains(c)
    PROVE  IInv'
<1> USE DEF IInv
<1>1. call[c] \in CallState /\ call[c].pc # "idle"
  BY Busy DEF QuerySites, QueryDomains
<1>2. PICK pc \in {"domains", "reply"}, y \in Snapshots :
        call' = [call EXCEPT ![c] = [call[c] EXCEPT !.pc = pc, !.snap = y]]
  BY QueryCall
<1> DEFINE x == [call[c] EXCEPT !.pc = pc, !.snap = y]
<1>3. x \in CallState /\ x.op = call[c].op /\ x.site = call[c].site
  BY <1>1 DEF CallState
<1>4. call' = [call EXCEPT ![c] = x]
  BY <1>2
<1> HIDE DEF x
<1>5. CallsOK'
  BY <1>1, <1>3, <1>4, CallGoesOn
<1> QED BY <1>5, Frame DEF QuerySites, QueryDomains, dbVars, authVars

\* The manager uses the answer, or a push replaces the PAC data.
LEMMA ReceiveStep ==
    ASSUME IInv, NEW c \in Calls,
           Receive(c) \/ \E all \in BOOLEAN : PacSitesUpdate(c, all)
    PROVE  IInv'
<1> USE DEF IInv
<1>1. Plain("get") \in CallRecs
  BY PlainRec
<1>2. CallsOK'
  BY <1>1, CallSet, CallEnds DEF Receive, PacSitesUpdate
<1>3. CASE Receive(c)
  <2>1. call[c].snap \in Snapshots
    BY <1>3, Busy DEF Receive, CallState
  <2>2. DaemonOK'
    BY <1>3, <2>1 DEF Receive, DaemonOK
  <2> QED BY <1>2, <1>3, <2>2, Frame DEF Receive, dbVars, authVars
<1>4. ASSUME NEW all \in BOOLEAN, PacSitesUpdate(c, all)
      PROVE  IInv'
  <2>1. DaemonOK'
    BY <1>4 DEF PacSitesUpdate, DaemonOK
  <2> QED BY <1>2, <1>4, <2>1, Frame DEF PacSitesUpdate, dbVars, authVars
<1> QED BY <1>3, <1>4

\* RebuildPAC.
LEMMA RebuildStep ==
    ASSUME IInv, NEW c \in Calls,
           RebuildGet(c) \/ RebuildDomains(c) \/ RebuildSet(c)
    PROVE  IInv'
<1> USE DEF IInv
<1>1. call[c] \in CallState /\ call[c].pc # "idle"
  BY Busy DEF RebuildGet, RebuildDomains, RebuildSet
<1>2. ASSUME NEW pc \in {"doms", "set"}, NEW ds \in SUBSET Domains,
             call' = [call EXCEPT ![c].pc = pc, ![c].doms = ds]
      PROVE  CallsOK'
  <2> DEFINE x == [call[c] EXCEPT !.pc = pc, !.doms = ds]
  <2>1. x \in CallState /\ x.op = call[c].op /\ x.site = call[c].site
    BY <1>1 DEF CallState
  <2>2. call' = [call EXCEPT ![c] = x]
    BY <1>1, <1>2 DEF CallsOK
  <2> HIDE DEF x
  <2> QED BY <1>1, <2>1, <2>2, CallGoesOn
<1>3. CASE RebuildGet(c)
  <2>1. pac.doms \in SUBSET Domains
    BY DEF DaemonOK
  <2>2. CallsOK'
    BY <1>2, <1>3, <2>1, CallEnds DEF RebuildGet
  <2> QED BY <1>3, <2>2, Frame DEF RebuildGet, dbVars, authVars
<1>4. CASE RebuildDomains(c)
  <2>1. EnabledDomains(cache) \in SUBSET Domains
    BY DEF EnabledDomains, DaemonOK, Snapshots
  <2>2. CallsOK'
    BY <1>2, <1>4, <2>1, CallEnds DEF RebuildDomains
  <2> QED BY <1>4, <2>2, Frame DEF RebuildDomains, dbVars, authVars
<1>5. CASE RebuildSet(c)
  <2>1. call[c].doms \in SUBSET Domains
    BY <1>1 DEF CallState
  <2>2. DaemonOK'
    BY <1>5, <2>1 DEF RebuildSet, DaemonOK
  <2>3. CallsOK'
    BY <1>5, CallEnds DEF RebuildSet
  <2> QED BY <1>5, <2>2, <2>3, Frame DEF RebuildSet, dbVars, authVars
<1> QED BY <1>3, <1>4, <1>5


\* The admin, with the cascades of the database; entries of the cache expire.
LEMMA AdminStep ==
    ASSUME IInv,
           \/ \E s \in SiteIDs : DeleteSite(s) \/ DeleteSiteDomain(s)
           \/ UpdateDevice \/ DeleteDevice \/ DeleteUser \/ Invalidate \/ Expire
    PROVE  IInv'
<1> USE DEF IInv
<1>0. 0 \in 0..MaxEvents
  BY SitesAssumption
<1>1. ASSUME NEW s \in SiteIDs, DeleteSite(s)
      PROVE  IInv'
  <2>1. DbOK'
    BY <1>0, <1>1 DEF DeleteSite, DbOK, Listing
  <2>2. UserRowsGone'
    BY <1>1 DEF DeleteSite, UserRowsGone, DbOK, Listing, authVars
  <2> QED BY <1>1, <2>1, <2>2, Frame DEF DeleteSite, AdminActs
<1>2. ASSUME NEW s \in SiteIDs, DeleteSiteDomain(s)
      PROVE  IInv'
  <2>1. DbOK'
    BY <1>2 DEF DeleteSiteDomain, DbOK
  <2> QED BY <1>2, <2>1, Frame DEF DeleteSiteDomain, AdminActs, authVars
<1>3. CASE UpdateDevice \/ DeleteDevice
  <2>1. DbOK' /\ UserRowsGone'
    BY <1>3, Frame DEF UpdateDevice, DeleteDevice, WritesDevice, dbVars
  <2>2. AuthOK'
    BY <1>3 DEF UpdateDevice, DeleteDevice, WritesDevice, AuthOK
  <2> QED BY <1>3, <2>1, <2>2, Frame
       DEF UpdateDevice, DeleteDevice, WritesDevice, AdminActs
<1>4. CASE DeleteUser
  <2>1. DbOK'
    BY <1>0, <1>4 DEF DeleteUser, WritesDevice, DbOK, Listing
  <2>2. AuthOK'
    BY <1>4 DEF DeleteUser, WritesDevice, AuthOK
  <2>3. UserRowsGone'
    BY <1>4 DEF DeleteUser, UserRowsGone
  <2> QED BY <1>4, <2>1, <2>2, <2>3, Frame DEF DeleteUser, WritesDevice, AdminActs
<1>5. CASE Invalidate \/ Expire
  <2>1. AuthOK'
    BY <1>5 DEF Invalidate, Expire, AuthOK
  <2> QED BY <1>5, <2>1, Frame DEF Invalidate, Expire, dbVars
<1> QED BY <1>1, <1>2, <1>3, <1>4, <1>5

\* Every step of the daemon, the server or the admin keeps the invariant.
LEMMA NextIInv == IInv /\ [Next]_vars => IInv'
<1> SUFFICES ASSUME IInv, [Next]_vars PROVE IInv'
  OBVIOUS
<1>1. ASSUME NEW c \in Calls, Refresh(c) \/ Fails(c) \/ Proceed(c)
      PROVE  IInv'
  BY <1>1, SendStep, AuthStep, ApplyStep, UpdateStep, QueryStep, ReceiveStep,
     RebuildStep DEF Proceed
<1>2. ASSUME NEW c \in Calls, NEW s \in SiteIDs,
             \/ AddSite(c, s) \/ RemoveSite(c, s) \/ AddDomains(c, s)
             \/ \E enabled \in BOOLEAN : SetEnabled(c, s, enabled)
      PROVE  IInv'
  <2>1. \E op \in EditOps : Edit(c, op, s)
    BY <1>2 DEF AddSite, RemoveSite, AddDomains, SetEnabled, EditOps
  <2> QED BY <2>1, SendStep
<1>3. ASSUME NEW c \in Calls, NEW all \in BOOLEAN, PacSitesUpdate(c, all)
      PROVE  IInv'
  BY <1>3, ReceiveStep
<1>4. CASE UNCHANGED vars
  BY <1>4, Frame DEF IInv, vars, dbVars, authVars, daemonVars
<1> QED BY <1>1, <1>2, <1>3, <1>4, AdminStep DEF Next

\* The invariant holds in every reachable state.
THEOREM Invariance == Spec => []IInv
<1> QED BY InitIInv, NextIInv, PTL DEF Spec

-----------------------------------------------------------------------------
(* The theorems. *)

\* The references of the tables, which no statement of a transaction and no
\* cascade breaks however they interleave.
THEOREM TypeCorrect == Spec => []TypeOK
<1>1. IInv => TypeOK
  <2> SUFFICES ASSUME IInv PROVE TypeOK
    OBVIOUS
  <2>1. \A c \in Calls : call[c] = Idle \/ call[c] \in CallState
    BY DEF IInv, CallsOK, CallRecs
  <2>2. dev \in {FALSE, user}
    BY Zenon DEF IInv, AuthOK
  <2> QED BY <2>1, <2>2 DEF IInv, DbOK, AuthOK, DaemonOK, TypeOK
<1> QED BY <1>1, Invariance, PTL

\* No row of user_sites outlives or follows its user.
THEOREM RowsOfUserGone == Spec => []UserRowsGone
<1>1. IInv => UserRowsGone
  BY DEF IInv
<1> QED BY <1>1, Invariance, PTL

\* What a revoked daemon may still do with its calls.
CallsRevoked ==
    \A c \in Calls : /\ call[c].pc \notin {"tx", "update"}
                     /\ ~(call[c].pc = "put" /\ call[c].ok)

\* A call that moves on without getting in leaves the others where they are.
LEMMA StaysRevoked ==
    ASSUME IInv, CallsRevoked, NEW c \in Calls, NEW x,
           call' = [call EXCEPT ![c] = x],
           x.pc \notin {"tx", "update"}, ~(x.pc = "put" /\ x.ok)
    PROVE  CallsRevoked'
  BY DEF IInv, CallsOK, CallsRevoked

\* With a revoked device no statement of a request is executed, and lookups
\* find that the device is gone.
LEMMA RevokedStep ==
    ASSUME IInv, Revoked, [Next]_vars
    PROVE  /\ Revoked'
           /\ catalog' \subseteq catalog
           /\ extra' \subseteq extra
           /\ \A s \in SiteIDs : row'[s] \in {row[s], "none"}
<1> DEFINE Shrinks == /\ catalog' \subseteq catalog
                      /\ extra' \subseteq extra
                      /\ \A s \in SiteIDs : row'[s] \in {row[s], "none"}
<1> SUFFICES Revoked' /\ Shrinks
  OBVIOUS
<1>0. /\ CallsRevoked /\ ~dev /\ dcache # "found"
      /\ CallsRevoked' /\ ~dev' /\ dcache' # "found" => Revoked'
  BY DEF Revoked, CallsRevoked
<1>1. UNCHANGED dbVars => Shrinks
  BY DEF dbVars
<1>2. UNCHANGED call => CallsRevoked'
  BY <1>0 DEF CallsRevoked
<1>3. \A c \in Calls : Ends(c) => CallsRevoked'
  <2>1. Idle.pc \notin {"tx", "update"} /\ ~(Idle.pc = "put" /\ Idle.ok)
    BY DEF Idle
  <2> QED BY <1>0, <2>1, StaysRevoked DEF Ends
<1>4. \A c \in Calls :
        call' = [call EXCEPT ![c] = Plain("get")] => CallsRevoked'
  <2>1. Plain("get").pc = "get"
    BY DEF Plain
  <2> QED BY <1>0, <2>1, StaysRevoked

<1>5. ASSUME NEW c \in Calls, call[c].pc # "idle", NEW x \in CallState,
             x.pc \in {"domains", "reply", "doms", "set"},
             call' = [call EXCEPT ![c] = x]
      PROVE  CallsRevoked'
  BY <1>0, <1>5, StaysRevoked
<1>6. ASSUME NEW c \in Calls, NEW op, NEW s, NEW at, Send(c, op, s, at)
      PROVE  CallsRevoked'
  <2> DEFINE x == [Plain("sent") EXCEPT !.op = op, !.site = s, !.at = at]
  <2>1. x.pc = "sent"
    BY DEF Plain
  <2>2. call' = [call EXCEPT ![c] = x]
    BY <1>6 DEF Send
  <2> HIDE DEF x
  <2> QED BY <1>0, <2>1, <2>2, StaysRevoked
<1>7. ASSUME NEW c \in Calls,
             \/ Refresh(c) \/ Fails(c)
             \/ \E op \in EditOps, s \in SiteIDs : Edit(c, op, s)
      PROVE  Revoked' /\ Shrinks
  BY <1>0, <1>1, <1>3, <1>6, <1>7 DEF Refresh, Fails, Edit, authVars
<1>8. ASSUME NEW c \in Calls, CacheHit(c) \/ ReadDevice(c) \/ PutDevice(c)
      PROVE  Revoked' /\ Shrinks
  <2>1. CASE CacheHit(c)
    BY <1>0, <1>1, <1>3, <2>1 DEF CacheHit, authVars
  <2>2. CASE ReadDevice(c)
    <3> DEFINE x == [call[c] EXCEPT !.pc = "put", !.ok = FALSE]
    <3>1. call[c] \in CallState
      BY <2>2, Busy DEF ReadDevice, IInv
    <3>2. dev = FALSE
      BY <1>0 DEF IInv, AuthOK
    <3>3. call' = [call EXCEPT ![c].pc = "put", ![c].ok = FALSE]
      BY <2>2, <3>2 DEF ReadDevice
    <3>4. call' = [call EXCEPT ![c] = x]
      BY <3>1, <3>3 DEF IInv, CallsOK
    <3>5. x.pc = "put" /\ x.ok = FALSE
      BY <3>1 DEF CallState
    <3> HIDE DEF x
    <3>6. CallsRevoked'
      BY <1>0, <3>4, <3>5, StaysRevoked
    <3> QED BY <1>0, <1>1, <2>2, <3>6 DEF ReadDevice, authVars
  <2>3. CASE PutDevice(c)
    <3>1. ~call[c].ok
      BY <1>0, <2>3 DEF PutDevice, CallsRevoked
    <3> QED BY <1>0, <1>1, <1>3, <2>3, <3>1 DEF PutDevice
  <2> QED BY <1>8, <2>1, <2>2, <2>3
<1>9. ASSUME NEW c \in Calls, ApplyOp(c) \/ UpdateToggle(c)
      PROVE  FALSE
  BY <1>0, <1>9 DEF ApplyOp, UpdateToggle, CallsRevoked
<1>10. ASSUME NEW c \in Calls, QuerySites(c) \/ QueryDomains(c)
       PROVE  Revoked' /\ Shrinks
  <2>1. call[c] \in CallState /\ call[c].pc # "idle"
    BY <1>10, Busy DEF IInv, QuerySites, QueryDomains
  <2>2. PICK pc \in {"domains", "reply"}, y \in Snapshots :
          call' = [call EXCEPT ![c] = [call[c] EXCEPT !.pc = pc, !.snap = y]]
    BY <1>10, QueryCall
  <2> DEFINE x == [call[c] EXCEPT !.pc = pc, !.snap = y]
  <2>3. x \in CallState /\ x.pc = pc
    BY <2>1 DEF CallState
  <2>4. call' = [call EXCEPT ![c] = x]
    BY <2>2
  <2> HIDE DEF x
  <2>5. CallsRevoked'
    BY <1>5, <2>1, <2>3, <2>4
  <2> QED BY <1>0, <1>1, <1>10, <2>5 DEF QuerySites, QueryDomains, authVars
<1>11. ASSUME NEW c \in Calls,
              \/ Receive(c)
              \/ \E all \in BOOLEAN : PacSitesUpdate(c, all)
       PROVE  Revoked' /\ Shrinks
  BY <1>0, <1>1, <1>3, <1>4, <1>11 DEF Receive, PacSitesUpdate, authVars
<1>12. ASSUME NEW c \in Calls, RebuildGet(c) \/ RebuildDomains(c) \/ RebuildSet(c)
       PROVE  Revoked' /\ Shrinks
  <2>1. call[c] \in CallState /\ call[c].pc # "idle"
    BY <1>12, Busy DEF IInv, RebuildGet, RebuildDomains, RebuildSet
  <2>2. ASSUME NEW pc \in {"doms", "set"}, NEW ds \in SUBSET Domains,
               call' = [call EXCEPT ![c].pc = pc, ![c].doms = ds]
        PROVE  CallsRevoked'
    <3> DEFINE x == [call[c] EXCEPT !.pc = pc, !.doms = ds]
    <3>1. x \in CallState /\ x.pc = pc
      BY <2>1 DEF CallState
    <3>2. call' = [call EXCEPT ![c] = x]
      BY <2>1, <2>2 DEF IInv, CallsOK
    <3> HIDE DEF x
    <3> QED BY <1>5, <2>1, <3>1, <3>2
  <2>3. pac.doms \in SUBSET Domains /\ EnabledDomains(cache) \in SUBSET Domains
    BY DEF IInv, DaemonOK, EnabledDomains, Snapshots
  <2>4. CallsRevoked'
    BY <1>3, <1>12, <2>2, <2>3 DEF RebuildGet, RebuildDomains, RebuildSet
  <2> QED BY <1>0, <1>1, <1>12, <2>4
       DEF RebuildGet, RebuildDomains, RebuildSet, authVars
<1>13. CASE \E s \in SiteIDs : DeleteSite(s) \/ DeleteSiteDomain(s)
  BY <1>0, <1>2, <1>13
     DEF DeleteSite, DeleteSiteDomain, AdminActs, authVars, IInv, DbOK, Listing
<1>14. CASE UpdateDevice \/ DeleteDevice \/ DeleteUser
  BY <1>0, <1>14 DEF UpdateDevice, DeleteDevice, DeleteUser, WritesDevice
<1>15. CASE Invalidate \/ Expire \/ UNCHANGED vars
  BY <1>0, <1>1, <1>2, <1>15 DEF Invalidate, Expire, vars, authVars
<1>16. ASSUME NEW c \in Calls, NEW s \in SiteIDs,
              \/ AddSite(c, s) \/ RemoveSite(c, s) \/ AddDomains(c, s)
              \/ \E enabled \in BOOLEAN : SetEnabled(c, s, enabled)
       PROVE  Revoked' /\ Shrinks
  <2>1. \E op \in EditOps : Edit(c, op, s)
    BY <1>16 DEF AddSite, RemoveSite, AddDomains, SetEnabled, EditOps
  <2> QED BY <1>7, <2>1
<1>17. ASSUME NEW c \in Calls, Proceed(c)
       PROVE  Revoked' /\ Shrinks
  BY <1>8, <1>9, <1>10, <1>11, <1>12, <1>17 DEF Proceed
<1> HIDE DEF Shrinks
<1>18. ASSUME NEW c \in Calls, Refresh(c) \/ Fails(c) \/ Proceed(c)
       PROVE  Revoked' /\ Shrinks
  BY <1>7, <1>17, <1>18
<1>19. ASSUME NEW c \in Calls, NEW all \in BOOLEAN, PacSitesUpdate(c, all)
       PROVE  Revoked' /\ Shrinks
  BY <1>11, <1>19
<1> QED
  BY <1>13, <1>14, <1>15, <1>16, <1>18, <1>19 DEF Next

\* A revocation that has taken effect is final.
THEOREM RevocationIsFinal == Spec => RevocationFinal
<1>1. IInv /\ [Next]_vars =>
        [Revoked => /\ Revoked'
                    /\ catalog' \subseteq catalog
                    /\ extra' \subseteq extra
                    /\ \A s \in SiteIDs : row'[s] \in {row[s], "none"}]_vars
  BY RevokedStep
<1> QED BY <1>1, Invariance, PTL DEF Spec, RevocationFinal

=============================================================================
