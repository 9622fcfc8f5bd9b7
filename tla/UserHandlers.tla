---------------------------- MODULE UserHandlers ----------------------------
(***************************************************************************)
(* internal/controller/handler_controller.go: adding users to the inbounds *)
(* of the running core, removing them, and dropping their connections.     *)
(* Requests run concurrently, with each other and with the start and stop  *)
(* handlers, of which this module keeps what user requests can see: the    *)
(* instance goes away, another one is published with the users of its      *)
(* configuration, and the known tags are reset in two steps.               *)
(*                                                                         *)
(* A step is one critical section of RuntimeState.mu, one lookup of        *)
(* c.instance, or one call into the inbound of the instance that was       *)
(* looked up, which may be closed by then.  Lists of tags, users and IPs   *)
(* are gone through in any order.                                          *)
(*                                                                         *)
(* A user's credentials (UUID, passwords) are one value, a version; the    *)
(* hash that RuntimeState records is the pair of user and version.  The    *)
(* items of an AddUser carry one name: what the code removes is that of    *)
(* the first.                                                              *)
(***************************************************************************)
CONSTANTS
  Requests,     \* the user requests
  Inputs,       \* what they may carry, see InputOK
  Users, Versions, Tags, IPs,
  NoVersion,    \* no account; no prevVlessUuid
  Instances, NoInstance,
  Configs,      \* the accounts a started configuration may come with
  DropOutcomes  \* of dropping an IP: "dropped", "unavailable" or "error"

Accounts(tags) == [tags -> [Users -> Versions \cup {NoVersion}]]

Kinds == {"add", "addMany", "remove", "removeMany", "dropUsers", "dropIPs"}

\* Of each user: tags, the inbounds to add to; version, the credentials to add, or those
\* whose hash is to be removed; previous, prevVlessUuid, or hashUuid in bulk.  affected:
\* the AffectedInboundTags of AddUsers.
InputOK(in) ==
  /\ in.kind \in Kinds
  /\ in.users \subseteq Users
  /\ in.kind \in {"add", "remove"} => \E u \in Users : in.users = {u}
  /\ in.kind = "dropIPs" => in.users = {}
  /\ in.tags \in [Users -> SUBSET Tags]
  /\ in.affected \subseteq Tags
  /\ in.ips \subseteq IPs
  /\ in.version \in [Users -> Versions]
  /\ in.previous \in [Users -> Versions \cup {NoVersion}]

ASSUME InputsOK == \A in \in Inputs : InputOK(in)

ASSUME NotEmpty == Inputs # {} /\ Users # {} /\ Tags # {}

ASSUME DistinctNothing == NoVersion \notin Versions /\ NoInstance \notin Instances

ASSUME ConfigsOK == \A c \in Configs : \E tags \in SUBSET Tags : c \in Accounts(tags)

VARIABLES
  instance,   \* c.instance
  accounts,   \* per instance, the accounts in its inbounds; external
  sessions,   \* the connections of users to the running core; external
  started,    \* the start at work: "no", "publish" or "record" came last
  newest,     \* the instance published last
  knownTags,  \* KnownInboundTag
  recorded,   \* InboundUsers
  job         \* per request, its locals

coreVars == <<instance, accounts, sessions, started, newest>>
stateVars == <<knownTags, recorded>>
vars == <<coreVars, stateVars, job>>

Running == instance # NoInstance
Inbounds(i) == IF i = NoInstance THEN {} ELSE DOMAIN accounts[i]

\* The version of u that instance i accepts at tag.
Account(i, tag, u) == IF tag \in Inbounds(i) THEN accounts[i][tag][u] ELSE NoVersion

IdleJob(in) ==
  [pc |-> "idle", in |-> in, left |-> {}, user |-> CHOOSE u \in Users : TRUE,
   todo |-> {}, ips |-> {}, tag |-> CHOOSE t \in Tags : TRUE, met |-> NoInstance,
   captured |-> {}, hit |-> FALSE, success |-> FALSE, disturbed |-> FALSE]

Init ==
  /\ instance = NoInstance
  /\ accounts = [i \in Instances |-> <<>>]
  /\ sessions = {}
  /\ started = "no"
  /\ newest = NoInstance
  /\ knownTags = {}
  /\ recorded = [t \in Tags |-> {}]
  /\ job = [r \in Requests |-> IdleJob(CHOOSE in \in Inputs : TRUE)]

-----------------------------------------------------------------------------
(***************************************************************************)
(* The start and stop handlers as user requests see them, and the users.   *)
(* `disturbed' records history: while the request was at work, something   *)
(* else touched the instance, or a request for one of its users did.       *)
(***************************************************************************)
Active(r) == job[r].pc \notin {"idle", "done"}

DisturbAll ==
  job' = [r \in Requests |->
            IF Active(r) THEN [job[r] EXCEPT !.disturbed = TRUE] ELSE job[r]]

\* Stop, or the first half of a start: the instance is closed.
CloseCore ==
  /\ Running
  /\ instance' = NoInstance
  /\ sessions' = {}
  /\ DisturbAll
  /\ UNCHANGED <<accounts, started, newest, stateVars>>

PublishCore(i) ==
  /\ ~Running /\ started = "no" /\ accounts[i] = <<>>
  /\ \E config \in Configs : accounts' = [accounts EXCEPT ![i] = config]
  /\ instance' = i
  /\ newest' = i
  /\ started' = "publish"
  /\ DisturbAll
  /\ UNCHANGED <<sessions, stateVars>>

\* SetXrayStarted: the hashes of the request name any tags.
RecordStarted ==
  /\ started = "publish"
  /\ knownTags' \in SUBSET Tags
  /\ recorded' = [t \in Tags |-> {}]
  /\ started' = "record"
  /\ DisturbAll
  /\ UNCHANGED <<instance, accounts, sessions, newest>>

\* FAULT: remembers the protocols only, the tags are those of the hashes.
RecordProtocolsOnly ==
  /\ started = "record"
  /\ started' = "no"
  /\ DisturbAll
  /\ UNCHANGED <<instance, accounts, sessions, newest, stateVars>>

\* SetInboundProtocolsFromConfig.
RecordProtocols ==
  /\ started = "record"
  /\ knownTags' = knownTags \cup Inbounds(newest)
  /\ started' = "no"
  /\ DisturbAll
  /\ UNCHANGED <<instance, accounts, sessions, newest, recorded>>

\* A user connects with an account that an inbound accepts, and leaves.
Connect(u, tag, ip) ==
  /\ Account(instance, tag, u) # NoVersion
  /\ sessions' = sessions \cup
       {[user |-> u, ip |-> ip, version |-> Account(instance, tag, u)]}
  /\ UNCHANGED <<instance, accounts, started, newest, stateVars, job>>

Leave(s) ==
  /\ sessions' = sessions \ {s}
  /\ UNCHANGED <<instance, accounts, started, newest, stateVars, job>>

-----------------------------------------------------------------------------
(***************************************************************************)
(* The handlers.  The label of a job names its next step.                  *)
(***************************************************************************)
Adds(r) == job[r].in.kind \in {"add", "addMany"}
Removes(r) == job[r].in.kind \in {"remove", "removeMany"}

At(r, label) == job[r].pc = label
Continue(r, j) == job' = [job EXCEPT ![r] = j]

\* Nothing named to drop.
NothingToDrop(in) ==
  \/ in.kind = "dropUsers" /\ in.users = {}
  \/ in.kind = "dropIPs" /\ in.ips = {}

\* An AddUser without data.
EmptyAdd(in) == in.kind = "add" /\ \A u \in in.users : in.tags[u] = {}

\* The first step by kind: add, addMany: announce the tags; remove, removeMany:
\* look for known tags; dropUsers: look for the core; dropIPs: drop them.
FirstStep(in) ==
  IF NothingToDrop(in) THEN "answer"
  ELSE IF EmptyAdd(in) THEN "empty"
  ELSE CASE in.kind = "add"                       -> "announce"
         [] in.kind = "addMany"                   -> "affected"
         [] in.kind \in {"remove", "removeMany"} -> "check"
         [] in.kind = "dropUsers"                -> "client"
         [] in.kind = "dropIPs"                  -> "drop"

\* The requests at work on a user of the input.
AtWorkOn(in) == {q \in Requests : Active(q) /\ job[q].in.users \cap in.users # {}}

BegunJob(in) ==
  [IdleJob(in) EXCEPT
     !.pc = FirstStep(in), !.left = in.users,
     !.todo = UNION {in.tags[u] : u \in in.users}, !.ips = in.ips,
     !.success = in.kind = "dropIPs" /\ in.ips # {},
     !.disturbed = started # "no" \/ AtWorkOn(in) # {}]

Begin(r) ==
  /\ At(r, "idle")
  /\ \E in \in Inputs :
       job' = [q \in Requests |->
                 IF q = r THEN BegunJob(in)
                 ELSE [job[q] EXCEPT !.disturbed = @ \/ q \in AtWorkOn(in)]]
  /\ UNCHANGED <<coreVars, stateVars>>

\* AddKnownInboundTags.
AnnounceAffected(r) ==
  /\ At(r, "affected")
  /\ knownTags' = knownTags \cup job[r].in.affected
  /\ Continue(r, [job[r] EXCEPT !.pc = "announce"])
  /\ UNCHANGED <<coreVars, recorded>>

\* AddKnownInboundTag and SetInboundProtocol, tag by tag; then handlerClient.
Announce(r) ==
  /\ At(r, "announce")
  /\ IF job[r].todo = {}
     THEN /\ Continue(r, [job[r] EXCEPT !.pc = "client"])
          /\ UNCHANGED knownTags
     ELSE \E t \in job[r].todo :
            /\ knownTags' = knownTags \cup {t}
            /\ Continue(r, [job[r] EXCEPT !.todo = @ \ {t}])
  /\ UNCHANGED <<coreVars, recorded>>

\* Nothing to do, success: no data, or no tag a user could be at.
Nothing(r) ==
  /\ At(r, "empty")
  /\ Continue(r, [job[r] EXCEPT !.pc = "answer", !.success = TRUE])
  /\ UNCHANGED <<coreVars, stateVars>>

CheckKnown(r) ==
  /\ At(r, "check")
  /\ Continue(r, [job[r] EXCEPT !.pc = IF knownTags = {} THEN "empty" ELSE "client"])
  /\ UNCHANGED <<coreVars, stateVars>>

\* handlerClient, statsClient: without a core a request fails, except that
\* there is then no connection to drop.
LookForCore(r) ==
  /\ At(r, "client")
  /\ LET in == job[r].in IN
     Continue(r, [job[r] EXCEPT
       !.pc = IF Running THEN "user" ELSE "answer",
       !.success = \/ in.kind = "dropUsers"
                   \/ Running /\ in.kind = "removeMany"
                   \/ Running /\ in.kind = "addMany" /\ in.users = {}])
  /\ UNCHANGED <<coreVars, stateVars>>

\* An AddUser with prevVlessUuid.
Swaps(in, u) == in.kind = "add" /\ in.previous[u] # NoVersion

NextUser(r) ==
  /\ At(r, "user")
  /\ \E u \in job[r].left :
       Continue(r, [job[r] EXCEPT
         !.left = @ \ {u}, !.user = u, !.hit = FALSE, !.captured = {},
         !.pc = IF job[r].in.kind = "dropUsers" THEN "lookIPs"
                ELSE IF Swaps(job[r].in, u) THEN "capture" ELSE "tags"])
  /\ UNCHANGED <<coreVars, stateVars>>

AllUsersDone(r) ==
  /\ At(r, "user")
  /\ job[r].left = {}
  /\ Continue(r, [job[r] EXCEPT !.pc = "answer"])
  /\ UNCHANGED <<coreVars, stateVars>>

\* currentUserIPs: statsClient, and no addresses without a core.
LookForStats(r) ==
  /\ At(r, "capture")
  /\ Continue(r, [job[r] EXCEPT !.pc = IF Running THEN "lookIPs" ELSE "tags"])
  /\ UNCHANGED <<coreVars, stateVars>>

\* embeddedStatsClient.manager.
LookUpIPs(r) ==
  /\ At(r, "lookIPs")
  /\ Continue(r, [job[r] EXCEPT !.met = instance, !.pc = "readIPs"])
  /\ UNCHANGED <<coreVars, stateVars>>

\* UserIPList: an error, and so no addresses, if there was no instance to be found; any
\* addresses from one that is closed by now.
CaptureIPs(r) ==
  /\ At(r, "readIPs")
  /\ \E ips \in SUBSET IPs :
       /\ job[r].met = NoInstance => ips = {}
       /\ job[r].met # NoInstance /\ job[r].met = instance =>
            ips = {s.ip : s \in {x \in sessions : x.user = job[r].user}}
       /\ Continue(r, [job[r] EXCEPT !.captured = ips, !.ips = ips, !.met = NoInstance,
                                       !.pc = IF Adds(r) THEN "tags" ELSE "drop"])
  /\ UNCHANGED <<coreVars, stateVars>>

\* FAULT: the tags of the request only.
ReadRequestTags(r) ==
  /\ At(r, "tags")
  /\ Continue(r, [job[r] EXCEPT !.todo = IF Adds(r) THEN job[r].in.tags[job[r].user]
                                      ELSE knownTags,
                              !.pc = "remove"])
  /\ UNCHANGED <<coreVars, stateVars>>

\* KnownInboundTags: read once, gone through below.
ReadTags(r) ==
  /\ At(r, "tags")
  /\ Continue(r, [job[r] EXCEPT !.todo = knownTags, !.pc = "remove"])
  /\ UNCHANGED <<coreVars, stateVars>>

\* embeddedHandlerClient.manager, at the next tag.
RemoveLooks(r) ==
  /\ At(r, "remove")
  /\ \E t \in job[r].todo :
       Continue(r, [job[r] EXCEPT !.tag = t, !.met = instance, !.pc = "removeAct"])
  /\ UNCHANGED <<coreVars, stateVars>>

RemoveActs(r) ==
  /\ At(r, "removeAct")
  /\ LET i == job[r].met
         t == job[r].tag
         u == job[r].user
         found == Account(i, t, u) # NoVersion
     IN /\ accounts' = IF found THEN [accounts EXCEPT ![i][t][u] = NoVersion] ELSE accounts
        /\ Continue(r, [job[r] EXCEPT !.hit = @ \/ found, !.met = NoInstance,
                                        !.pc = "forget"])
  /\ UNCHANGED <<instance, sessions, started, newest, stateVars>>

\* FAULT: the previous version only.
RemovedPrevious(in, u) == in.previous[u]

\* The version whose hash is removed.
RemovedVersion(in, u) ==
  IF in.kind = "addMany" \/ Swaps(in, u) THEN in.previous[u] ELSE in.version[u]

\* RemoveUserFromInbound, whether or not the core knew the user.
Forget(r) ==
  /\ At(r, "forget")
  /\ recorded' = [recorded EXCEPT
                    ![job[r].tag] = @ \ {<<job[r].user, RemovedVersion(job[r].in, job[r].user)>>}]
  /\ Continue(r, [job[r] EXCEPT !.todo = @ \ {job[r].tag}, !.pc = "remove"])
  /\ UNCHANGED <<coreVars, knownTags>>

RemoveDone(r) ==
  /\ At(r, "remove")
  /\ job[r].todo = {}
  /\ \/ /\ job[r].in.kind = "remove"
        /\ Continue(r, [job[r] EXCEPT !.success = job[r].hit, !.pc = "answer"])
     \/ /\ job[r].in.kind = "removeMany"
        /\ Continue(r, [job[r] EXCEPT !.success = @ /\ job[r].hit, !.pc = "user"])
     \/ /\ job[r].in.kind = "add"
        /\ Continue(r, [job[r] EXCEPT !.ips = job[r].captured, !.pc = "drop"])
     \/ /\ job[r].in.kind = "addMany"
        /\ Continue(r, [job[r] EXCEPT !.todo = job[r].in.tags[job[r].user], !.pc = "add"])
  /\ UNCHANGED <<coreVars, stateVars>>

\* dropConnectionIP.  It cuts every connection of the address, whoever's; an
\* error fails the drop requests, and is only logged by an add.
DropIP(r) ==
  /\ At(r, "drop")
  /\ \E ip \in job[r].ips, outcome \in DropOutcomes :
       /\ sessions' = IF outcome = "dropped" THEN {s \in sessions : s.ip # ip} ELSE sessions
       /\ Continue(r, [job[r] EXCEPT
            !.ips = @ \ {ip},
            !.captured = IF outcome = "dropped" THEN @ ELSE @ \ {ip},
            !.success = @ /\ (Adds(r) \/ outcome # "error")])
  /\ UNCHANGED <<instance, accounts, started, newest, stateVars>>

DropDone(r) ==
  /\ At(r, "drop")
  /\ job[r].ips = {}
  /\ \/ Adds(r) /\ Continue(r, [job[r] EXCEPT !.todo = job[r].in.tags[job[r].user], !.pc = "add"])
     \/ ~Adds(r) /\ Continue(r, [job[r] EXCEPT !.pc = "user"])
  /\ UNCHANGED <<coreVars, stateVars>>

\* In bulk the tag is made known again, user by user (SetInboundProtocol).
NextInbound(r) ==
  /\ At(r, "add")
  /\ \E t \in job[r].todo :
       /\ Continue(r, [job[r] EXCEPT !.tag = t, !.pc = "addLook"])
       /\ knownTags' = IF job[r].in.kind = "addMany" THEN knownTags \cup {t} ELSE knownTags
  /\ UNCHANGED <<coreVars, recorded>>

\* embeddedHandlerClient.manager again.
AddLooks(r) ==
  /\ At(r, "addLook")
  /\ Continue(r, [job[r] EXCEPT !.met = instance, !.pc = "addAct"])
  /\ UNCHANGED <<coreVars, stateVars>>

\* FAULT: counts as a success.
AddRefusedUnnoticed(r) ==
  /\ At(r, "addAct")
  /\ Continue(r, [job[r] EXCEPT !.todo = @ \ {job[r].tag}, !.met = NoInstance,
                              !.success = TRUE, !.pc = "add"])
  /\ UNCHANGED <<coreVars, stateVars>>

\* BuildProtocolUser or the inbound may refuse the user; a name an inbound
\* has already, it does refuse.
AddRefused(r) ==
  /\ At(r, "addAct")
  /\ Continue(r, [job[r] EXCEPT !.todo = @ \ {job[r].tag}, !.met = NoInstance, !.pc = "add"])
  /\ UNCHANGED <<coreVars, stateVars>>

AddAccepted(r) ==
  /\ At(r, "addAct")
  /\ LET i == job[r].met
         t == job[r].tag
         u == job[r].user
     IN /\ t \in Inbounds(i)
        /\ Account(i, t, u) = NoVersion
        /\ accounts' = [accounts EXCEPT ![i][t][u] = job[r].in.version[u]]
  /\ Continue(r, [job[r] EXCEPT !.success = TRUE, !.met = NoInstance, !.pc = "record"])
  /\ UNCHANGED <<instance, sessions, started, newest, stateVars>>

\* FAULT: only what was recorded matters, the tag is taken to be known.
RecordUserOnly(r) ==
  /\ At(r, "record")
  /\ recorded' = [recorded EXCEPT
                    ![job[r].tag] = @ \cup {<<job[r].user, job[r].in.version[job[r].user]>>}]
  /\ Continue(r, [job[r] EXCEPT !.todo = @ \ {job[r].tag}, !.pc = "add"])
  /\ UNCHANGED <<coreVars, knownTags>>

\* AddUserToInbound.
RecordUser(r) ==
  /\ At(r, "record")
  /\ recorded' = [recorded EXCEPT
                    ![job[r].tag] = @ \cup {<<job[r].user, job[r].in.version[job[r].user]>>}]
  /\ knownTags' = knownTags \cup {job[r].tag}
  /\ Continue(r, [job[r] EXCEPT !.todo = @ \ {job[r].tag}, !.pc = "add"])
  /\ UNCHANGED coreVars

AddDone(r) ==
  /\ At(r, "add")
  /\ job[r].todo = {}
  /\ Continue(r, [job[r] EXCEPT !.pc = "user"])
  /\ UNCHANGED <<coreVars, stateVars>>

\* writeSuccess; the locals are gone.
Answer(r) ==
  /\ At(r, "answer")
  /\ Continue(r, [IdleJob(job[r].in) EXCEPT !.pc = "done"])
  /\ UNCHANGED <<coreVars, stateVars>>

-----------------------------------------------------------------------------
Restart ==
  \/ CloseCore
  \/ \E i \in Instances : PublishCore(i)
  \/ RecordStarted
  \/ RecordProtocols

UsersConnect ==
  \/ \E u \in Users, t \in Tags, ip \in IPs : Connect(u, t, ip)
  \/ \E s \in sessions : Leave(s)

RequestStep(r) ==
  \/ Begin(r) \/ AnnounceAffected(r) \/ Announce(r) \/ Nothing(r) \/ CheckKnown(r)
  \/ LookForCore(r)
  \/ NextUser(r) \/ AllUsersDone(r)
  \/ LookForStats(r) \/ LookUpIPs(r) \/ CaptureIPs(r)
  \/ ReadTags(r) \/ RemoveLooks(r) \/ RemoveActs(r) \/ Forget(r) \/ RemoveDone(r)
  \/ DropIP(r) \/ DropDone(r)
  \/ NextInbound(r) \/ AddLooks(r) \/ AddRefused(r) \/ AddAccepted(r) \/ RecordUser(r) \/ AddDone(r)
  \/ Answer(r)

Next ==
  \/ Restart
  \/ UsersConnect
  \/ \E r \in Requests : RequestStep(r)

Spec == Init /\ [][Next]_vars

-----------------------------------------------------------------------------
Labels ==
  {"idle", "affected", "announce", "check", "empty", "client", "user", "capture", "lookIPs",
   "readIPs", "tags", "remove", "removeAct", "forget", "drop", "add", "addLook", "addAct",
   "record", "answer", "done"}

Jobs ==
  [pc : Labels, in : Inputs, left : SUBSET Users, user : Users,
   todo : SUBSET Tags, ips : SUBSET IPs, tag : Tags, met : Instances \cup {NoInstance},
   captured : SUBSET IPs, hit : BOOLEAN, success : BOOLEAN, disturbed : BOOLEAN]

\* Every variable keeps its type, and the published instance is the newest.
UserTypeOK ==
  /\ instance \in {NoInstance, newest}
  /\ newest \in Instances \cup {NoInstance}
  /\ accounts \in [Instances -> UNION {Accounts(tags) : tags \in SUBSET Tags}]
  /\ sessions \subseteq [user : Users, ip : IPs, version : Versions]
  /\ started \in {"no", "publish", "record"}
  /\ knownTags \subseteq Tags
  /\ recorded \in [Tags -> SUBSET (Users \X Versions)]
  /\ job \in [Requests -> Jobs]

\* Once a start has been recorded, every inbound of the running core is known:
\* the handlers look for a user at known tags only (KnownInboundTags), so an
\* inbound they do not know keeps a removed user for ever.  SetXrayStarted
\* empties the tags, and requests go on adding theirs at any time.
KnownTagsCoverInbounds == started = "no" => Inbounds(instance) \subseteq knownTags

\* Whatever user hashes are recorded, they are recorded at known tags, or
\* RemoveUserFromInbound would never be called for them.  An add that records
\* its user after a restart has emptied the tags makes its tag known again.
RecordedAtKnownTags == \A t \in Tags : recorded[t] # {} => t \in knownTags

Undisturbed(r) == At(r, "answer") /\ ~job[r].disturbed
Served(u, t) == Account(instance, t, u) # NoVersion

\* AddUser and AddUsers: when nobody interferes, then at the answer each user of
\* the request is served at no other inbound than those requested for it, with
\* its new credentials only, and with its hash recorded there; and the request
\* succeeded if and only if one of its users is served anywhere.
AddedExactly ==
  \A r \in Requests :
    LET in == job[r].in IN
    Undisturbed(r) /\ Adds(r) /\ ~EmptyAdd(in) /\ in.users # {} =>
      /\ \A u \in in.users, t \in Inbounds(instance) :
           Served(u, t) => /\ t \in in.tags[u]
                           /\ Account(instance, t, u) = in.version[u]
                           /\ <<u, in.version[u]>> \in recorded[t]
      /\ job[r].success <=> \E u \in in.users, t \in Tags : Served(u, t)

\* RemoveUser and RemoveUsers: when nobody interferes and the core runs, then
\* at the answer, whatever it is, no inbound serves a user of the request, and
\* the hash the request names for it is recorded nowhere, the tags included that the
\* core does not have.
RemovedCompletely ==
  \A r \in Requests :
    LET in == job[r].in IN
    Undisturbed(r) /\ Removes(r) /\ Running =>
      \A u \in in.users, t \in Tags :
        ~Served(u, t) /\ <<u, in.version[u]>> \notin recorded[t]

\* AddUser with prevVlessUuid: when nobody interferes, then at the answer no
\* session of the user with other credentials than the new ones is left on an
\* address that was captured and dropped: the accounts go before the
\* connections do, so that none of them can come back.
CapturedDoNotSurvive ==
  \A r \in Requests :
    Undisturbed(r) /\ job[r].in.kind = "add" =>
      \A s \in sessions :
        s.user \in job[r].in.users /\ s.ip \in job[r].captured =>
          s.version = job[r].in.version[s.user]

\* Not so: handler_controller.go:60-62, "capture the user's current IPs before
\* removal, then drop those connections so stale sessions with the previous
\* UUID do not survive the swap".  A session with the previous UUID that comes
\* from another address between the capture and the removal survives, even
\* when nothing else is at work and every drop succeeds.
StaleSessionsDoNotSurvive ==
  \A r \in Requests :
    Undisturbed(r) =>
      \A s \in sessions :
        s.user \in job[r].in.users /\ Swaps(job[r].in, s.user) =>
          s.version = job[r].in.version[s.user]
=============================================================================
