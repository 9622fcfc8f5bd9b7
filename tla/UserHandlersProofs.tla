------------------------- MODULE UserHandlersProofs -------------------------
(***************************************************************************)
(* Proofs about UserHandlers: for any requests, users, tags, instances and *)
(* restarts.                                                               *)
(***************************************************************************)
EXTENDS UserHandlers, TLAPS

\* No request and no session is involved in a restart, but for what it marks.
LEMMA Disturbing ==
  ASSUME job \in [Requests -> Jobs], DisturbAll
  PROVE  job' \in [Requests -> Jobs]
<1>1. \A j \in Jobs : [j EXCEPT !.disturbed = TRUE] \in Jobs
  BY DEF Jobs
<1> QED
  BY <1>1 DEF DisturbAll

\* A fresh job has its type.
LEMMA IdleJobs ==
  ASSUME NEW in \in Inputs
  PROVE  IdleJob(in) \in Jobs
BY NotEmpty DEF IdleJob, Jobs, Labels

\* What the inputs carry is made of users, tags, addresses and versions.
LEMMA InputFields ==
  ASSUME NEW in \in Inputs
  PROVE  /\ in.users \subseteq Users
         /\ in.affected \subseteq Tags
         /\ in.ips \subseteq IPs
         /\ UNION {in.tags[u] : u \in in.users} \subseteq Tags
         /\ \A u \in Users : in.tags[u] \subseteq Tags /\ in.version[u] \in Versions
<1>1. in.users \subseteq Users /\ in.tags \in [Users -> SUBSET Tags]
  BY InputsOK DEF InputOK
<1>2. \A u \in Users : in.tags[u] \subseteq Tags
  BY <1>1
<1>3. UNION {in.tags[u] : u \in in.users} \subseteq Tags
  BY <1>1, <1>2
<1> QED
  BY <1>2, <1>3, InputsOK DEF InputOK

AccountsOK == accounts \in [Instances -> UNION {Accounts(tags) : tags \in SUBSET Tags}]

\* Setting one account that is there keeps the accounts well formed and the
\* inbounds of every instance the same.
LEMMA SetAccount ==
  ASSUME AccountsOK,
         NEW i, i # NoInstance => i \in Instances, NEW t \in Tags, NEW u \in Users,
         t \in Inbounds(i), NEW v \in Versions \cup {NoVersion},
         accounts' = [accounts EXCEPT ![i][t][u] = v]
  PROVE  /\ AccountsOK'
         /\ \A j \in Instances : DOMAIN accounts'[j] = DOMAIN accounts[j]
<1>1. i \in Instances /\ t \in DOMAIN accounts[i]
  BY DEF Inbounds
<1>2. PICK tags \in SUBSET Tags : accounts[i] \in Accounts(tags)
  BY <1>1 DEF AccountsOK
<1>3. accounts'[i] \in Accounts(tags)
  BY <1>1, <1>2 DEF Accounts, AccountsOK
<1>4. \A j \in Instances : j # i => accounts'[j] = accounts[j]
  BY DEF AccountsOK
<1>5. AccountsOK'
  BY <1>1, <1>3, <1>4 DEF AccountsOK
<1>6. \A j \in Instances : DOMAIN accounts'[j] = DOMAIN accounts[j]
  BY <1>1, <1>2, <1>3, <1>4 DEF Accounts
<1> QED
  BY <1>5, <1>6

-----------------------------------------------------------------------------
\* The labels, for steps that need no more of them.
LEMMA LabelsOK ==
  /\ "idle" \in Labels /\ "announce" \in Labels /\ "check" \in Labels
  /\ "empty" \in Labels /\ "client" \in Labels /\ "user" \in Labels
  /\ "capture" \in Labels /\ "tags" \in Labels /\ "remove" \in Labels
  /\ "removeAct" \in Labels /\ "forget" \in Labels /\ "drop" \in Labels
  /\ "add" \in Labels /\ "addAct" \in Labels /\ "record" \in Labels
  /\ "answer" \in Labels /\ "done" \in Labels /\ "affected" \in Labels
  /\ "lookIPs" \in Labels /\ "readIPs" \in Labels /\ "addLook" \in Labels
BY DEF Labels

\* The fields of a job have their types.
LEMMA JobFields ==
  ASSUME NEW j \in Jobs
  PROVE  /\ j.pc \in Labels /\ j.in \in Inputs
         /\ j.left \in SUBSET Users /\ j.user \in Users
         /\ j.todo \in SUBSET Tags /\ j.ips \in SUBSET IPs /\ j.tag \in Tags
         /\ j.met \in Instances \cup {NoInstance} /\ j.captured \in SUBSET IPs
         /\ j.hit \in BOOLEAN /\ j.success \in BOOLEAN /\ j.disturbed \in BOOLEAN
BY DEF Jobs

\* A request may go on with any job of the right type.
LEMMA Continues ==
  ASSUME job \in [Requests -> Jobs], NEW r \in Requests, NEW j \in Jobs, Continue(r, j)
  PROVE  job' \in [Requests -> Jobs]
BY DEF Continue

\* The locals of a request that takes a step keep their type.
LEMMA JobStep ==
  ASSUME UserTypeOK, NEW r \in Requests, RequestStep(r)
  PROVE  job' \in [Requests -> Jobs]
<1>0. job \in [Requests -> Jobs] /\ job[r] \in Jobs
  BY DEF UserTypeOK
<1> DEFINE j == job[r]
<1>1. CASE Begin(r)
  <2>1. \A in \in Inputs : FirstStep(in) \in Labels
    <3>1. ASSUME NEW in \in Inputs PROVE in.kind \in Kinds
      BY InputsOK DEF InputOK
    <3> QED
      BY <3>1, LabelsOK DEF FirstStep, Kinds
  <2>2. \A in \in Inputs : BegunJob(in) \in Jobs
    <3> SUFFICES ASSUME NEW in \in Inputs PROVE BegunJob(in) \in Jobs
      OBVIOUS
    <3> DEFINE succeeds == in.kind = "dropIPs" /\ in.ips # {}
               disturbs == started # "no" \/ AtWorkOn(in) # {}
               typed    == [IdleJob(in) EXCEPT !.pc = FirstStep(in)]
               listed   == [typed EXCEPT !.left = in.users,
                                         !.todo = UNION {in.tags[u] : u \in in.users},
                                         !.ips = in.ips]
    <3>1. typed \in Jobs
      BY <2>1, IdleJobs DEF Jobs
    <3>2. listed \in Jobs
      <4> HIDE DEF typed
      <4> QED BY <3>1, InputFields DEF Jobs
    <3>3. [listed EXCEPT !.success = succeeds, !.disturbed = disturbs] \in Jobs
      <4>1. succeeds \in BOOLEAN /\ disturbs \in BOOLEAN
        OBVIOUS
      <4> HIDE DEF listed, succeeds, disturbs
      <4> QED BY <3>2, <4>1 DEF Jobs
    <3>4. BegunJob(in) = [listed EXCEPT !.success = succeeds, !.disturbed = disturbs]
      BY DEF BegunJob, IdleJob
    <3> QED
      BY <3>3, <3>4
  <2>3. \A d : \A k \in Jobs : [k EXCEPT !.disturbed = @ \/ d] \in Jobs
    BY DEF Jobs
  <2>4. \A q \in Requests : job[q] \in Jobs
    BY <1>0
  <2> QED
    BY <1>1, <2>2, <2>3, <2>4 DEF Begin
<1>2. CASE Announce(r)
  <2>1. [j EXCEPT !.pc = "client"] \in Jobs
    BY <1>0, LabelsOK DEF Jobs
  <2>2. \A t : [j EXCEPT !.todo = @ \ {t}] \in Jobs
    BY <1>0 DEF Jobs
  <2> QED
    BY <1>0, <1>2, <2>1, <2>2, Continues DEF Announce
<1>3. CASE Nothing(r)
  <2>1. [j EXCEPT !.pc = "answer", !.success = TRUE] \in Jobs
    BY <1>0, JobFields, LabelsOK DEF Jobs
  <2> QED
    BY <1>0, <1>3, <2>1, JobFields, Continues DEF Nothing
<1>4. CASE CheckKnown(r)
  <2>1. \A label \in Labels :
          [j EXCEPT !.pc = label] \in Jobs
    BY <1>0, JobFields, LabelsOK DEF Jobs
  <2> QED
    BY <1>0, <1>4, <2>1, LabelsOK, Continues DEF CheckKnown
<1>5. CASE LookForCore(r)
  <2>1. \A label \in Labels, s \in BOOLEAN :
          [j EXCEPT !.pc = label, !.success = s] \in Jobs
    BY <1>0, JobFields, LabelsOK DEF Jobs
  <2>2. (\/ j.in.kind = "dropUsers"
         \/ Running /\ j.in.kind = "removeMany"
         \/ Running /\ j.in.kind = "addMany" /\ j.in.users = {}) \in BOOLEAN
    OBVIOUS
  <2> QED
    BY <1>0, <1>5, <2>1, <2>2, LabelsOK, Continues DEF LookForCore
<1>6. CASE NextUser(r)
  <2>1. \A label \in Labels, u \in Users :
          [j EXCEPT !.left = @ \ {u}, !.user = u, !.hit = FALSE, !.captured = {},
                    !.pc = label] \in Jobs
    BY <1>0, JobFields, LabelsOK DEF Jobs
  <2>2. j.left \subseteq Users
    BY <1>0, JobFields
  <2> QED
    BY <1>0, <1>6, <2>1, <2>2, LabelsOK, Continues DEF NextUser
<1>7. CASE AllUsersDone(r)
  <2>1. [j EXCEPT !.pc = "answer"] \in Jobs
    BY <1>0, JobFields, LabelsOK DEF Jobs
  <2> QED
    BY <1>0, <1>7, <2>1, JobFields, Continues DEF AllUsersDone
<1>8. CASE CaptureIPs(r)
  <2>1. \A ips \in SUBSET IPs, label \in Labels :
          [j EXCEPT !.captured = ips, !.ips = ips, !.met = NoInstance, !.pc = label] \in Jobs
    BY <1>0 DEF Jobs
  <2>2. PICK ips \in SUBSET IPs :
          Continue(r, [j EXCEPT !.captured = ips, !.ips = ips, !.met = NoInstance,
                                !.pc = IF Adds(r) THEN "tags" ELSE "drop"])
    BY <1>8 DEF CaptureIPs
  <2> QED
    BY <1>0, <2>1, <2>2, LabelsOK, Continues
<1>9. CASE ReadTags(r)
  <2>1. [j EXCEPT !.todo = knownTags, !.pc = "remove"] \in Jobs
    BY <1>0, LabelsOK DEF Jobs, UserTypeOK
  <2> QED
    BY <1>0, <1>9, <2>1, JobFields, Continues DEF ReadTags
<1>10. CASE RemoveLooks(r)
  <2>1. \A t \in Tags, i \in Instances \cup {NoInstance} :
          [j EXCEPT !.tag = t, !.met = i, !.pc = "removeAct"] \in Jobs
    BY <1>0, LabelsOK DEF Jobs
  <2>2. j.todo \in SUBSET Tags /\ instance \in Instances \cup {NoInstance}
    BY <1>0, JobFields DEF UserTypeOK
  <2> QED
    BY <1>0, <1>10, <2>1, <2>2, Continues DEF RemoveLooks
<1>11. CASE RemoveActs(r)
  <2>1. \A h \in BOOLEAN :
          [j EXCEPT !.hit = @ \/ h, !.met = NoInstance, !.pc = "forget"] \in Jobs
    BY <1>0, JobFields, LabelsOK DEF Jobs
  <2>2. (Account(j.met, j.tag, j.user) # NoVersion) \in BOOLEAN
    OBVIOUS
  <2> QED
    BY <1>0, <1>11, <2>1, <2>2, Continues DEF RemoveActs
<1>12. CASE Forget(r)
  <2>1. [j EXCEPT !.todo = @ \ {job[r].tag}, !.pc = "remove"] \in Jobs
    BY <1>0, JobFields, LabelsOK DEF Jobs
  <2> QED
    BY <1>0, <1>12, <2>1, JobFields, Continues DEF Forget
<1>13. CASE RemoveDone(r)
  <2>1. \A s \in BOOLEAN, label \in Labels :
          [j EXCEPT !.success = s, !.pc = label] \in Jobs
    BY <1>0 DEF Jobs
  <2>2. /\ [j EXCEPT !.ips = j.captured, !.pc = "drop"] \in Jobs
        /\ [j EXCEPT !.todo = j.in.tags[j.user], !.pc = "add"] \in Jobs
    BY <1>0, JobFields, InputFields, LabelsOK DEF Jobs
  <2>3. j.hit \in BOOLEAN /\ (j.success /\ j.hit) \in BOOLEAN
    BY <1>0, JobFields
  <2> QED
    BY <1>0, <1>13, <2>1, <2>2, <2>3, LabelsOK, Continues DEF RemoveDone
<1>14. CASE DropIP(r)
  <2>1. \A ip : \A ips \in SUBSET IPs, s \in BOOLEAN :
          [j EXCEPT !.ips = @ \ {ip}, !.captured = ips, !.success = s] \in Jobs
    BY <1>0 DEF Jobs
  <2>2. PICK ip \in j.ips, outcome \in DropOutcomes :
          Continue(r, [j EXCEPT
            !.ips = @ \ {ip},
            !.captured = IF outcome = "dropped" THEN @ ELSE @ \ {ip},
            !.success = @ /\ (Adds(r) \/ outcome # "error")])
    BY <1>14 DEF DropIP
  <2>3. /\ (IF outcome = "dropped" THEN j.captured ELSE j.captured \ {ip}) \in SUBSET IPs
        /\ (j.success /\ (Adds(r) \/ outcome # "error")) \in BOOLEAN
    BY <1>0, JobFields
  <2> QED
    BY <1>0, <2>1, <2>2, <2>3, Continues
<1>15. CASE DropDone(r)
  <2>1. /\ [j EXCEPT !.todo = j.in.tags[j.user], !.pc = "add"] \in Jobs
        /\ [j EXCEPT !.pc = "user"] \in Jobs
    BY <1>0, JobFields, InputFields, LabelsOK DEF Jobs
  <2> QED
    BY <1>0, <1>15, <2>1, Continues DEF DropDone
<1>16. CASE AddLooks(r)
  <2>1. \A i \in Instances \cup {NoInstance} : [j EXCEPT !.met = i, !.pc = "addAct"] \in Jobs
    BY <1>0, LabelsOK DEF Jobs
  <2>2. instance \in Instances \cup {NoInstance}
    BY DEF UserTypeOK
  <2> QED
    BY <1>0, <1>16, <2>1, <2>2, Continues DEF AddLooks
<1>17. CASE AddRefused(r)
  <2>1. [j EXCEPT !.todo = @ \ {job[r].tag}, !.met = NoInstance, !.pc = "add"] \in Jobs
    BY <1>0, JobFields, LabelsOK DEF Jobs
  <2> QED
    BY <1>0, <1>17, <2>1, JobFields, Continues DEF AddRefused
<1>18. CASE AddAccepted(r)
  <2>1. [j EXCEPT !.success = TRUE, !.met = NoInstance, !.pc = "record"] \in Jobs
    BY <1>0, JobFields, LabelsOK DEF Jobs
  <2> QED
    BY <1>0, <1>18, <2>1, JobFields, Continues DEF AddAccepted
<1>19. CASE RecordUser(r)
  <2>1. [j EXCEPT !.todo = @ \ {job[r].tag}, !.pc = "add"] \in Jobs
    BY <1>0, JobFields, LabelsOK DEF Jobs
  <2> QED
    BY <1>0, <1>19, <2>1, JobFields, Continues DEF RecordUser
<1>20. CASE AddDone(r)
  <2>1. [j EXCEPT !.pc = "user"] \in Jobs
    BY <1>0, JobFields, LabelsOK DEF Jobs
  <2> QED
    BY <1>0, <1>20, <2>1, JobFields, Continues DEF AddDone
<1>21. CASE Answer(r)
  <2>1. \A k \in Jobs : [k EXCEPT !.pc = "done"] \in Jobs
    BY LabelsOK DEF Jobs
  <2>2. IdleJob(j.in) \in Jobs
    BY <1>0, JobFields, IdleJobs
  <2> QED
    BY <1>0, <1>21, <2>1, <2>2, Continues DEF Answer
<1>22. CASE AnnounceAffected(r)
  <2>1. [j EXCEPT !.pc = "announce"] \in Jobs
    BY <1>0, JobFields, LabelsOK DEF Jobs
  <2> QED
    BY <1>0, <1>22, <2>1, Continues DEF AnnounceAffected
<1>23. CASE LookForStats(r)
  <2>1. \A label \in Labels : [j EXCEPT !.pc = label] \in Jobs
    BY <1>0, JobFields, LabelsOK DEF Jobs
  <2> QED
    BY <1>0, <1>23, <2>1, LabelsOK, Continues DEF LookForStats
<1>24. CASE LookUpIPs(r)
  <2>1. \A i \in Instances \cup {NoInstance} : [j EXCEPT !.met = i, !.pc = "readIPs"] \in Jobs
    BY <1>0, LabelsOK DEF Jobs
  <2>2. instance \in Instances \cup {NoInstance}
    BY DEF UserTypeOK
  <2> QED
    BY <1>0, <1>24, <2>1, <2>2, Continues DEF LookUpIPs
<1>25. CASE NextInbound(r)
  <2>1. \A t \in Tags : [j EXCEPT !.tag = t, !.pc = "addLook"] \in Jobs
    BY <1>0, LabelsOK DEF Jobs
  <2>2. j.todo \in SUBSET Tags
    BY <1>0, JobFields
  <2> QED
    BY <1>0, <1>25, <2>1, <2>2, Continues DEF NextInbound
<1> QED
  BY <1>1, <1>2, <1>3, <1>4, <1>5, <1>6, <1>7, <1>8, <1>9, <1>10, <1>11, <1>12, <1>13,
     <1>14, <1>15, <1>16, <1>17, <1>18, <1>19, <1>20, <1>21, <1>22, <1>23, <1>24, <1>25
  DEF RequestStep

-----------------------------------------------------------------------------
(***************************************************************************)
(* The inductive invariant.  KnownTagsCoverInbounds is about the instance  *)
(* that runs, and a start publishes an instance before it makes its tags   *)
(* known: what carries over from step to step is that the tags of the      *)
(* newest instance, running or not, are known when no start is at work.    *)
(***************************************************************************)
NewestKnown == started = "no" => Inbounds(newest) \subseteq knownTags

UserInv == UserTypeOK /\ NewestKnown /\ RecordedAtKnownTags

\* A step that leaves accounts alone, and instance, sessions, started, newest,
\* knownTags and recorded, keeps everything but the jobs.
LEMMA Quiet ==
  ASSUME UserInv, UNCHANGED <<coreVars, stateVars>>, job' \in [Requests -> Jobs]
  PROVE  UserInv'
BY DEF UserInv, UserTypeOK, NewestKnown, RecordedAtKnownTags, Inbounds,
       coreVars, stateVars

\* A step that adds to the known tags, and to the users recorded at one of
\* them, or takes away from the recorded users.
LEMMA Remembering ==
  ASSUME UserInv, UNCHANGED coreVars, job' \in [Requests -> Jobs],
         knownTags \subseteq knownTags', knownTags' \subseteq Tags,
         recorded' \in [Tags -> SUBSET (Users \X Versions)],
         \A t \in Tags : recorded'[t] # {} => recorded[t] # {} \/ t \in knownTags'
  PROVE  UserInv'
BY DEF UserInv, UserTypeOK, NewestKnown, RecordedAtKnownTags, Inbounds, coreVars

\* A step that changes accounts of instances, but not the inbounds they have.
LEMMA Serving ==
  ASSUME UserInv, UNCHANGED <<instance, sessions, started, newest, stateVars>>,
         job' \in [Requests -> Jobs], AccountsOK',
         \A i \in Instances : DOMAIN accounts'[i] = DOMAIN accounts[i]
  PROVE  UserInv'
BY DEF UserInv, UserTypeOK, NewestKnown, RecordedAtKnownTags, Inbounds,
       stateVars, AccountsOK

LEMMA RequestKeeps ==
  ASSUME UserInv, NEW r \in Requests, RequestStep(r)
  PROVE  UserInv'
<1>1. job' \in [Requests -> Jobs]
  BY JobStep DEF UserInv
<1>2. /\ job[r] \in Jobs /\ knownTags \subseteq Tags
      /\ recorded \in [Tags -> SUBSET (Users \X Versions)]
      /\ AccountsOK
  BY DEF UserInv, UserTypeOK, AccountsOK
<1> DEFINE j == job[r]
<1>3. /\ j.todo \subseteq Tags /\ j.tag \in Tags /\ j.user \in Users
      /\ j.in.version[j.user] \in Versions /\ j.in.affected \subseteq Tags
      /\ j.met # NoInstance => j.met \in Instances
  BY <1>2, JobFields, InputFields
<1>4. CASE UNCHANGED <<coreVars, stateVars>>
  BY <1>1, <1>4, Quiet
<1>5. CASE Announce(r)
  BY <1>1, <1>2, <1>3, <1>5, Remembering DEF Announce
<1>6. CASE NextInbound(r)
  BY <1>1, <1>2, <1>3, <1>6, Remembering DEF NextInbound
<1>7. CASE Forget(r)
  BY <1>1, <1>2, <1>3, <1>7, Remembering DEF Forget
<1>8. CASE RecordUser(r)
  <2>1. recorded' \in [Tags -> SUBSET (Users \X Versions)]
    BY <1>2, <1>3, <1>8 DEF RecordUser
  <2>2. \A t \in Tags : t # j.tag => recorded'[t] = recorded[t]
    BY <1>2, <1>8 DEF RecordUser
  <2>3. knownTags' = knownTags \cup {j.tag} /\ UNCHANGED coreVars
    BY <1>8 DEF RecordUser
  <2> QED
    BY <1>1, <1>2, <1>3, <2>1, <2>2, <2>3, Remembering
<1>9. CASE RemoveActs(r)
  <2>1. UNCHANGED <<instance, sessions, started, newest, stateVars>>
    BY <1>9 DEF RemoveActs
  <2>2. CASE Account(j.met, j.tag, j.user) # NoVersion
    <3>1. /\ j.tag \in Inbounds(j.met)
          /\ accounts' = [accounts EXCEPT ![j.met][j.tag][j.user] = NoVersion]
      BY <1>9, <2>2 DEF RemoveActs, Account
    <3>2. AccountsOK' /\ \A i \in Instances : DOMAIN accounts'[i] = DOMAIN accounts[i]
      BY <1>2, <1>3, <3>1, SetAccount
    <3> QED
      BY <1>1, <2>1, <3>2, Serving
  <2>3. CASE Account(j.met, j.tag, j.user) = NoVersion
    <3>1. accounts' = accounts
      BY <1>9, <2>3 DEF RemoveActs
    <3> QED
      BY <1>1, <1>2, <2>1, <3>1, Serving DEF AccountsOK
  <2> QED
    BY <2>2, <2>3
<1>10. CASE AddAccepted(r)
  <2>1. UNCHANGED <<instance, sessions, started, newest, stateVars>>
    BY <1>10 DEF AddAccepted
  <2>2. /\ j.tag \in Inbounds(j.met)
        /\ accounts' = [accounts EXCEPT ![j.met][j.tag][j.user] = j.in.version[j.user]]
    BY <1>10 DEF AddAccepted
  <2>3. AccountsOK' /\ \A i \in Instances : DOMAIN accounts'[i] = DOMAIN accounts[i]
    BY <1>2, <1>3, <2>2, SetAccount
  <2> QED
    BY <1>1, <2>1, <2>3, Serving
<1>11. CASE DropIP(r)
  <2>1. UNCHANGED <<instance, accounts, started, newest, stateVars>>
        /\ sessions' \subseteq sessions
    BY <1>11 DEF DropIP
  <2> QED
    BY <1>1, <2>1 DEF UserInv, UserTypeOK, NewestKnown, RecordedAtKnownTags,
                      Inbounds, stateVars
<1>12. CASE AnnounceAffected(r)
  BY <1>1, <1>2, <1>3, <1>12, Remembering DEF AnnounceAffected
<1> QED
  BY <1>4, <1>5, <1>6, <1>7, <1>8, <1>9, <1>10, <1>11, <1>12
     DEF RequestStep, Begin, Nothing, CheckKnown, LookForCore, NextUser,
         AllUsersDone, LookForStats, LookUpIPs, CaptureIPs, ReadTags, RemoveLooks,
         RemoveDone, DropDone, AddLooks, AddRefused, AddDone, Answer

\* The inbounds of an instance are tags.
LEMMA InboundsAreTags ==
  ASSUME UserTypeOK, NEW i \in Instances \cup {NoInstance}
  PROVE  Inbounds(i) \subseteq Tags
BY DEF UserTypeOK, Inbounds, Accounts

LEMMA RestartKeeps ==
  ASSUME UserInv, Restart
  PROVE  UserInv'
<1> USE DEF UserInv, UserTypeOK, NewestKnown, RecordedAtKnownTags
<1>1. job' \in [Requests -> Jobs]
  BY Disturbing DEF Restart, CloseCore, PublishCore, RecordStarted, RecordProtocols
<1>2. Inbounds(newest) \subseteq Tags
  BY InboundsAreTags
<1>3. CASE CloseCore
  BY <1>1, <1>3 DEF CloseCore, Inbounds, stateVars
<1>4. ASSUME NEW i \in Instances, PublishCore(i) PROVE UserInv'
  <2>1. PICK config \in Configs : accounts' = [accounts EXCEPT ![i] = config]
    BY <1>4 DEF PublishCore
  <2>2. accounts' \in [Instances -> UNION {Accounts(tags) : tags \in SUBSET Tags}]
    BY <2>1, ConfigsOK
  <2> QED
    BY <1>1, <1>4, <2>2 DEF PublishCore, stateVars
<1>5. CASE RecordStarted
  BY <1>1, <1>2, <1>5 DEF RecordStarted, Inbounds
<1>6. CASE RecordProtocols
  BY <1>1, <1>2, <1>6 DEF RecordProtocols, Inbounds
<1> QED
  BY <1>3, <1>4, <1>5, <1>6 DEF Restart

LEMMA UsersConnectKeeps ==
  ASSUME UserInv, UsersConnect
  PROVE  UserInv'
<1> USE DEF UserInv, UserTypeOK, NewestKnown, RecordedAtKnownTags
<1>1. ASSUME NEW u \in Users, NEW t \in Tags, NEW ip \in IPs, Connect(u, t, ip)
      PROVE  UserInv'
  <2>1. Account(instance, t, u) \in Versions
    BY <1>1 DEF Connect, Account, Inbounds, Accounts
  <2>2. sessions' \subseteq [user : Users, ip : IPs, version : Versions]
    BY <1>1, <2>1 DEF Connect
  <2> QED
    BY <1>1, <2>2 DEF Connect, Inbounds, stateVars
<1>2. ASSUME NEW s \in sessions, Leave(s) PROVE UserInv'
  BY <1>2 DEF Leave, Inbounds, stateVars
<1> QED
  BY <1>1, <1>2 DEF UsersConnect

\* The inductive invariant holds in every reachable state.
THEOREM UserInvariance == Spec => []UserInv
<1>1. Init => UserInv
  <2>1. (CHOOSE in \in Inputs : TRUE) \in Inputs
    BY NotEmpty
  <2>2. <<>> \in Accounts({})
    BY DEF Accounts
  <2> QED
    BY <2>1, <2>2, IdleJobs
       DEF Init, UserInv, UserTypeOK, NewestKnown, RecordedAtKnownTags, Inbounds
<1>2. UserInv /\ [Next]_vars => UserInv'
  <2>1. ASSUME UserInv, UNCHANGED vars PROVE UserInv'
    BY <2>1, Quiet DEF vars, UserInv, UserTypeOK
  <2> QED
    BY <2>1, RequestKeeps, RestartKeeps, UsersConnectKeeps DEF Next
<1> QED
  BY <1>1, <1>2, PTL DEF Spec

\* UserTypeOK: every variable keeps its type, and the instance that is
\* published is the newest.
THEOREM UserTypeCorrect == Spec => []UserTypeOK
BY UserInvariance, PTL DEF UserInv

\* KnownTagsCoverInbounds: once a start has been recorded, KnownInboundTags
\* names every inbound of the running core.
THEOREM InboundsAreKnown == Spec => []KnownTagsCoverInbounds
<1>1. UserInv => KnownTagsCoverInbounds
  BY DEF UserInv, UserTypeOK, NewestKnown, KnownTagsCoverInbounds, Inbounds
<1> QED
  BY <1>1, UserInvariance, PTL

\* RecordedAtKnownTags: no user hash is recorded where RemoveUserFromInbound
\* would never be called for it.
THEOREM RecordedAreKnown == Spec => []RecordedAtKnownTags
BY UserInvariance, PTL DEF UserInv

-----------------------------------------------------------------------------
(***************************************************************************)
(* What an undisturbed request has done to the users it carries, by where  *)
(* it is: nobody else touches the instance or these users, so what it has  *)
(* done stays.                                                             *)
(***************************************************************************)
\* What the running core accepts of u at tag t, NoVersion if it does not know it.
Credentials(u, t) == Account(instance, t, u)

Alone(r) == Active(r) /\ ~job[r].disturbed

\* The labels at which a request works on the user it took last.
OnUser ==
  {"capture", "lookIPs", "readIPs", "tags", "remove", "removeAct", "forget", "drop",
   "add", "addLook", "addAct", "record"}

\* Those at which it adds the user, tag by tag.
Adding == {"add", "addLook", "addAct", "record"}

\* Those before its first user.
Starting == {"affected", "announce", "check", "empty", "client"}

Current(r) == IF job[r].pc \in OnUser THEN {job[r].user} ELSE {}

\* The users it is through with.
Dealt(r) == job[r].in.users \ (job[r].left \cup Current(r))

\* Where a request of a kind can be, and what its locals are there.
PlaceInv(r) ==
  LET j == job[r] IN
  /\ j.left \subseteq j.in.users
  /\ j.pc \in {"affected", "announce", "capture"} \cup Adding => Adds(r)
  /\ j.pc = "check" => Removes(r)
  /\ j.pc \in {"tags", "remove", "removeAct", "forget"} => Adds(r) \/ Removes(r)
  /\ j.pc \in {"lookIPs", "readIPs", "drop"} => ~Removes(r)
  /\ j.pc = "empty" => Removes(r) \/ EmptyAdd(j.in)
  /\ j.pc \in Starting => j.left = j.in.users /\ ~j.success /\ j.captured = {}
  /\ j.pc \in OnUser /\ j.in.kind # "dropIPs" => j.user \in j.in.users \ j.left
  /\ j.pc \in Adding => j.todo \subseteq j.in.tags[j.user]
  /\ j.pc \in {"removeAct", "addLook", "addAct", "record"} => j.tag \in j.todo
  /\ j.in.kind \in {"add", "remove"} => j.left = {} \/ j.left = j.in.users
  /\ j.in.kind = "add" /\ j.pc \in {"user", "answer"} => j.left = {} \/ j.captured = {}

\* Nobody restarts the core, nobody else works on its users.
AloneInv(r) ==
  /\ started = "no"
  /\ \A q \in Requests \ {r} : Active(q) => job[q].in.users \cap job[r].in.users = {}
  /\ job[r].pc \in {"removeAct", "addAct"} => job[r].met = instance

Removed(r, u, t) ==
  Credentials(u, t) = NoVersion /\ <<u, RemovedVersion(job[r].in, u)>> \notin recorded[t]

\* The removal of the user at work, tag by tag; no tag is left out, for those that were
\* not known when the tags were read are of no inbound of this instance.
RemovingInv(r) ==
  LET j == job[r] IN
  /\ j.pc \in {"remove", "removeAct", "forget"} =>
       \A t \in Tags \ j.todo : Removed(r, j.user, t)
  /\ j.pc = "forget" => Credentials(j.user, j.tag) = NoVersion

RemovedInv(r) ==
  Removes(r) =>
    /\ \A u \in Dealt(r), t \in Tags : Removed(r, u, t)
    /\ (job[r].pc = "empty" \/ (job[r].pc = "answer" /\ Running)) =>
         \A u \in job[r].in.users, t \in Tags : Removed(r, u, t)

\* The user has the new credentials at tag t, where it was asked for.
Renewed(r, u, t) ==
  t \in job[r].in.tags[u] /\ Credentials(u, t) = job[r].in.version[u]

RecordedAt(r, u, t) == <<u, job[r].in.version[u]>> \in recorded[t]

\* The users that the answer of an add counts by now.
Counted(r) ==
  Dealt(r) \cup (IF job[r].pc \in Adding THEN {job[r].user} ELSE {})

AddedInv(r) ==
  /\ \A u \in Dealt(r), t \in Tags :
       Credentials(u, t) # NoVersion => Renewed(r, u, t) /\ RecordedAt(r, u, t)
  /\ job[r].pc = "answer" /\ Running => job[r].left = {} \/ EmptyAdd(job[r].in)

\* The addition of the user at work, tag by tag: from the removal on it is nowhere else.
AddingInv(r) ==
  LET j == job[r] IN
  /\ j.pc = "drop" => \A t \in Tags : Credentials(j.user, t) = NoVersion
  /\ j.pc \in Adding =>
       \A t \in Tags : Credentials(j.user, t) # NoVersion =>
         Renewed(r, j.user, t) /\ (RecordedAt(r, j.user, t) \/ (j.pc = "record" /\ j.tag = t))
  /\ j.pc = "record" => Credentials(j.user, j.tag) # NoVersion

\* What it will answer.
CountInv(r) ==
  job[r].in.users # {} /\ ~EmptyAdd(job[r].in) =>
    (job[r].success <=> \E u \in Counted(r), t \in Tags : Credentials(u, t) # NoVersion)

\* The captured addresses of an add, from the drop on: their sessions are new.
CapturedInv(r) ==
  LET j == job[r] IN
  j.in.kind = "add" =>
    \A s \in sessions :
      /\ j.pc = "drop" /\ s.user = j.user /\ s.ip \in j.captured \ j.ips
           => s.version = j.in.version[s.user]
      /\ j.pc \in Adding \cup {"user", "answer"} /\ s.user \in j.in.users
           /\ s.ip \in j.captured => s.version = j.in.version[s.user]

EffectInv(r) ==
  /\ AloneInv(r) /\ RemovingInv(r) /\ RemovedInv(r)
  /\ Adds(r) => AddedInv(r) /\ AddingInv(r) /\ CountInv(r)
  /\ CapturedInv(r)

RequestInv ==
  \A r \in Requests :
    /\ Active(r) => PlaceInv(r)
    /\ Alone(r) => EffectInv(r)

-----------------------------------------------------------------------------
\* The account of u at inbound t of instance i, which is there, becomes v.
SetsAccount(i, t, u, v) ==
  /\ i # NoInstance => i \in Instances
  /\ t \in Tags /\ u \in Users /\ t \in Inbounds(i)
  /\ v \in Versions \cup {NoVersion}
  /\ accounts' = [accounts EXCEPT ![i][t][u] = v]

\* It changes no other.
LEMMA ChangedAccount ==
  ASSUME AccountsOK, NEW i, NEW t0, NEW u0, NEW v, SetsAccount(i, t0, u0, v)
  PROVE  \A k \in Instances :
           /\ DOMAIN accounts'[k] = DOMAIN accounts[k]
           /\ \A t \in DOMAIN accounts[k], u \in Users :
                accounts'[k][t][u] = IF i = k /\ u = u0 /\ t = t0 THEN v ELSE accounts[k][t][u]
<1>1. i \in Instances /\ t0 \in DOMAIN accounts[i] /\ u0 \in Users
  BY DEF Inbounds, SetsAccount
<1>2. PICK tags \in SUBSET Tags : accounts[i] \in Accounts(tags)
  BY <1>1 DEF AccountsOK
<1>3. accounts'[i] = [accounts[i] EXCEPT ![t0][u0] = v]
  BY <1>1 DEF AccountsOK, SetsAccount
<1>4. \A k \in Instances : k # i => accounts'[k] = accounts[k]
  BY DEF AccountsOK, SetsAccount
<1>5. /\ DOMAIN accounts'[i] = DOMAIN accounts[i]
      /\ \A t \in DOMAIN accounts[i], u \in Users :
           accounts'[i][t][u] = IF u = u0 /\ t = t0 THEN v ELSE accounts[i][t][u]
  BY <1>1, <1>2, <1>3 DEF Accounts
<1> QED
  BY <1>4, <1>5

\* The accounts stay as they are, seen from the instance that runs.
LEMMA SameCredentials ==
  ASSUME UNCHANGED <<instance, accounts>>
  PROVE  \A u, t : Credentials(u, t)' = Credentials(u, t)
BY DEF Credentials, Account, Inbounds

\* One account changes, seen from the instance that runs.
LEMMA ChangedCredentials ==
  ASSUME UserTypeOK, NEW i, NEW t0, NEW u0, NEW v, SetsAccount(i, t0, u0, v),
         instance' = instance
  PROVE  \A u \in Users, t \in Tags : Credentials(u, t)' =
           IF i = instance /\ u = u0 /\ t = t0 THEN v ELSE Credentials(u, t)
<1>0. AccountsOK
  BY DEF UserTypeOK, AccountsOK
<1>1. \A k \in Instances :
        /\ DOMAIN accounts'[k] = DOMAIN accounts[k]
        /\ \A t \in DOMAIN accounts[k], u \in Users :
             accounts'[k][t][u] = IF i = k /\ u = u0 /\ t = t0 THEN v ELSE accounts[k][t][u]
  BY <1>0, ChangedAccount
<1>2. t0 \in Inbounds(i)
  BY DEF SetsAccount
<1>3. CASE instance = NoInstance
  <2>1. Inbounds(instance) = {} /\ Inbounds(instance)' = {} /\ i # instance
    BY <1>2, <1>3 DEF Inbounds
  <2> QED
    BY <2>1 DEF Credentials, Account
<1>4. CASE instance # NoInstance
  <2>1. instance \in Instances
    BY <1>4 DEF UserTypeOK
  <2>2. /\ Inbounds(instance) = DOMAIN accounts[instance]
        /\ Inbounds(instance)' = DOMAIN accounts'[instance]
    BY <1>4 DEF Inbounds
  <2>3. i = instance => t0 \in DOMAIN accounts[instance]
    BY <1>2, <2>2
  <2> QED
    BY <1>1, <2>1, <2>2, <2>3 DEF Credentials, Account
<1> QED
  BY <1>3, <1>4

\* A user that an inbound is asked to remove is gone from there, and nothing else is.
LEMMA RemovesOne ==
  ASSUME UserInv, NEW r \in Requests, RemoveActs(r)
  PROVE  \A u \in Users, t \in Tags : Credentials(u, t)' =
           IF job[r].met = instance /\ u = job[r].user /\ t = job[r].tag THEN NoVersion
           ELSE Credentials(u, t)
<1>1. instance' = instance /\ job[r] \in Jobs /\ UserTypeOK
  BY DEF RemoveActs, UserInv, UserTypeOK
<1> DEFINE i == job[r].met
           t0 == job[r].tag
           u0 == job[r].user
<1>2. CASE Account(i, t0, u0) = NoVersion
  BY <1>1, <1>2 DEF RemoveActs, Credentials, Account, Inbounds
<1>3. CASE Account(i, t0, u0) # NoVersion
  <2>1. SetsAccount(i, t0, u0, NoVersion)
    BY <1>1, <1>3, JobFields DEF RemoveActs, Account, SetsAccount
  <2> HIDE DEF i, t0, u0
  <2>2. \A u \in Users, t \in Tags : Credentials(u, t)' =
           IF i = instance /\ u = u0 /\ t = t0 THEN NoVersion ELSE Credentials(u, t)
    BY <1>1, <2>1, ChangedCredentials
  <2> QED
    BY <2>2 DEF i, t0, u0
<1> QED
  BY <1>2, <1>3

\* A user that an inbound accepts has the credentials of the request there.
LEMMA AddsOne ==
  ASSUME UserInv, NEW r \in Requests, AddAccepted(r)
  PROVE  \A u \in Users, t \in Tags : Credentials(u, t)' =
           IF job[r].met = instance /\ u = job[r].user /\ t = job[r].tag
           THEN job[r].in.version[u] ELSE Credentials(u, t)
<1>1. instance' = instance /\ job[r] \in Jobs /\ UserTypeOK
  BY DEF AddAccepted, UserInv, UserTypeOK
<1>2. SetsAccount(job[r].met, job[r].tag, job[r].user, job[r].in.version[job[r].user])
  BY <1>1, JobFields, InputFields DEF AddAccepted, SetsAccount
<1> QED
  BY <1>1, <1>2, ChangedCredentials

\* An inbound that is not known has no users of the running core, and no hashes.
LEMMA UnknownTag ==
  ASSUME UserInv, started = "no", NEW t \in Tags, t \notin knownTags
  PROVE  recorded[t] = {} /\ \A u : Credentials(u, t) = NoVersion
BY DEF UserInv, UserTypeOK, NewestKnown, RecordedAtKnownTags, Credentials, Account, Inbounds

\* Where a request goes on when the tags are gone through.
LEMMA AfterRemoval ==
  ASSUME job \in [Requests -> Jobs], NEW r \in Requests, RemoveDone(r)
  PROVE  LET j == job[r]
             k == job'[r]
         IN /\ j.pc = "remove" /\ j.todo = {} /\ UNCHANGED <<coreVars, stateVars>>
            /\ \A q \in Requests \ {r} : job'[q] = job[q]
            /\ k.in = j.in /\ k.left = j.left /\ k.user = j.user /\ k.captured = j.captured
            /\ k.disturbed = j.disturbed
            /\ \/ j.in.kind = "remove" /\ k.pc = "answer"
               \/ j.in.kind = "removeMany" /\ k.pc = "user"
               \/ j.in.kind = "add" /\ k.pc = "drop" /\ k.ips = j.captured
                  /\ k.success = j.success
               \/ j.in.kind = "addMany" /\ k.pc = "add" /\ k.todo = j.in.tags[j.user]
                  /\ k.success = j.success
<1>1. job[r] \in Jobs
  OBVIOUS
<1>2. ASSUME Continue(r, [job[r] EXCEPT !.success = job[r].hit, !.pc = "answer"])
      PROVE  /\ job'[r].pc = "answer" /\ job'[r].in = job[r].in /\ job'[r].left = job[r].left
             /\ job'[r].user = job[r].user /\ job'[r].captured = job[r].captured
             /\ job'[r].disturbed = job[r].disturbed
  BY <1>1, <1>2 DEF Continue, Jobs
<1>3. ASSUME Continue(r, [job[r] EXCEPT !.success = @ /\ job[r].hit, !.pc = "user"])
      PROVE  /\ job'[r].pc = "user" /\ job'[r].in = job[r].in /\ job'[r].left = job[r].left
             /\ job'[r].user = job[r].user /\ job'[r].captured = job[r].captured
             /\ job'[r].disturbed = job[r].disturbed
  BY <1>1, <1>3 DEF Continue, Jobs
<1>4. ASSUME Continue(r, [job[r] EXCEPT !.ips = job[r].captured, !.pc = "drop"])
      PROVE  /\ job'[r].pc = "drop" /\ job'[r].in = job[r].in /\ job'[r].left = job[r].left
             /\ job'[r].user = job[r].user /\ job'[r].captured = job[r].captured
             /\ job'[r].disturbed = job[r].disturbed
             /\ job'[r].ips = job[r].captured /\ job'[r].success = job[r].success
  BY <1>1, <1>4 DEF Continue, Jobs
<1>5. ASSUME Continue(r, [job[r] EXCEPT !.todo = job[r].in.tags[job[r].user], !.pc = "add"])
      PROVE  /\ job'[r].pc = "add" /\ job'[r].in = job[r].in /\ job'[r].left = job[r].left
             /\ job'[r].user = job[r].user /\ job'[r].captured = job[r].captured
             /\ job'[r].disturbed = job[r].disturbed
             /\ job'[r].todo = job[r].in.tags[job[r].user] /\ job'[r].success = job[r].success
  BY <1>1, <1>5 DEF Continue, Jobs
<1>6. \A j : Continue(r, j) => \A q \in Requests \ {r} : job'[q] = job[q]
  BY DEF Continue
<1> QED
  BY <1>2, <1>3, <1>4, <1>5, <1>6 DEF RemoveDone, At

\* Where it goes on when the addresses are.
LEMMA AfterDrop ==
  ASSUME job \in [Requests -> Jobs], NEW r \in Requests, DropDone(r)
  PROVE  LET j == job[r]
             k == job'[r]
         IN /\ j.pc = "drop" /\ j.ips = {} /\ UNCHANGED <<coreVars, stateVars>>
            /\ \A q \in Requests \ {r} : job'[q] = job[q]
            /\ k.in = j.in /\ k.left = j.left /\ k.user = j.user /\ k.captured = j.captured
            /\ k.disturbed = j.disturbed /\ k.success = j.success
            /\ \/ Adds(r) /\ k.pc = "add" /\ k.todo = j.in.tags[j.user]
               \/ ~Adds(r) /\ k.pc = "user"
<1>1. job[r] \in Jobs
  OBVIOUS
<1>2. ASSUME Continue(r, [job[r] EXCEPT !.todo = job[r].in.tags[job[r].user], !.pc = "add"])
      PROVE  /\ job'[r].pc = "add" /\ job'[r].in = job[r].in /\ job'[r].left = job[r].left
             /\ job'[r].user = job[r].user /\ job'[r].captured = job[r].captured
             /\ job'[r].disturbed = job[r].disturbed /\ job'[r].success = job[r].success
             /\ job'[r].todo = job[r].in.tags[job[r].user]
  BY <1>1, <1>2 DEF Continue, Jobs
<1>3. ASSUME Continue(r, [job[r] EXCEPT !.pc = "user"])
      PROVE  /\ job'[r].pc = "user" /\ job'[r].in = job[r].in /\ job'[r].left = job[r].left
             /\ job'[r].user = job[r].user /\ job'[r].captured = job[r].captured
             /\ job'[r].disturbed = job[r].disturbed /\ job'[r].success = job[r].success
  BY <1>1, <1>3 DEF Continue, Jobs
<1>4. \A j : Continue(r, j) => \A q \in Requests \ {r} : job'[q] = job[q]
  BY DEF Continue
<1> QED
  BY <1>2, <1>3, <1>4 DEF DropDone, At

\* A step of its own leaves a request where its kind may be.
LEMMA PlaceStep ==
  ASSUME UserInv, NEW r \in Requests, Active(r), PlaceInv(r), RequestStep(r)
  PROVE  Active(r)' => PlaceInv(r)'
<1>0. job[r] \in Jobs /\ job \in [Requests -> Jobs] /\ InputOK(job[r].in)
  BY InputsOK DEF UserInv, UserTypeOK, Jobs
<1> USE <1>0
    DEF Jobs, Active, Continue, At, Adds, Removes, PlaceInv, OnUser, Adding, Starting
<1>1. CASE Announce(r)
  BY <1>1 DEF Announce
<1>2. CASE Nothing(r)
  BY <1>2 DEF Nothing
<1>3. CASE CheckKnown(r)
  BY <1>3 DEF CheckKnown
<1>4. CASE LookForCore(r)
  BY <1>4 DEF LookForCore
<1>5. CASE NextUser(r)
  <2> HIDE DEF Jobs, Continue, PlaceInv
  <2>1. PICK u \in job[r].left :
          Continue(r, [job[r] EXCEPT
            !.left = @ \ {u}, !.user = u, !.hit = FALSE, !.captured = {},
            !.pc = IF job[r].in.kind = "dropUsers" THEN "lookIPs"
                   ELSE IF Swaps(job[r].in, u) THEN "capture" ELSE "tags"])
    BY <1>5 DEF NextUser
  <2>2. u \in job[r].in.users
    BY <2>1 DEF PlaceInv
  <2>3. job[r].in.kind # "dropUsers" => Adds(r) \/ Removes(r)
    BY <2>2 DEF InputOK, Kinds
  <2>4. job[r].in.kind \in {"add", "remove"} => job[r].left \ {u} = {}
    BY <2>1, <2>2 DEF InputOK, PlaceInv
  <2>5. /\ Swaps(job[r].in, u) => Adds(r)
        /\ job[r].in.kind = "dropUsers" => ~Removes(r)
    BY DEF Swaps
  <2> QED
    BY <2>1, <2>2, <2>3, <2>4, <2>5 DEF Jobs, Continue, PlaceInv
<1>6. CASE AllUsersDone(r)
  BY <1>6 DEF AllUsersDone
<1>7. CASE CaptureIPs(r)
  BY <1>7 DEF CaptureIPs
<1>8. CASE ReadTags(r)
  BY <1>8 DEF ReadTags
<1>9. CASE RemoveLooks(r)
  BY <1>9 DEF RemoveLooks
<1>10. CASE RemoveActs(r)
  BY <1>10 DEF RemoveActs
<1>11. CASE Forget(r)
  BY <1>11 DEF Forget
<1>12. CASE RemoveDone(r)
  <2> HIDE DEF Jobs, Continue, PlaceInv
  <2>1. ASSUME job[r].in.kind = "remove",
               Continue(r, [job[r] EXCEPT !.success = job[r].hit, !.pc = "answer"])
        PROVE  PlaceInv(r)'
    BY <2>1 DEF Jobs, Continue, PlaceInv
  <2>2. ASSUME job[r].in.kind = "removeMany",
               Continue(r, [job[r] EXCEPT !.success = @ /\ job[r].hit, !.pc = "user"])
        PROVE  PlaceInv(r)'
    BY <2>2 DEF Jobs, Continue, PlaceInv
  <2>3. ASSUME job[r].in.kind = "add", At(r, "remove"),
               Continue(r, [job[r] EXCEPT !.ips = job[r].captured, !.pc = "drop"])
        PROVE  PlaceInv(r)'
    BY <2>3 DEF Jobs, Continue, PlaceInv
  <2>4. ASSUME job[r].in.kind = "addMany", At(r, "remove"),
               Continue(r, [job[r] EXCEPT !.todo = job[r].in.tags[job[r].user], !.pc = "add"])
        PROVE  PlaceInv(r)'
    BY <2>4 DEF Jobs, Continue, PlaceInv
  <2> QED
    BY <1>12, <2>1, <2>2, <2>3, <2>4 DEF RemoveDone
<1>13. CASE DropIP(r)
  BY <1>13 DEF DropIP
<1>14. CASE DropDone(r)
  <2> HIDE DEF Jobs, Continue, PlaceInv
  <2>1. ASSUME Adds(r), At(r, "drop"),
               Continue(r, [job[r] EXCEPT !.todo = job[r].in.tags[job[r].user], !.pc = "add"])
        PROVE  PlaceInv(r)'
    BY <2>1 DEF Jobs, Continue, PlaceInv
  <2>2. ASSUME ~Adds(r), At(r, "drop"), Continue(r, [job[r] EXCEPT !.pc = "user"])
        PROVE  PlaceInv(r)'
    BY <2>2 DEF Jobs, Continue, PlaceInv
  <2> QED
    BY <1>14, <2>1, <2>2 DEF DropDone
<1>15. CASE AddLooks(r)
  BY <1>15 DEF AddLooks
<1>16. CASE AddRefused(r)
  BY <1>16 DEF AddRefused
<1>17. CASE AddAccepted(r)
  BY <1>17 DEF AddAccepted
<1>18. CASE RecordUser(r)
  BY <1>18 DEF RecordUser
<1>19. CASE AddDone(r)
  BY <1>19 DEF AddDone
<1>20. CASE Answer(r)
  BY <1>20 DEF Answer, IdleJob
<1>21. CASE Begin(r)
  BY <1>21 DEF Begin
<1>22. CASE AnnounceAffected(r)
  BY <1>22 DEF AnnounceAffected
<1>23. CASE LookForStats(r)
  BY <1>23 DEF LookForStats
<1>24. CASE LookUpIPs(r)
  BY <1>24 DEF LookUpIPs
<1>25. CASE NextInbound(r)
  BY <1>25 DEF NextInbound
<1> QED
  BY <1>1, <1>2, <1>3, <1>4, <1>5, <1>6, <1>7, <1>8, <1>9, <1>10, <1>11, <1>12, <1>13,
     <1>14, <1>15, <1>16, <1>17, <1>18, <1>19, <1>20, <1>21, <1>22, <1>23, <1>24, <1>25
  DEF RequestStep

\* Its own steps, while nobody disturbs it: it is still alone,
LEMMA AloneOwn ==
  ASSUME UserInv, NEW r \in Requests, Active(r), PlaceInv(r), Alone(r), Alone(r)',
         AloneInv(r), RequestStep(r)
  PROVE  AloneInv(r)'
<1>0. job[r] \in Jobs /\ job \in [Requests -> Jobs] /\ InputOK(job[r].in)
  BY InputsOK DEF UserInv, UserTypeOK, Jobs
<1> USE <1>0
    DEF Jobs, Active, Continue, At, Adds, Removes, AloneInv, Alone, coreVars
<1>1. CASE Announce(r)
  BY <1>1 DEF Announce
<1>2. CASE Nothing(r)
  BY <1>2 DEF Nothing
<1>3. CASE CheckKnown(r)
  BY <1>3 DEF CheckKnown
<1>4. CASE LookForCore(r)
  BY <1>4 DEF LookForCore
<1>5. CASE NextUser(r)
  BY <1>5 DEF NextUser
<1>6. CASE AllUsersDone(r)
  BY <1>6 DEF AllUsersDone
<1>7. CASE CaptureIPs(r)
  BY <1>7 DEF CaptureIPs
<1>8. CASE ReadTags(r)
  BY <1>8 DEF ReadTags
<1>9. CASE RemoveLooks(r)
  BY <1>9 DEF RemoveLooks
<1>10. CASE RemoveActs(r)
  BY <1>10 DEF RemoveActs
<1>11. CASE Forget(r)
  BY <1>11 DEF Forget
<1>12. CASE RemoveDone(r)
  BY <1>12, AfterRemoval
<1>13. CASE DropIP(r)
  BY <1>13 DEF DropIP
<1>14. CASE DropDone(r)
  BY <1>14, AfterDrop
<1>15. CASE AddLooks(r)
  BY <1>15 DEF AddLooks
<1>16. CASE AddRefused(r)
  BY <1>16 DEF AddRefused
<1>17. CASE AddAccepted(r)
  BY <1>17 DEF AddAccepted
<1>18. CASE RecordUser(r)
  BY <1>18 DEF RecordUser
<1>19. CASE AddDone(r)
  BY <1>19 DEF AddDone
<1>20. CASE Answer(r)
  BY <1>20 DEF Answer, IdleJob
<1>21. CASE Begin(r)
  BY <1>21 DEF Begin
<1>22. CASE AnnounceAffected(r)
  BY <1>22 DEF AnnounceAffected
<1>23. CASE LookForStats(r)
  BY <1>23 DEF LookForStats
<1>24. CASE LookUpIPs(r)
  BY <1>24 DEF LookUpIPs
<1>25. CASE NextInbound(r)
  BY <1>25 DEF NextInbound
<1> QED
  BY <1>1, <1>2, <1>3, <1>4, <1>5, <1>6, <1>7, <1>8, <1>9, <1>10, <1>11, <1>12, <1>13,
     <1>14, <1>15, <1>16, <1>17, <1>18, <1>19, <1>20, <1>21, <1>22, <1>23, <1>24, <1>25
  DEF RequestStep

\* the user at work is removed from one tag after the other,
LEMMA RemovingOwn ==
  ASSUME UserInv, NEW r \in Requests, Active(r), PlaceInv(r), Alone(r), Alone(r)',
         AloneInv(r), RemovingInv(r), RequestStep(r)
  PROVE  RemovingInv(r)'
<1>0. job[r] \in Jobs /\ job \in [Requests -> Jobs] /\ InputOK(job[r].in)
  BY InputsOK DEF UserInv, UserTypeOK, Jobs
<1> USE <1>0, SameCredentials
    DEF Jobs, Active, Continue, At, Adds, Removes, RemovingInv, Removed, coreVars,
        stateVars, PlaceInv, RemovedVersion, Swaps, OnUser, Adding, Starting
<1>1. CASE Announce(r)
  BY <1>1 DEF Announce
<1>2. CASE Nothing(r)
  BY <1>2 DEF Nothing
<1>3. CASE CheckKnown(r)
  BY <1>3 DEF CheckKnown
<1>4. CASE LookForCore(r)
  BY <1>4 DEF LookForCore
<1>5. CASE NextUser(r)
  BY <1>5 DEF NextUser
<1>6. CASE AllUsersDone(r)
  BY <1>6 DEF AllUsersDone
<1>7. CASE CaptureIPs(r)
  BY <1>7 DEF CaptureIPs
<1>8. CASE ReadTags(r)
  <2>1. started = "no"
    BY DEF AloneInv
  <2> QED
    BY <1>8, <2>1, UnknownTag DEF ReadTags
<1>9. CASE RemoveLooks(r)
  BY <1>9 DEF RemoveLooks
<1>10. CASE RemoveActs(r)
  <2>1. job[r].met = instance /\ job[r].tag \in Tags /\ job[r].user \in Users
    BY <1>10 DEF RemoveActs, AloneInv
  <2>2. \A u \in Users, t \in Tags : Credentials(u, t)' =
           IF job[r].met = instance /\ u = job[r].user /\ t = job[r].tag THEN NoVersion
           ELSE Credentials(u, t)
    BY <1>10, RemovesOne
  <2>3. /\ job'[r].pc = "forget" /\ job'[r].in = job[r].in /\ job'[r].user = job[r].user
        /\ job'[r].todo = job[r].todo /\ job'[r].tag = job[r].tag
        /\ UNCHANGED <<instance, stateVars>> /\ job[r].pc = "removeAct"
    BY <1>10 DEF RemoveActs
  <2> QED
    BY <2>1, <2>2, <2>3
<1>11. CASE Forget(r)
  <2>1. recorded \in [Tags -> SUBSET (Users \X Versions)]
    BY DEF UserInv, UserTypeOK
  <2> QED
    BY <1>11, <2>1 DEF Forget
<1>12. CASE RemoveDone(r)
  BY <1>12, AfterRemoval
<1>13. CASE DropIP(r)
  BY <1>13 DEF DropIP
<1>14. CASE DropDone(r)
  BY <1>14, AfterDrop
<1>15. CASE AddLooks(r)
  BY <1>15 DEF AddLooks
<1>16. CASE AddRefused(r)
  BY <1>16 DEF AddRefused
<1>17. CASE AddAccepted(r)
  BY <1>17 DEF AddAccepted
<1>18. CASE RecordUser(r)
  BY <1>18 DEF RecordUser
<1>19. CASE AddDone(r)
  BY <1>19 DEF AddDone
<1>20. CASE Answer(r)
  BY <1>20 DEF Answer, IdleJob
<1>21. CASE Begin(r)
  BY <1>21 DEF Begin
<1>22. CASE AnnounceAffected(r)
  BY <1>22 DEF AnnounceAffected
<1>23. CASE LookForStats(r)
  BY <1>23 DEF LookForStats
<1>24. CASE LookUpIPs(r)
  BY <1>24 DEF LookUpIPs
<1>25. CASE NextInbound(r)
  BY <1>25 DEF NextInbound
<1> QED
  BY <1>1, <1>2, <1>3, <1>4, <1>5, <1>6, <1>7, <1>8, <1>9, <1>10, <1>11, <1>12, <1>13,
     <1>14, <1>15, <1>16, <1>17, <1>18, <1>19, <1>20, <1>21, <1>22, <1>23, <1>24, <1>25
  DEF RequestStep

\* the users it is through with are removed,
LEMMA RemovedOwn ==
  ASSUME UserInv, NEW r \in Requests, Active(r), PlaceInv(r), Alone(r), Alone(r)',
         AloneInv(r), RemovingInv(r), RemovedInv(r), RequestStep(r)
  PROVE  RemovedInv(r)'
<1>0. job[r] \in Jobs /\ job \in [Requests -> Jobs] /\ InputOK(job[r].in)
  BY InputsOK DEF UserInv, UserTypeOK, Jobs
<1> USE <1>0, SameCredentials
    DEF Jobs, Active, Continue, At, Adds, Removes, RemovedInv, RemovingInv, Removed,
        coreVars, stateVars, PlaceInv, RemovedVersion, Swaps, Dealt, Current, OnUser, Adding,
        Starting
<1>1. CASE Announce(r)
  BY <1>1 DEF Announce
<1>2. CASE Nothing(r)
  BY <1>2 DEF Nothing
<1>3. CASE CheckKnown(r)
  <2>1. started = "no"
    BY DEF AloneInv
  <2> QED
    BY <1>3, <2>1, UnknownTag DEF CheckKnown
<1>4. CASE LookForCore(r)
  <2>1. /\ job'[r].in = job[r].in /\ job'[r].left = job[r].left
        /\ job'[r].pc \in {"user", "answer"}
    BY <1>4 DEF LookForCore
  <2>2. job'[r].pc = "answer" => ~Running'
    BY <1>4 DEF LookForCore, Running
  <2> QED
    BY <1>4, <2>1, <2>2 DEF LookForCore
<1>5. CASE NextUser(r)
  BY <1>5 DEF NextUser
<1>6. CASE AllUsersDone(r)
  BY <1>6 DEF AllUsersDone
<1>7. CASE CaptureIPs(r)
  BY <1>7 DEF CaptureIPs
<1>8. CASE ReadTags(r)
  BY <1>8 DEF ReadTags
<1>9. CASE RemoveLooks(r)
  BY <1>9 DEF RemoveLooks
<1>10. CASE RemoveActs(r)
  <2>1. job[r].tag \in Tags /\ job[r].user \in Users /\ job[r].in.users \subseteq Users
    BY DEF InputOK
  <2>2. \A u \in Users, t \in Tags : Credentials(u, t)' =
           IF job[r].met = instance /\ u = job[r].user /\ t = job[r].tag THEN NoVersion
           ELSE Credentials(u, t)
    BY <1>10, RemovesOne
  <2>3. /\ job'[r].pc = "forget" /\ job'[r].in = job[r].in /\ job'[r].user = job[r].user
        /\ job'[r].left = job[r].left /\ job'[r].success = job[r].success
        /\ UNCHANGED <<instance, stateVars>> /\ job[r].pc = "removeAct"
    BY <1>10 DEF RemoveActs
  <2> QED
    BY <2>1, <2>2, <2>3
<1>11. CASE Forget(r)
  BY <1>11 DEF Forget
<1>12. CASE RemoveDone(r)
  <2>1. /\ job[r].pc = "remove" /\ job[r].todo = {}
        /\ job'[r].in = job[r].in /\ job'[r].left = job[r].left
        /\ UNCHANGED <<instance, accounts, recorded>>
        /\ Removes(r) => \/ job[r].in.kind = "remove" /\ job'[r].pc = "answer"
                         \/ job[r].in.kind = "removeMany" /\ job'[r].pc = "user"
    BY <1>12, AfterRemoval
  <2>2. \A u \in Dealt(r)', t \in Tags : Removes(r) => Removed(r, u, t)
    BY <2>1
  <2>3. job[r].in.kind = "remove" =>
          \A u \in job[r].in.users, t \in Tags : Removed(r, u, t)
    <3>1. job[r].in.kind = "remove" => job[r].in.users = {job[r].user}
      BY <2>1 DEF InputOK
    <3> QED
      BY <2>1, <3>1
  <2>4. \A u, t : Removed(r, u, t)' = Removed(r, u, t)
    BY <2>1
  <2> QED
    BY <2>1, <2>2, <2>3, <2>4
<1>13. CASE DropIP(r)
  BY <1>13 DEF DropIP
<1>14. CASE DropDone(r)
  BY <1>14, AfterDrop
<1>15. CASE AddLooks(r)
  BY <1>15 DEF AddLooks
<1>16. CASE AddRefused(r)
  BY <1>16 DEF AddRefused
<1>17. CASE AddAccepted(r)
  BY <1>17 DEF AddAccepted
<1>18. CASE RecordUser(r)
  BY <1>18 DEF RecordUser
<1>19. CASE AddDone(r)
  BY <1>19 DEF AddDone
<1>20. CASE Answer(r)
  BY <1>20 DEF Answer, IdleJob, Alone
<1>21. CASE Begin(r)
  BY <1>21 DEF Begin
<1>22. CASE AnnounceAffected(r)
  BY <1>22 DEF AnnounceAffected
<1>23. CASE LookForStats(r)
  BY <1>23 DEF LookForStats
<1>24. CASE LookUpIPs(r)
  BY <1>24 DEF LookUpIPs
<1>25. CASE NextInbound(r)
  BY <1>25 DEF NextInbound
<1> QED
  BY <1>1, <1>2, <1>3, <1>4, <1>5, <1>6, <1>7, <1>8, <1>9, <1>10, <1>11, <1>12, <1>13,
     <1>14, <1>15, <1>16, <1>17, <1>18, <1>19, <1>20, <1>21, <1>22, <1>23, <1>24, <1>25
  DEF RequestStep

\* or have the new credentials,
LEMMA AddedOwn ==
  ASSUME UserInv, NEW r \in Requests, Active(r), PlaceInv(r), Alone(r), Alone(r)',
         AloneInv(r), Adds(r), AddingInv(r), AddedInv(r), RequestStep(r)
  PROVE  AddedInv(r)'
<1>0. job[r] \in Jobs /\ job \in [Requests -> Jobs] /\ InputOK(job[r].in)
  BY InputsOK DEF UserInv, UserTypeOK, Jobs
<1> USE <1>0, SameCredentials
    DEF Jobs, Active, Continue, At, Adds, Removes, AddedInv, Renewed, RecordedAt,
        coreVars, stateVars, PlaceInv, Dealt, Current, OnUser, Adding, Starting
<1>1. CASE Announce(r)
  BY <1>1 DEF Announce
<1>2. CASE Nothing(r)
  BY <1>2 DEF Nothing
<1>3. CASE CheckKnown(r)
  BY <1>3 DEF CheckKnown
<1>4. CASE LookForCore(r)
  <2>1. /\ job'[r].in = job[r].in /\ job'[r].left = job[r].left
        /\ job'[r].pc \in {"user", "answer"}
        /\ UNCHANGED <<instance, accounts, recorded>>
    BY <1>4 DEF LookForCore
  <2>2. job'[r].pc = "answer" => ~Running'
    BY <1>4 DEF LookForCore, Running
  <2>3. job[r].left = job[r].in.users
    BY <1>4 DEF LookForCore
  <2> QED
    BY <2>1, <2>2, <2>3
<1>5. CASE NextUser(r)
  BY <1>5 DEF NextUser
<1>6. CASE AllUsersDone(r)
  BY <1>6 DEF AllUsersDone
<1>7. CASE CaptureIPs(r)
  BY <1>7 DEF CaptureIPs
<1>8. CASE ReadTags(r)
  BY <1>8 DEF ReadTags
<1>9. CASE RemoveLooks(r)
  BY <1>9 DEF RemoveLooks
<1>10. CASE RemoveActs(r)
  <2>1. job[r].tag \in Tags /\ job[r].user \in Users /\ job[r].in.users \subseteq Users
    BY DEF InputOK
  <2>2. \A u \in Users, t \in Tags : Credentials(u, t)' =
           IF job[r].met = instance /\ u = job[r].user /\ t = job[r].tag THEN NoVersion
           ELSE Credentials(u, t)
    BY <1>10, RemovesOne
  <2>3. /\ job'[r].pc = "forget" /\ job'[r].in = job[r].in /\ job'[r].user = job[r].user
        /\ job'[r].left = job[r].left /\ job'[r].success = job[r].success
        /\ UNCHANGED <<instance, stateVars>> /\ job[r].pc = "removeAct"
    BY <1>10 DEF RemoveActs
  <2> QED
    BY <2>1, <2>2, <2>3
<1>11. CASE Forget(r)
  BY <1>11 DEF Forget
<1>12. CASE RemoveDone(r)
  BY <1>12, AfterRemoval
<1>13. CASE DropIP(r)
  BY <1>13 DEF DropIP
<1>14. CASE DropDone(r)
  BY <1>14, AfterDrop
<1>15. CASE AddLooks(r)
  BY <1>15 DEF AddLooks
<1>16. CASE AddRefused(r)
  BY <1>16 DEF AddRefused
<1>17. CASE AddAccepted(r)
  <2>1. /\ job[r].tag \in Tags /\ job[r].user \in Users /\ job[r].in.users \subseteq Users
        /\ job[r].in.version[job[r].user] # NoVersion
    BY DistinctNothing DEF InputOK
  <2>2. \A u \in Users, t \in Tags : Credentials(u, t)' =
           IF job[r].met = instance /\ u = job[r].user /\ t = job[r].tag
           THEN job[r].in.version[u] ELSE Credentials(u, t)
    BY <1>17, AddsOne
  <2>3. /\ job'[r].pc = "record" /\ job'[r].in = job[r].in /\ job'[r].user = job[r].user
        /\ job'[r].left = job[r].left /\ job'[r].tag = job[r].tag /\ job'[r].success
        /\ UNCHANGED <<instance, stateVars>> /\ job[r].pc = "addAct"
    BY <1>17 DEF AddAccepted
  <2>4. job[r].met = instance
    BY <2>3 DEF AloneInv
  <2> QED
    BY <2>1, <2>2, <2>3, <2>4
<1>18. CASE RecordUser(r)
  BY <1>18 DEF RecordUser
<1>19. CASE AddDone(r)
  <2>1. /\ job'[r].in = job[r].in /\ job'[r].left = job[r].left /\ job'[r].pc = "user"
        /\ UNCHANGED <<instance, accounts, recorded>> /\ job[r].pc = "add"
    BY <1>19 DEF AddDone
  <2>2. \A t \in Tags : Credentials(job[r].user, t) # NoVersion =>
          Renewed(r, job[r].user, t) /\ RecordedAt(r, job[r].user, t)
    BY <2>1 DEF AddingInv
  <2>3. \A u \in Dealt(r)' : u = job[r].user \/ u \in Dealt(r)
    BY <2>1
  <2> QED
    BY <2>1, <2>2, <2>3
<1>20. CASE Answer(r)
  BY <1>20 DEF Answer, IdleJob, Alone
<1>21. CASE Begin(r)
  BY <1>21 DEF Begin
<1>22. CASE AnnounceAffected(r)
  BY <1>22 DEF AnnounceAffected
<1>23. CASE LookForStats(r)
  BY <1>23 DEF LookForStats
<1>24. CASE LookUpIPs(r)
  BY <1>24 DEF LookUpIPs
<1>25. CASE NextInbound(r)
  BY <1>25 DEF NextInbound
<1> QED
  BY <1>1, <1>2, <1>3, <1>4, <1>5, <1>6, <1>7, <1>8, <1>9, <1>10, <1>11, <1>12, <1>13,
     <1>14, <1>15, <1>16, <1>17, <1>18, <1>19, <1>20, <1>21, <1>22, <1>23, <1>24, <1>25
  DEF RequestStep

\* the user at work gets them at one tag after the other,
LEMMA AddingOwn ==
  ASSUME UserInv, NEW r \in Requests, Active(r), PlaceInv(r), Alone(r), Alone(r)',
         AloneInv(r), Adds(r), RemovingInv(r), AddingInv(r), RequestStep(r)
  PROVE  AddingInv(r)'
<1>0. job[r] \in Jobs /\ job \in [Requests -> Jobs] /\ InputOK(job[r].in)
  BY InputsOK DEF UserInv, UserTypeOK, Jobs
<1> USE <1>0, SameCredentials
    DEF Jobs, Active, Continue, At, Adds, Removes, RemovingInv, Removed, AddingInv,
        Renewed, RecordedAt, coreVars, stateVars, PlaceInv, OnUser, Adding, Starting
<1>1. CASE Announce(r)
  BY <1>1 DEF Announce
<1>2. CASE Nothing(r)
  BY <1>2 DEF Nothing
<1>3. CASE CheckKnown(r)
  BY <1>3 DEF CheckKnown
<1>4. CASE LookForCore(r)
  BY <1>4 DEF LookForCore
<1>5. CASE NextUser(r)
  BY <1>5 DEF NextUser
<1>6. CASE AllUsersDone(r)
  BY <1>6 DEF AllUsersDone
<1>7. CASE CaptureIPs(r)
  BY <1>7 DEF CaptureIPs
<1>8. CASE ReadTags(r)
  BY <1>8 DEF ReadTags
<1>9. CASE RemoveLooks(r)
  BY <1>9 DEF RemoveLooks
<1>10. CASE RemoveActs(r)
  BY <1>10 DEF RemoveActs
<1>11. CASE Forget(r)
  BY <1>11 DEF Forget
<1>12. CASE RemoveDone(r)
  BY <1>12, AfterRemoval
<1>13. CASE DropIP(r)
  BY <1>13 DEF DropIP
<1>14. CASE DropDone(r)
  BY <1>14, AfterDrop
<1>15. CASE AddLooks(r)
  BY <1>15 DEF AddLooks
<1>16. CASE AddRefused(r)
  BY <1>16 DEF AddRefused
<1>17. CASE AddAccepted(r)
  <2>1. /\ job[r].tag \in Tags /\ job[r].user \in Users /\ job[r].in.users \subseteq Users
        /\ job[r].in.version[job[r].user] # NoVersion
    BY DistinctNothing DEF InputOK
  <2>2. \A u \in Users, t \in Tags : Credentials(u, t)' =
           IF job[r].met = instance /\ u = job[r].user /\ t = job[r].tag
           THEN job[r].in.version[u] ELSE Credentials(u, t)
    BY <1>17, AddsOne
  <2>3. /\ job'[r].pc = "record" /\ job'[r].in = job[r].in /\ job'[r].user = job[r].user
        /\ job'[r].left = job[r].left /\ job'[r].tag = job[r].tag /\ job'[r].success
        /\ UNCHANGED <<instance, stateVars>> /\ job[r].pc = "addAct"
    BY <1>17 DEF AddAccepted
  <2>4. job[r].met = instance
    BY <2>3 DEF AloneInv
  <2> QED
    BY <2>1, <2>2, <2>3, <2>4
<1>18. CASE RecordUser(r)
  <2>1. recorded \in [Tags -> SUBSET (Users \X Versions)]
    BY DEF UserInv, UserTypeOK
  <2>2. /\ job'[r].in = job[r].in /\ job'[r].user = job[r].user /\ job'[r].pc = "add"
        /\ UNCHANGED <<instance, accounts>> /\ job[r].pc = "record"
    BY <1>18 DEF RecordUser
  <2>3. recorded' = [recorded EXCEPT ![job[r].tag] =
                       @ \cup {<<job[r].user, job[r].in.version[job[r].user]>>}]
    BY <1>18 DEF RecordUser
  <2>4. ASSUME NEW t \in Tags, RecordedAt(r, job[r].user, t) \/ t = job[r].tag
        PROVE  RecordedAt(r, job[r].user, t)'
    <3>1. CASE t = job[r].tag
      <4>1. recorded'[t] = recorded[t] \cup {<<job[r].user, job[r].in.version[job[r].user]>>}
        BY <2>1, <2>3, <3>1
      <4> QED
        BY <2>2, <4>1
    <3>2. CASE t # job[r].tag
      <4>1. recorded'[t] = recorded[t]
        BY <2>1, <2>3, <3>2
      <4> QED
        BY <2>2, <2>4, <3>2, <4>1
    <3> QED
      BY <3>1, <3>2
  <2>5. \A t \in Tags : Renewed(r, job[r].user, t) => Renewed(r, job[r].user, t)'
    BY <2>2
  <2>6. \A t \in Tags : Credentials(job[r].user, t) # NoVersion =>
          Renewed(r, job[r].user, t) /\ (RecordedAt(r, job[r].user, t) \/ job[r].tag = t)
    BY <2>2
  <2> QED
    BY <2>2, <2>4, <2>5, <2>6
<1>19. CASE AddDone(r)
  BY <1>19 DEF AddDone
<1>20. CASE Answer(r)
  BY <1>20 DEF Answer, IdleJob
<1>21. CASE Begin(r)
  BY <1>21 DEF Begin
<1>22. CASE AnnounceAffected(r)
  BY <1>22 DEF AnnounceAffected
<1>23. CASE LookForStats(r)
  BY <1>23 DEF LookForStats
<1>24. CASE LookUpIPs(r)
  BY <1>24 DEF LookUpIPs
<1>25. CASE NextInbound(r)
  BY <1>25 DEF NextInbound
<1> QED
  BY <1>1, <1>2, <1>3, <1>4, <1>5, <1>6, <1>7, <1>8, <1>9, <1>10, <1>11, <1>12, <1>13,
     <1>14, <1>15, <1>16, <1>17, <1>18, <1>19, <1>20, <1>21, <1>22, <1>23, <1>24, <1>25
  DEF RequestStep

\* the answer is as the additions were,
LEMMA CountOwn ==
  ASSUME UserInv, NEW r \in Requests, Active(r), PlaceInv(r), Alone(r), Alone(r)',
         AloneInv(r), Adds(r), RemovingInv(r), AddingInv(r), CountInv(r), RequestStep(r)
  PROVE  CountInv(r)'
<1>0. job[r] \in Jobs /\ job \in [Requests -> Jobs] /\ InputOK(job[r].in)
  BY InputsOK DEF UserInv, UserTypeOK, Jobs
<1> USE <1>0, SameCredentials
    DEF Jobs, Active, Continue, At, Adds, Removes, CountInv, coreVars, stateVars,
        PlaceInv, Dealt, Counted, Current, OnUser, Adding, Starting
<1>1. CASE Announce(r)
  BY <1>1 DEF Announce
<1>2. CASE Nothing(r)
  BY <1>2 DEF Nothing
<1>3. CASE CheckKnown(r)
  BY <1>3 DEF CheckKnown
<1>4. CASE LookForCore(r)
  BY <1>4 DEF LookForCore
<1>5. CASE NextUser(r)
  BY <1>5 DEF NextUser
<1>6. CASE AllUsersDone(r)
  BY <1>6 DEF AllUsersDone
<1>7. CASE CaptureIPs(r)
  BY <1>7 DEF CaptureIPs
<1>8. CASE ReadTags(r)
  BY <1>8 DEF ReadTags
<1>9. CASE RemoveLooks(r)
  BY <1>9 DEF RemoveLooks
<1>10. CASE RemoveActs(r)
  <2>1. job[r].tag \in Tags /\ job[r].user \in Users /\ job[r].in.users \subseteq Users
    BY DEF InputOK
  <2>2. \A u \in Users, t \in Tags : Credentials(u, t)' =
           IF job[r].met = instance /\ u = job[r].user /\ t = job[r].tag THEN NoVersion
           ELSE Credentials(u, t)
    BY <1>10, RemovesOne
  <2>3. /\ job'[r].pc = "forget" /\ job'[r].in = job[r].in /\ job'[r].user = job[r].user
        /\ job'[r].left = job[r].left /\ job'[r].success = job[r].success
        /\ UNCHANGED <<instance, stateVars>> /\ job[r].pc = "removeAct"
    BY <1>10 DEF RemoveActs
  <2> QED
    BY <2>1, <2>2, <2>3
<1>11. CASE Forget(r)
  BY <1>11 DEF Forget
<1>12. CASE RemoveDone(r)
  <2>1. \A t \in Tags : Credentials(job[r].user, t) = NoVersion
    BY <1>12, AfterRemoval DEF RemovingInv, Removed
  <2> QED
    BY <1>12, <2>1, AfterRemoval
<1>13. CASE DropIP(r)
  BY <1>13 DEF DropIP
<1>14. CASE DropDone(r)
  <2>1. \A t \in Tags : Credentials(job[r].user, t) = NoVersion
    BY <1>14, AfterDrop DEF AddingInv
  <2> QED
    BY <1>14, <2>1, AfterDrop
<1>15. CASE AddLooks(r)
  BY <1>15 DEF AddLooks
<1>16. CASE AddRefused(r)
  BY <1>16 DEF AddRefused
<1>17. CASE AddAccepted(r)
  <2>1. /\ job[r].tag \in Tags /\ job[r].user \in Users /\ job[r].in.users \subseteq Users
        /\ job[r].in.version[job[r].user] # NoVersion
    BY DistinctNothing DEF InputOK
  <2>2. \A u \in Users, t \in Tags : Credentials(u, t)' =
           IF job[r].met = instance /\ u = job[r].user /\ t = job[r].tag
           THEN job[r].in.version[u] ELSE Credentials(u, t)
    BY <1>17, AddsOne
  <2>3. /\ job'[r].pc = "record" /\ job'[r].in = job[r].in /\ job'[r].user = job[r].user
        /\ job'[r].left = job[r].left /\ job'[r].tag = job[r].tag /\ job'[r].success
        /\ UNCHANGED <<instance, stateVars>> /\ job[r].pc = "addAct"
    BY <1>17 DEF AddAccepted
  <2>4. job[r].met = instance
    BY <2>3 DEF AloneInv
  <2> QED
    BY <2>1, <2>2, <2>3, <2>4 DEF AloneInv
<1>18. CASE RecordUser(r)
  BY <1>18 DEF RecordUser
<1>19. CASE AddDone(r)
  BY <1>19 DEF AddDone
<1>20. CASE Answer(r)
  BY <1>20 DEF Answer, IdleJob, Alone
<1>21. CASE Begin(r)
  BY <1>21 DEF Begin
<1>22. CASE AnnounceAffected(r)
  BY <1>22 DEF AnnounceAffected
<1>23. CASE LookForStats(r)
  BY <1>23 DEF LookForStats
<1>24. CASE LookUpIPs(r)
  BY <1>24 DEF LookUpIPs
<1>25. CASE NextInbound(r)
  BY <1>25 DEF NextInbound
<1> QED
  BY <1>1, <1>2, <1>3, <1>4, <1>5, <1>6, <1>7, <1>8, <1>9, <1>10, <1>11, <1>12, <1>13,
     <1>14, <1>15, <1>16, <1>17, <1>18, <1>19, <1>20, <1>21, <1>22, <1>23, <1>24, <1>25
  DEF RequestStep

\* and the sessions at captured addresses are new.
LEMMA CapturedOwn ==
  ASSUME UserInv, NEW r \in Requests, Active(r), PlaceInv(r), Alone(r), Alone(r)',
         AloneInv(r), CapturedInv(r), RequestStep(r)
  PROVE  CapturedInv(r)'
<1>0. job[r] \in Jobs /\ job \in [Requests -> Jobs] /\ InputOK(job[r].in)
  BY InputsOK DEF UserInv, UserTypeOK, Jobs
<1> USE <1>0
    DEF Jobs, Active, Continue, At, Adds, Removes, CapturedInv, coreVars, stateVars,
        PlaceInv, OnUser, Adding, Starting
<1>1. CASE Announce(r)
  BY <1>1 DEF Announce
<1>2. CASE Nothing(r)
  BY <1>2 DEF Nothing
<1>3. CASE CheckKnown(r)
  BY <1>3 DEF CheckKnown
<1>4. CASE LookForCore(r)
  BY <1>4 DEF LookForCore
<1>5. CASE NextUser(r)
  BY <1>5 DEF NextUser
<1>6. CASE AllUsersDone(r)
  BY <1>6 DEF AllUsersDone
<1>7. CASE CaptureIPs(r)
  BY <1>7 DEF CaptureIPs
<1>8. CASE ReadTags(r)
  BY <1>8 DEF ReadTags
<1>9. CASE RemoveLooks(r)
  BY <1>9 DEF RemoveLooks
<1>10. CASE RemoveActs(r)
  BY <1>10 DEF RemoveActs
<1>11. CASE Forget(r)
  BY <1>11 DEF Forget
<1>12. CASE RemoveDone(r)
  BY <1>12, AfterRemoval
<1>13. CASE DropIP(r)
  BY <1>13 DEF DropIP
<1>14. CASE DropDone(r)
  <2>1. job[r].in.kind = "add" /\ job[r].pc = "drop" => job[r].in.users = {job[r].user}
    BY DEF InputOK
  <2> QED
    BY <1>14, <2>1, AfterDrop
<1>15. CASE AddLooks(r)
  BY <1>15 DEF AddLooks
<1>16. CASE AddRefused(r)
  BY <1>16 DEF AddRefused
<1>17. CASE AddAccepted(r)
  BY <1>17 DEF AddAccepted
<1>18. CASE RecordUser(r)
  BY <1>18 DEF RecordUser
<1>19. CASE AddDone(r)
  BY <1>19 DEF AddDone
<1>20. CASE Answer(r)
  BY <1>20 DEF Answer, IdleJob
<1>21. CASE Begin(r)
  BY <1>21 DEF Begin
<1>22. CASE AnnounceAffected(r)
  BY <1>22 DEF AnnounceAffected
<1>23. CASE LookForStats(r)
  BY <1>23 DEF LookForStats
<1>24. CASE LookUpIPs(r)
  BY <1>24 DEF LookUpIPs
<1>25. CASE NextInbound(r)
  BY <1>25 DEF NextInbound
<1> QED
  BY <1>1, <1>2, <1>3, <1>4, <1>5, <1>6, <1>7, <1>8, <1>9, <1>10, <1>11, <1>12, <1>13,
     <1>14, <1>15, <1>16, <1>17, <1>18, <1>19, <1>20, <1>21, <1>22, <1>23, <1>24, <1>25
  DEF RequestStep

-----------------------------------------------------------------------------
\* What an undisturbed request has achieved stays when others take steps: its users are
\* not theirs, and connections come only from accounts that are there.
LEMMA EffectStays ==
  ASSUME UserInv, NEW r \in Requests, PlaceInv(r), Alone(r), EffectInv(r),
         job'[r] = job[r], instance' = instance, started' = started,
         \A u \in job[r].in.users, t \in Tags : Credentials(u, t)' = Credentials(u, t),
         \A u \in job[r].in.users, t \in Tags : \A v :
           <<u, v>> \in recorded'[t] <=> <<u, v>> \in recorded[t],
         \A s \in sessions' : s \in sessions \/
           \E t \in Tags : Credentials(s.user, t) = s.version /\ s.version # NoVersion,
         \A q \in Requests \ {r} : Active(q)' => job'[q].in.users \cap job[r].in.users = {}
  PROVE  EffectInv(r)'
<1>0. job[r].tag \in Tags /\ InputOK(job[r].in)
  BY InputsOK DEF UserInv, UserTypeOK, Jobs
<1>1. AloneInv(r)'
  BY DEF EffectInv, AloneInv
<1>2. job[r].pc \in OnUser /\ (Adds(r) \/ Removes(r)) => job[r].user \in job[r].in.users
  BY DEF PlaceInv, Adds, Removes
<1>3. RemovingInv(r)'
  <2>1. job[r].pc \in {"remove", "removeAct", "forget"} => job[r].user \in job[r].in.users
    BY <1>2 DEF PlaceInv, OnUser
  <2> QED
    BY <1>0, <2>1 DEF EffectInv, RemovingInv, Removed
<1>4. RemovedInv(r)'
  BY DEF EffectInv, RemovedInv, Removed, Dealt, Current, Removes, Running
<1>5. Adds(r) => AddedInv(r)'
  BY DEF EffectInv, AddedInv, Renewed, RecordedAt, Dealt, Current, Running
<1>6. Adds(r) => AddingInv(r)'
  <2>1. Adds(r) /\ job[r].pc \in {"drop"} \cup Adding => job[r].user \in job[r].in.users
    BY <1>2 DEF OnUser, Adding
  <2> QED
    BY <1>0, <2>1 DEF EffectInv, AddingInv, Renewed, RecordedAt, Adding
<1>7. Adds(r) => CountInv(r)'
  <2>1. Adds(r) => Counted(r) \subseteq job[r].in.users /\ Counted(r)' = Counted(r)
    BY <1>2 DEF OnUser, Adding, Counted, Dealt, Current
  <2> QED
    BY <2>1 DEF EffectInv, CountInv
<1>8. CapturedInv(r)'
  <2> SUFFICES ASSUME job[r].in.kind = "add", NEW s \in sessions'
      PROVE  /\ (job[r].pc = "drop" /\ s.user = job[r].user
                 /\ s.ip \in job[r].captured \ job[r].ips)
                  => s.version = job[r].in.version[s.user]
             /\ (job[r].pc \in Adding \cup {"user", "answer"}
                 /\ s.user \in job[r].in.users /\ s.ip \in job[r].captured)
                  => s.version = job[r].in.version[s.user]
    BY DEF CapturedInv
  <2>1. CASE s \in sessions
    <3>1. CapturedInv(r)
      BY DEF EffectInv
    <3> QED
      BY <2>1, <3>1 DEF CapturedInv
  <2>2. ASSUME NEW t \in Tags, Credentials(s.user, t) = s.version, s.version # NoVersion
        PROVE  /\ job[r].pc = "drop" => s.user # job[r].user
               /\ (job[r].pc \in Adding \cup {"user", "answer"}
                   /\ s.user \in job[r].in.users /\ s.ip \in job[r].captured)
                    => s.version = job[r].in.version[s.user]
    <3>1. AddedInv(r) /\ AddingInv(r)
      BY DEF EffectInv, Adds
    <3>2. job[r].pc = "drop" => s.user # job[r].user
      BY <2>2, <3>1 DEF AddingInv
    <3>3. job[r].pc \in Adding /\ s.user \in job[r].in.users
            => s.version = job[r].in.version[s.user]
      <4>1. job[r].pc \in Adding => job[r].in.users = {job[r].user}
        BY <1>0, <1>2 DEF InputOK, Adds, OnUser, Adding
      <4> QED
        BY <2>2, <3>1, <4>1 DEF AddingInv, Renewed
    <3>4. job[r].pc \in {"user", "answer"} /\ s.user \in job[r].in.users /\ job[r].left = {}
            => s.version = job[r].in.version[s.user]
      BY <2>2, <3>1 DEF AddedInv, Renewed, Dealt, Current, OnUser
    <3>5. job[r].pc \in {"user", "answer"} => job[r].left = {} \/ job[r].captured = {}
      BY DEF PlaceInv
    <3> QED
      BY <3>2, <3>3, <3>4, <3>5
  <2> QED
    BY <2>1, <2>2
<1> QED
  BY <1>1, <1>3, <1>4, <1>5, <1>6, <1>7, <1>8 DEF EffectInv, Adds

\* A request keeps its input, and leaves the locals of the others alone.
LEMMA OwnLocals ==
  ASSUME job \in [Requests -> Jobs], NEW r \in Requests, RequestStep(r), ~Begin(r)
  PROVE  /\ Active(r) /\ job'[r].in = job[r].in
         /\ Active(r)' => job'[r].disturbed = job[r].disturbed
         /\ \A q \in Requests \ {r} : job'[q] = job[q]
         /\ instance' = instance /\ started' = started /\ sessions' \subseteq sessions
<1>0. job[r] \in Jobs
  OBVIOUS
<1> USE <1>0 DEF Jobs, Active, Continue, At, coreVars
<1>1. CASE Announce(r)
  <2>1. job' = [job EXCEPT ![r] = [job[r] EXCEPT !.pc = "client"]]
        \/ \E t \in job[r].todo : job' = [job EXCEPT ![r] = [job[r] EXCEPT !.todo = @ \ {t}]]
    BY <1>1 DEF Announce
  <2>2. UNCHANGED coreVars /\ At(r, "announce")
    BY <1>1 DEF Announce
  <2>3. CASE job' = [job EXCEPT ![r] = [job[r] EXCEPT !.pc = "client"]]
    BY <2>2, <2>3
  <2>4. ASSUME NEW t, job' = [job EXCEPT ![r] = [job[r] EXCEPT !.todo = @ \ {t}]]
        PROVE  /\ job'[r].in = job[r].in /\ job'[r].disturbed = job[r].disturbed
               /\ \A q \in Requests \ {r} : job'[q] = job[q]
    BY <2>4
  <2> QED
    BY <2>1, <2>2, <2>3, <2>4
<1>2. CASE Nothing(r)
  BY <1>2 DEF Nothing
<1>3. CASE CheckKnown(r)
  BY <1>3 DEF CheckKnown
<1>4. CASE LookForCore(r)
  BY <1>4 DEF LookForCore
<1>5. CASE NextUser(r)
  BY <1>5 DEF NextUser
<1>6. CASE AllUsersDone(r)
  BY <1>6 DEF AllUsersDone
<1>7. CASE CaptureIPs(r)
  BY <1>7 DEF CaptureIPs
<1>8. CASE ReadTags(r)
  BY <1>8 DEF ReadTags
<1>9. CASE RemoveLooks(r)
  BY <1>9 DEF RemoveLooks
<1>10. CASE RemoveActs(r)
  BY <1>10 DEF RemoveActs
<1>11. CASE Forget(r)
  BY <1>11 DEF Forget
<1>12. CASE RemoveDone(r)
  BY <1>12, AfterRemoval
<1>13. CASE DropIP(r)
  BY <1>13 DEF DropIP
<1>14. CASE DropDone(r)
  BY <1>14, AfterDrop
<1>15. CASE AddLooks(r)
  BY <1>15 DEF AddLooks
<1>16. CASE AddRefused(r)
  BY <1>16 DEF AddRefused
<1>17. CASE AddAccepted(r)
  BY <1>17 DEF AddAccepted
<1>18. CASE RecordUser(r)
  BY <1>18 DEF RecordUser
<1>19. CASE AddDone(r)
  BY <1>19 DEF AddDone
<1>20. CASE Answer(r)
  BY <1>20 DEF Answer, IdleJob
<1>21. CASE AnnounceAffected(r)
  BY <1>21 DEF AnnounceAffected
<1>22. CASE LookForStats(r)
  BY <1>22 DEF LookForStats
<1>23. CASE LookUpIPs(r)
  BY <1>23 DEF LookUpIPs
<1>24. CASE NextInbound(r)
  BY <1>24 DEF NextInbound
<1> QED
  BY <1>1, <1>2, <1>3, <1>4, <1>5, <1>6, <1>7, <1>8, <1>9, <1>10, <1>11, <1>12, <1>13,
     <1>14, <1>15, <1>16, <1>17, <1>18, <1>19, <1>20, <1>21, <1>22, <1>23, <1>24
  DEF RequestStep

\* A step of another request takes nothing away from what an undisturbed one achieved.
LEMMA OthersStep ==
  ASSUME UserInv, RequestInv, NEW r \in Requests, NEW q \in Requests \ {r}, RequestStep(q),
         ~Begin(q)
  PROVE  /\ Active(r)' => PlaceInv(r)'
         /\ Alone(r)' => EffectInv(r)'
<1>1. job \in [Requests -> Jobs] /\ job[q] \in Jobs /\ job[r] \in Jobs
      /\ InputOK(job[q].in) /\ InputOK(job[r].in)
  BY InputsOK DEF UserInv, UserTypeOK, Jobs
<1>2. /\ Active(q) /\ job'[q].in = job[q].in
      /\ \A p \in Requests \ {q} : job'[p] = job[p]
      /\ instance' = instance /\ started' = started /\ sessions' \subseteq sessions
  BY <1>1, OwnLocals
<1>3. job'[r] = job[r]
  BY <1>2
<1>4. Active(r)' => PlaceInv(r)'
  <2>1. Active(r)' => PlaceInv(r)
    BY <1>3 DEF RequestInv, Active
  <2> QED
    BY <1>3, <2>1 DEF PlaceInv, Adds, Removes
<1>5. ASSUME Alone(r)' PROVE EffectInv(r)'
  <2>1. Alone(r) /\ PlaceInv(r) /\ EffectInv(r)
    BY <1>3, <1>5 DEF RequestInv, Alone, Active
  <2>2. /\ job[q].in.users \cap job[r].in.users = {}
        /\ \A p \in Requests \ {r} : Active(p)' => job'[p].in.users \cap job[r].in.users = {}
    <3>1. \A p \in Requests \ {r} : Active(p) => job[p].in.users \cap job[r].in.users = {}
      BY <2>1 DEF EffectInv, AloneInv
    <3> QED
      BY <1>2, <3>1 DEF Active
  <2>3. PlaceInv(q)
    BY <1>2 DEF RequestInv
  <2>4. job[q].pc \in {"removeAct", "forget", "addAct", "record"}
          => job[q].user \notin job[r].in.users
    <3>1. job[q].pc \in {"removeAct", "forget", "addAct", "record"}
            => job[q].user \in job[q].in.users
      BY <2>3 DEF PlaceInv, OnUser, Adding, Adds, Removes
    <3> QED
      BY <2>2, <3>1
  <2>5. \A u \in job[r].in.users, t \in Tags : Credentials(u, t)' = Credentials(u, t)
    <3>1. job[r].in.users \subseteq Users
      BY <1>1 DEF InputOK
    <3>2. CASE RemoveActs(q)
      <4>1. job[q].pc = "removeAct"
        BY <3>2 DEF RemoveActs, At
      <4> QED
        BY <2>4, <3>1, <3>2, <4>1, RemovesOne
    <3>3. CASE AddAccepted(q)
      <4>1. job[q].pc = "addAct"
        BY <3>3 DEF AddAccepted, At
      <4> QED
        BY <2>4, <3>1, <3>3, <4>1, AddsOne
    <3>4. CASE UNCHANGED accounts
      BY <1>2, <3>4, SameCredentials
    <3> QED
      BY <3>2, <3>3, <3>4
      DEF RequestStep, AnnounceAffected, Announce, Nothing, CheckKnown, LookForCore, NextUser,
          AllUsersDone, LookForStats, LookUpIPs, NextInbound, CaptureIPs, ReadTags, RemoveLooks,
          Forget, RemoveDone, DropIP, DropDone, AddLooks,
          AddRefused, RecordUser, AddDone, Answer, coreVars
  <2>6. \A u \in job[r].in.users, t \in Tags : \A v :
          <<u, v>> \in recorded'[t] <=> <<u, v>> \in recorded[t]
    <3>1. recorded \in [Tags -> SUBSET (Users \X Versions)] /\ job[q].tag \in Tags
      BY <1>1 DEF UserInv, UserTypeOK, Jobs
    <3>2. CASE Forget(q)
      <4>1. job[q].pc = "forget" /\ recorded' = [recorded EXCEPT
               ![job[q].tag] = @ \ {<<job[q].user, RemovedVersion(job[q].in, job[q].user)>>}]
        BY <3>2 DEF Forget, At
      <4>2. job[q].user \notin job[r].in.users
        BY <2>4, <4>1
      <4> QED
        BY <3>1, <4>1, <4>2
    <3>3. CASE RecordUser(q)
      <4>1. job[q].pc = "record" /\ recorded' = [recorded EXCEPT
               ![job[q].tag] = @ \cup {<<job[q].user, job[q].in.version[job[q].user]>>}]
        BY <3>3 DEF RecordUser, At
      <4>2. job[q].user \notin job[r].in.users
        BY <2>4, <4>1
      <4> QED
        BY <3>1, <4>1, <4>2
    <3>4. CASE UNCHANGED recorded
      BY <3>4
    <3> QED
      BY <3>2, <3>3, <3>4
      DEF RequestStep, AnnounceAffected, Announce, Nothing, CheckKnown, LookForCore, NextUser,
          AllUsersDone, LookForStats, LookUpIPs, NextInbound, CaptureIPs, ReadTags, RemoveLooks,
          RemoveActs, RemoveDone, DropIP, DropDone, AddLooks,
          AddRefused, AddAccepted, AddDone, Answer, stateVars
  <2> QED
    BY <1>2, <1>3, <2>1, <2>2, <2>5, <2>6, EffectStays
<1> QED
  BY <1>4, <1>5

\* A request that begins is through with nobody; those it may disturb are told.
LEMMA BeginStep ==
  ASSUME UserInv, RequestInv, NEW r \in Requests, Begin(r)
  PROVE  RequestInv'
<1>1. job \in [Requests -> Jobs] /\ UNCHANGED <<coreVars, stateVars>>
  BY DEF UserInv, UserTypeOK, Begin
<1>2. PICK in \in Inputs :
        job' = [q \in Requests |->
                  IF q = r THEN BegunJob(in)
                  ELSE [job[q] EXCEPT !.disturbed = @ \/ q \in AtWorkOn(in)]]
  BY DEF Begin
<1>3. InputOK(in)
  BY InputsOK
<1>4. /\ job'[r].pc = FirstStep(in) /\ job'[r].in = in /\ job'[r].left = in.users
      /\ job'[r].captured = {} /\ job'[r].success = (in.kind = "dropIPs" /\ in.ips # {})
      /\ job'[r].disturbed = (started # "no" \/ AtWorkOn(in) # {})
  BY <1>2 DEF BegunJob, IdleJob
<1>5. ASSUME NEW q \in Requests, q # r
      PROVE  /\ job'[q].pc = job[q].pc /\ job'[q].in = job[q].in
             /\ job'[q].disturbed = (job[q].disturbed \/ q \in AtWorkOn(in))
             /\ q \notin AtWorkOn(in) => job'[q] = job[q]
             /\ PlaceInv(q) => PlaceInv(q)'
  <2>1. job[q] \in Jobs /\ job'[q] = [job[q] EXCEPT !.disturbed = @ \/ q \in AtWorkOn(in)]
    BY <1>1, <1>2, <1>5
  <2>2. job[q].disturbed \in BOOLEAN
    BY <2>1, JobFields
  <2>3. job'[q].pc = job[q].pc /\ job'[q].in = job[q].in /\ job'[q].left = job[q].left
        /\ job'[q].user = job[q].user /\ job'[q].todo = job[q].todo /\ job'[q].tag = job[q].tag
        /\ job'[q].captured = job[q].captured /\ job'[q].success = job[q].success
        /\ job'[q].disturbed = (job[q].disturbed \/ q \in AtWorkOn(in))
    BY <2>1 DEF Jobs
  <2>4. q \notin AtWorkOn(in) => job'[q] = job[q]
    BY <2>1, <2>2 DEF Jobs
  <2> QED
    BY <2>3, <2>4 DEF PlaceInv, Adds, Removes
<1>6. FirstStep(in) \in 
        {"answer", "empty", "affected", "announce", "check", "client", "drop"}
      /\ (FirstStep(in) \in {"affected", "announce"} => in.kind \in {"add", "addMany"})
      /\ (FirstStep(in) = "check" => in.kind \in {"remove", "removeMany"})
      /\ (FirstStep(in) = "empty" => EmptyAdd(in) /\ in.kind = "add")
      /\ (FirstStep(in) = "client" => in.kind = "dropUsers")
      /\ (FirstStep(in) = "drop" => in.kind = "dropIPs")
      /\ (FirstStep(in) = "answer" => in.kind \in {"dropUsers", "dropIPs"})
  BY <1>3 DEF FirstStep, NothingToDrop, EmptyAdd, InputOK, Kinds
<1>7. PlaceInv(r)'
  BY <1>4, <1>6 DEF PlaceInv, Adds, Removes, OnUser, Adding, Starting
<1>8. ASSUME Alone(r)' PROVE EffectInv(r)'
  <2>1. started = "no" /\ AtWorkOn(in) = {}
    BY <1>4, <1>8 DEF Alone
  <2>2. AloneInv(r)'
    <3>1. \A q \in Requests \ {r} : Active(q)' => job'[q].in.users \cap in.users = {}
      BY <1>5, <2>1 DEF Active, AtWorkOn
    <3> QED
      BY <1>1, <1>4, <1>6, <2>1, <3>1 DEF AloneInv, coreVars
  <2>3. RemovingInv(r)'
    BY <1>4, <1>6 DEF RemovingInv
  <2>4. Dealt(r)' = {}
    BY <1>4 DEF Dealt
  <2>5. Removes(r)' \/ Adds(r)' => job'[r].pc \in {"affected", "announce", "check", "empty"}
    BY <1>4, <1>6 DEF Removes, Adds
  <2>6. RemovedInv(r)'
    BY <1>4, <1>6, <2>4, <2>5 DEF RemovedInv, Removes
  <2>7. Adds(r)' => AddedInv(r)' /\ AddingInv(r)' /\ CountInv(r)'
    BY <1>4, <1>6, <2>4, <2>5 DEF AddedInv, AddingInv, CountInv, Counted, Adds, Adding
  <2>8. CapturedInv(r)'
    BY <1>4, <2>5 DEF CapturedInv, Adds, Adding
  <2> QED
    BY <2>2, <2>3, <2>6, <2>7, <2>8 DEF EffectInv
<1>9. ASSUME NEW q \in Requests, q # r, Alone(q)' PROVE EffectInv(q)'
  <2>1. q \notin AtWorkOn(in) /\ job'[q] = job[q] /\ Alone(q) /\ PlaceInv(q) /\ EffectInv(q)
    BY <1>5, <1>9 DEF Alone, Active, RequestInv
  <2>2. job[q].in.users \cap in.users = {}
    BY <2>1 DEF AtWorkOn, Alone
  <2>3. \A p \in Requests \ {q} : Active(p)' => job'[p].in.users \cap job[q].in.users = {}
    <3>1. \A p \in Requests \ {q} : Active(p) => job[p].in.users \cap job[q].in.users = {}
      BY <2>1 DEF EffectInv, AloneInv
    <3> QED
      BY <1>4, <1>5, <2>2, <3>1 DEF Active
  <2>4. \A u, t : Credentials(u, t)' = Credentials(u, t)
    BY <1>1, SameCredentials DEF coreVars
  <2> QED
    BY <1>1, <2>1, <2>3, <2>4, EffectStays DEF coreVars, stateVars
<1> QED
  BY <1>5, <1>7, <1>8, <1>9 DEF RequestInv, Active

\* What the labels say holds after every step of a request.
LEMMA RequestInvKept ==
  ASSUME UserInv, RequestInv, NEW q \in Requests, RequestStep(q)
  PROVE  RequestInv'
<1>1. job \in [Requests -> Jobs]
  BY DEF UserInv, UserTypeOK
<1>2. CASE Begin(q)
  BY <1>2, BeginStep
<1>3. CASE ~Begin(q)
  <2>1. ASSUME NEW r \in Requests, r # q
        PROVE  /\ Active(r)' => PlaceInv(r)'
               /\ Alone(r)' => EffectInv(r)'
    BY <1>3, <2>1, OthersStep
  <2>2. Active(q) /\ (Active(q)' => job'[q].disturbed = job[q].disturbed)
    BY <1>1, <1>3, OwnLocals
  <2>3. PlaceInv(q)
    BY <2>2 DEF RequestInv
  <2>4. Active(q)' => PlaceInv(q)'
    BY <2>2, <2>3, PlaceStep
  <2>5. ASSUME Alone(q)' PROVE EffectInv(q)'
    <3>1. Alone(q)
      BY <2>2, <2>5 DEF Alone
    <3>2. EffectInv(q)
      BY <3>1 DEF RequestInv
    <3>3. AloneInv(q)' /\ RemovingInv(q)' /\ RemovedInv(q)' /\ CapturedInv(q)'
      BY <2>2, <2>3, <2>5, <3>1, <3>2, AloneOwn, RemovingOwn, RemovedOwn, CapturedOwn
      DEF EffectInv
    <3>4. Adds(q) => AddedInv(q)' /\ AddingInv(q)' /\ CountInv(q)'
      BY <2>2, <2>3, <2>5, <3>1, <3>2, AddedOwn, AddingOwn, CountOwn DEF EffectInv
    <3>5. Adds(q)' => Adds(q)
      BY <1>1, <1>3, OwnLocals DEF Adds
    <3> QED
      BY <3>3, <3>4, <3>5 DEF EffectInv
  <2> QED
    BY <2>1, <2>4, <2>5 DEF RequestInv
<1> QED
  BY <1>2, <1>3

\* A restart disturbs whatever request is at work.
LEMMA RequestInvRestart ==
  ASSUME UserInv, RequestInv, Restart
  PROVE  RequestInv'
<1>1. job \in [Requests -> Jobs]
  BY DEF UserInv, UserTypeOK
<1>2. DisturbAll
  BY DEF Restart, CloseCore, PublishCore, RecordStarted, RecordProtocols
<1>3. ASSUME NEW r \in Requests, Active(r)' PROVE PlaceInv(r)' /\ ~Alone(r)'
  <2>1. job[r] \in Jobs
        /\ job'[r] = IF Active(r) THEN [job[r] EXCEPT !.disturbed = TRUE] ELSE job[r]
    BY <1>1, <1>2 DEF DisturbAll
  <2>2. Active(r)
    BY <1>3, <2>1 DEF Active
  <2>3. job'[r].pc = job[r].pc /\ job'[r].in = job[r].in /\ job'[r].left = job[r].left
        /\ job'[r].user = job[r].user /\ job'[r].todo = job[r].todo /\ job'[r].tag = job[r].tag
        /\ job'[r].captured = job[r].captured /\ job'[r].success = job[r].success
        /\ job'[r].disturbed = TRUE
    BY <2>1, <2>2 DEF Jobs
  <2>4. PlaceInv(r)
    BY <2>2 DEF RequestInv
  <2> QED
    BY <2>3, <2>4 DEF PlaceInv, Adds, Removes, Alone
<1> QED
  BY <1>3 DEF RequestInv, Alone

\* A connection that opens uses an account that is there.
LEMMA RequestInvConnect ==
  ASSUME UserInv, RequestInv, UsersConnect \/ UNCHANGED vars
  PROVE  RequestInv'
<1>1. UNCHANGED <<instance, accounts, started, newest, stateVars, job>>
  BY DEF UsersConnect, Connect, Leave, vars, coreVars
<1>2. \A s \in sessions' : s \in sessions \/
        \E t \in Tags : Credentials(s.user, t) = s.version /\ s.version # NoVersion
  BY DEF UsersConnect, Connect, Leave, vars, coreVars, Credentials
<1>3. \A u, t : Credentials(u, t)' = Credentials(u, t)
  BY <1>1, SameCredentials
<1>4. ASSUME NEW r \in Requests, Active(r)' PROVE PlaceInv(r)'
  BY <1>1, <1>4 DEF RequestInv, Active, PlaceInv, Adds, Removes
<1>5. ASSUME NEW r \in Requests, Alone(r)' PROVE EffectInv(r)'
  <2>1. Alone(r) /\ PlaceInv(r) /\ EffectInv(r)
    BY <1>1, <1>5 DEF RequestInv, Alone, Active
  <2>2. \A q \in Requests \ {r} : Active(q)' => job'[q].in.users \cap job[r].in.users = {}
    BY <1>1, <2>1 DEF EffectInv, AloneInv, Active
  <2> QED
    BY <1>1, <1>2, <1>3, <2>1, <2>2, EffectStays DEF stateVars
<1> QED
  BY <1>4, <1>5 DEF RequestInv

\* What the labels of undisturbed requests say holds throughout.
LEMMA RequestInvariance == Spec => []RequestInv
<1>1. Init => RequestInv
  <2>1. Init => \A r \in Requests : job[r].pc = "idle"
    <3>1. \A in : IdleJob(in).pc = "idle"
      BY DEF IdleJob
    <3> QED
      BY <3>1 DEF Init
  <2> QED
    BY <2>1 DEF RequestInv, Active, Alone
<1>2. UserInv /\ RequestInv /\ [Next]_vars => RequestInv'
  BY RequestInvKept, RequestInvRestart, RequestInvConnect DEF Next
<1> QED
  BY <1>1, <1>2, UserInvariance, PTL DEF Spec

\* AddedExactly: an add that nobody disturbs leaves its users with the new credentials at
\* the inbounds it names and nowhere else, recorded, and tells whether any of them is there.
THEOREM AddsExactly == Spec => []AddedExactly
<1>1. ASSUME UserInv, RequestInv, NEW r \in Requests, Undisturbed(r), Adds(r),
             ~EmptyAdd(job[r].in), job[r].in.users # {}
      PROVE  /\ \A u \in job[r].in.users, t \in Inbounds(instance) :
                  Served(u, t) => /\ t \in job[r].in.tags[u]
                                  /\ Account(instance, t, u) = job[r].in.version[u]
                                  /\ <<u, job[r].in.version[u]>> \in recorded[t]
             /\ job[r].success <=> \E u \in job[r].in.users, t \in Tags : Served(u, t)
  <2>1. job[r].pc = "answer" /\ AddedInv(r) /\ CountInv(r)
    BY <1>1 DEF Undisturbed, At, RequestInv, Alone, Active, EffectInv
  <2>2. Inbounds(instance) \subseteq Tags
    BY <1>1, InboundsAreTags DEF UserInv, UserTypeOK
  <2>3. CASE Running
    <3>1. Dealt(r) = job[r].in.users /\ Counted(r) = job[r].in.users
      BY <1>1, <2>1, <2>3 DEF AddedInv, Dealt, Counted, Current, OnUser, Adding
    <3> QED
      BY <1>1, <2>1, <2>2, <3>1
      DEF AddedInv, CountInv, Served, Credentials, Renewed, RecordedAt
  <2>4. CASE ~Running
    <3>1. \A u, t : ~Served(u, t) /\ Credentials(u, t) = NoVersion
      BY <2>4 DEF Running, Served, Credentials, Account, Inbounds
    <3> QED
      BY <1>1, <2>1, <3>1 DEF CountInv
  <2> QED
    BY <2>3, <2>4
<1>2. UserInv /\ RequestInv => AddedExactly
  BY <1>1 DEF AddedExactly
<1> QED
  BY <1>2, UserInvariance, RequestInvariance, PTL

\* RemovedCompletely: a removal that nobody disturbs leaves its users at no inbound of the
\* core, and their hashes nowhere.
THEOREM RemovesCompletely == Spec => []RemovedCompletely
<1>1. RequestInv => RemovedCompletely
  <2> SUFFICES ASSUME RequestInv, NEW r \in Requests, Undisturbed(r), Removes(r), Running,
                      NEW u \in job[r].in.users, NEW t \in Tags
               PROVE  ~Served(u, t) /\ <<u, job[r].in.version[u]>> \notin recorded[t]
    BY DEF RemovedCompletely
  <2>1. job[r].pc = "answer" /\ RemovedInv(r)
    BY DEF Undisturbed, At, RequestInv, Alone, Active, EffectInv
  <2>2. Removed(r, u, t)
    BY <2>1 DEF RemovedInv
  <2> QED
    BY <2>2 DEF Removed, Served, Credentials, RemovedVersion, Swaps, Removes
<1> QED
  BY <1>1, RequestInvariance, PTL

\* CapturedDoNotSurvive: an add that nobody disturbs leaves, at the addresses it captured
\* and dropped, no session of its user with older credentials.
THEOREM CapturedAreGone == Spec => []CapturedDoNotSurvive
<1>1. RequestInv => CapturedDoNotSurvive
  <2> SUFFICES ASSUME RequestInv, NEW r \in Requests, Undisturbed(r), job[r].in.kind = "add",
                      NEW s \in sessions, s.user \in job[r].in.users, s.ip \in job[r].captured
               PROVE  s.version = job[r].in.version[s.user]
    BY DEF CapturedDoNotSurvive
  <2>1. job[r].pc = "answer" /\ CapturedInv(r)
    BY DEF Undisturbed, At, RequestInv, Alone, Active, EffectInv
  <2> QED
    BY <2>1 DEF CapturedInv, Adding
<1> QED
  BY <1>1, RequestInvariance, PTL
=============================================================================
