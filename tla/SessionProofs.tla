---------------------------- MODULE SessionProofs ----------------------------
(***************************************************************************)
(* Proofs about Session, for any number of logins that may overlap, of     *)
(* uploads, buckets and sessions.                                          *)
(*                                                                         *)
(* A login goes through states in which the secrets are of two sessions.   *)
(* As long as nobody crosses it, it is the only one that writes, and what  *)
(* it has written so far is its own (WriterInv): when it switches the      *)
(* stage, the secrets are one context (StageInv).  An upload that starts   *)
(* then is in that context until a secret is written (JobInv), which is    *)
(* what makes its file readable.                                           *)
(***************************************************************************)
EXTENDS Session, SequenceTheorems, TLAPS

Unset == {NilKey, ZeroKey}

HasSession == {"clearSession", "setID", "setKey", "clearBucket", "setBucket", "switch"}

LoginStates == {"off", "press", "exchange", "finish", "refused", "empty"} \cup HasSession

\* A login under way has a bucket, and past its last request a session of it.
LoginInv ==
    \A l \in Login :
        /\ login[l] # "off" => target[l] \in Bucket
        /\ login[l] \in HasSession => granted[l] \in SessionId /\ bucketOf[granted[l]] = target[l]

\* What the login l, writing alone, has written.
Written(l) ==
    /\ login[l] \in {"setKey", "clearBucket", "setBucket", "switch"} => sessID = granted[l]
    /\ login[l] \in {"clearBucket", "setBucket", "switch"} => sessKey = granted[l]
    /\ login[l] = "switch" => bucPass = target[l]

WriterInv == ~crossed => \A l \in Writing : Writing = {l} /\ Written(l)

StageInv == Stage = "interaction" /\ Writing = {} /\ ~crossed => Context

FocusInv == focus = "interaction" => Stage = "interaction"

SealsInv ==
    \A j \in Job :
        /\ seals[j] \in Seq(Key)
        /\ job[j] \in {"off", "done"} => seals[j] = <<>>
        /\ job[j] = "seal" => Len(seals[j]) <= 2
        /\ Running(j) /\ job[j] # "seal" => Len(seals[j]) = 3

JobInv ==
    \A j \in Job : Running(j) /\ ~disturbed[j] =>
        /\ Context
        /\ \A i \in DOMAIN seals[j] : seals[j][i] = bucPass
        /\ job[j] \in {"initSent", "completeSent"} => sentID[j] = sessID
        /\ job[j] \in {"completeSign", "completeSend", "completeSent"} => upload[j] = bucPass

\* The types of everything but the seals.
FieldsOK ==
    /\ entered \in {"start", "login", "logout", "expired"}
    /\ focus \in {"entry", "interaction", "nobody"} /\ stranded \subseteq Login
    /\ sessID \in SessionId \cup Unset /\ sessKey \in SessionId \cup Unset /\ bucPass \in Key
    /\ login \in [Login -> LoginStates]
    /\ target \in [Login -> Bucket \cup {NilKey}]
    /\ granted \in [Login -> SessionId \cup {NilKey}]
    /\ job \in [Job -> {"off", "seal", "initSign", "initSend", "initSent",
                        "completeSign", "completeSend", "completeSent", "done"}]
    /\ hashKey \in [Job -> SessionId \cup Unset] /\ sentID \in [Job -> SessionId \cup Unset]
    /\ disturbed \in [Job -> BOOLEAN] /\ crossed \in BOOLEAN
    /\ bucketOf \in [SessionId -> Bucket \cup {NilKey}] /\ live \subseteq SessionId
    /\ upload \in [Job -> Bucket \cup {NilKey}]
    /\ (\A f \in stored : f.bucket \in Bucket) /\ crashed \in BOOLEAN

\* A session that is live has a bucket, and so has an upload past its first
\* request.
ServerInv ==
    /\ \A s \in live : bucketOf[s] \in Bucket
    /\ \A j \in Job : job[j] \in {"completeSign", "completeSend", "completeSent"} =>
        upload[j] \in Bucket

IInv ==
    /\ FieldsOK /\ seals \in [Job -> Seq(Key)]
    /\ LoginInv /\ WriterInv /\ StageInv /\ FocusInv /\ SealsInv /\ ServerInv /\ JobInv
    /\ LogoutWipes /\ UndisturbedIsReadable

-----------------------------------------------------------------------------
(* Facts. *)

LEMMA NilIsNone == NilKey \notin Bucket \cup SessionId /\ ZeroKey \notin Bucket \cup SessionId
    BY SessionAssumption

\* Clear leaves nothing, and what was nothing it leaves.
LEMMA ClearedUnset == \A k : Cleared(k) \in Unset
    BY DEF Cleared, Unset

\* The three seals are what TypeOK says of them.
LEMMA SealsType ==
    ASSUME NEW s \in Seq(Key), Len(s) <= 3
    PROVE  s \in UNION {[1 .. n -> Key] : n \in 0 .. 3}
<1>1. Len(s) \in Nat /\ s \in [1 .. Len(s) -> Key]
    BY LenProperties
<1> QED
    BY <1>1

LEMMA IInvType == IInv => TypeOK
<1> SUFFICES ASSUME IInv PROVE TypeOK
    OBVIOUS
<1>1. ASSUME NEW j \in Job PROVE Len(seals[j]) <= 3
  <2>1. SealsInv /\ seals[j] \in Seq(Key) /\ Len(seals[j]) \in Nat
      BY DEF IInv
  <2>2. CASE job[j] \in {"off", "done"}
      BY <2>1, <2>2 DEF SealsInv
  <2>3. CASE job[j] = "seal"
      BY <2>1, <2>3 DEF SealsInv
  <2>4. CASE job[j] \notin {"off", "done", "seal"}
    <3>1. Running(j)
        BY <2>4 DEF Running
    <3>2. Len(seals[j]) = 3
        BY <2>1, <2>4, <3>1 DEF SealsInv
    <3> QED
        BY <3>2
  <2> QED
      BY <2>2, <2>3, <2>4
<1>2. \A j \in Job : seals[j] \in UNION {[1 .. n -> Key] : n \in 0 .. 3}
    BY <1>1, SealsType DEF IInv
<1>3. seals \in [Job -> UNION {[1 .. n -> Key] : n \in 0 .. 3}]
  <2> DEFINE T == UNION {[1 .. n -> Key] : n \in 0 .. 3}
  <2>1. \A j \in Job : seals[j] \in T
      BY <1>2
  <2> HIDE DEF T
  <2>2. seals \in [Job -> T]
      BY <2>1 DEF IInv
  <2> QED
      BY <2>2 DEF T
<1> QED
    BY <1>3 DEF IInv, FieldsOK, LoginStates, HasSession, TypeOK, Unset

LEMMA InitIInv == Init => IInv
<1> SUFFICES ASSUME Init PROVE IInv
    OBVIOUS
<1>1. FieldsOK
    BY DEF Init, FieldsOK, LoginStates, Unset, Key
<1>2. seals \in [Job -> Seq(Key)] /\ SealsInv
  <2>1. <<>> \in Seq(Key)
      OBVIOUS
  <2> QED
      BY <2>1 DEF Init, SealsInv, Running
<1>3. LoginInv /\ ServerInv /\ JobInv /\ LogoutWipes /\ UndisturbedIsReadable
    BY DEF Init, LoginInv, ServerInv, JobInv, Running, LogoutWipes, UndisturbedIsReadable,
           HasSession, HoldsNoSecrets
<1>4. WriterInv /\ StageInv /\ FocusInv
    BY DEF Init, WriterInv, Writing, StageInv, FocusInv, Stage
<1> QED
    BY <1>1, <1>2, <1>3, <1>4 DEF IInv

-----------------------------------------------------------------------------
(* Who writes a secret: the logins, and Logout. *)

\* Every upload under way is disturbed, and is otherwise left alone.
LEMMA WriteJobs ==
    ASSUME IInv, Disturb, UNCHANGED <<jobVars, serverVars>>
    PROVE  /\ seals' \in [Job -> Seq(Key)] /\ SealsInv' /\ ServerInv' /\ JobInv'
           /\ UndisturbedIsReadable' /\ disturbed' \in [Job -> BOOLEAN]
<1> USE DEF IInv, jobVars, serverVars
<1>1. SealsInv' /\ ServerInv' /\ UndisturbedIsReadable'
    BY DEF SealsInv, Running, ServerInv, UndisturbedIsReadable
<1>2. \A j \in Job : Running(j)' => disturbed'[j]
    BY DEF Disturb, Running
<1>3. disturbed' \in [Job -> BOOLEAN]
    BY DEF Disturb, FieldsOK
<1> QED
    BY <1>1, <1>2, <1>3 DEF JobInv

\* A login that writes a secret.
LEMMA SecretLoginIInv ==
    ASSUME IInv, NEW l \in Login,
           \/ ClearSession(l) \/ SetSessionID(l) \/ SetSessionKey(l)
           \/ ClearBucket(l) \/ OpenBucket(l)
    PROVE  IInv'
<1> USE DEF IInv
<1>1. /\ UNCHANGED <<stageVars, target, granted, jobVars, serverVars, crashed>> /\ Disturb
      /\ login[l] \in HasSession \ {"switch"}
      /\ login'[l] \in HasSession \ {"clearSession"}
      /\ login' \in [Login -> LoginStates]
      /\ \A m \in Login \ {l} : login'[m] = login[m]
    BY DEF ClearSession, SetSessionID, SetSessionKey, ClearBucket, OpenBucket, LoginStep,
           HasSession, LoginStates, FieldsOK
<1>2. target[l] \in Bucket /\ granted[l] \in SessionId
    BY <1>1 DEF LoginInv, HasSession
<1>3. l \in Writing' /\ Writing' = Writing \cup {l} /\ crossed' \in BOOLEAN
  <2>1. l \in Writing' /\ Writing' = Writing \cup {l}
      BY <1>1 DEF Writing, HasSession
  <2>2. crossed' \in BOOLEAN
      BY DEF ClearSession, SetSessionID, SetSessionKey, ClearBucket, OpenBucket, Cross, FieldsOK
  <2> QED
      BY <2>1, <2>2
<1>4. ~crossed' => Writing' = {l} /\ (login[l] # "clearSession" => Writing = {l} /\ Written(l))
  <2>1. CASE ClearSession(l)
      BY <1>3, <2>1 DEF ClearSession, LoginStep
  <2>2. CASE ~ClearSession(l)
    <3>1. l \in Writing /\ crossed' = (crossed \/ Writing \ {l} # {})
        BY <2>2 DEF SetSessionID, SetSessionKey, ClearBucket, OpenBucket, LoginStep, Writing, Cross
    <3> QED
        BY <1>3, <3>1 DEF WriterInv, FieldsOK
  <2> QED
      BY <2>1, <2>2
<1>5. /\ sessID' \in SessionId \cup Unset /\ sessKey' \in SessionId \cup Unset /\ bucPass' \in Key
      /\ login'[l] = "setID" => /\ login[l] = "clearSession"
                                /\ {sessID', sessKey'} \subseteq Unset /\ bucPass' = bucPass
      /\ ~crossed' => Written(l)'
  <2>1. CASE ClearSession(l)
    <3>1. login[l] = "clearSession" /\ login'[l] = "setID"
        BY <2>1 DEF ClearSession, LoginStep, FieldsOK
    <3>2. sessID' \in Unset /\ sessKey' \in Unset /\ bucPass' = bucPass
        BY <2>1, ClearedUnset DEF ClearSession
    <3> QED
        BY <3>1, <3>2 DEF Written, FieldsOK
  <2>2. CASE SetSessionID(l)
    <3>1. login'[l] = "setKey"
        BY <2>2 DEF SetSessionID, LoginStep, FieldsOK
    <3>2. sessID' = granted[l] /\ sessKey' = sessKey /\ bucPass' = bucPass /\ granted' = granted
        BY <2>2 DEF SetSessionID
    <3> QED
        BY <1>2, <3>1, <3>2 DEF Written, FieldsOK
  <2>3. CASE SetSessionKey(l)
    <3>1. login[l] = "setKey" /\ login'[l] = "clearBucket"
        BY <2>3 DEF SetSessionKey, LoginStep, FieldsOK
    <3>2. sessID' = sessID /\ sessKey' = granted[l] /\ bucPass' = bucPass /\ granted' = granted
        BY <2>3 DEF SetSessionKey
    <3> QED
        BY <1>2, <1>4, <3>1, <3>2 DEF Written, FieldsOK
  <2>4. CASE ClearBucket(l)
    <3>1. login[l] = "clearBucket" /\ login'[l] = "setBucket"
        BY <2>4 DEF ClearBucket, LoginStep, FieldsOK
    <3>2. sessID' = sessID /\ sessKey' = sessKey /\ bucPass' \in Unset /\ granted' = granted
        BY <2>4, ClearedUnset DEF ClearBucket
    <3> QED
        BY <1>4, <3>1, <3>2 DEF Written, FieldsOK, Key, Unset
  <2>5. CASE OpenBucket(l)
    <3>1. login[l] = "setBucket" /\ login'[l] = "switch"
        BY <2>5 DEF OpenBucket, LoginStep, FieldsOK
    <3>2. /\ sessID' = sessID /\ sessKey' = sessKey /\ bucPass' = target[l]
          /\ granted' = granted /\ target' = target
        BY <2>5 DEF OpenBucket
    <3> QED
        BY <1>2, <1>4, <3>1, <3>2 DEF Written, FieldsOK, Key
  <2> QED
      BY <2>1, <2>2, <2>3, <2>4, <2>5
<1>6. FieldsOK'
    BY <1>1, <1>3, <1>5, WriteJobs DEF FieldsOK, stageVars, jobVars, serverVars
<1>7. LoginInv'
    BY <1>1, <1>2 DEF LoginInv, HasSession, serverVars
<1>8. WriterInv' /\ StageInv' /\ FocusInv'
    BY <1>1, <1>3, <1>4, <1>5 DEF WriterInv, StageInv, FocusInv, Stage, stageVars
<1>9. LogoutWipes'
  <2>1. CASE login'[l] = "setID" /\ entered = "logout"
         /\ \A m \in Login : login'[m] \notin {"setKey", "clearBucket", "setBucket", "switch"}
    <3>1. HoldsNoSecrets
        BY <1>1, <1>5, <2>1 DEF LogoutWipes
    <3> QED
        BY <1>5, <2>1, <3>1 DEF LogoutWipes, HoldsNoSecrets, Unset
  <2>2. CASE login'[l] # "setID" \/ entered # "logout"
         \/ ~\A m \in Login : login'[m] \notin {"setKey", "clearBucket", "setBucket", "switch"}
      BY <1>1, <2>2 DEF LogoutWipes, HasSession, stageVars
  <2> QED
      BY <2>1, <2>2
<1> QED
    BY <1>1, <1>6, <1>7, <1>8, <1>9, WriteJobs

LEMMA LogoutIInv == IInv /\ Logout => IInv'
<1> SUFFICES ASSUME IInv, Logout PROVE IInv'
    OBVIOUS
<1> USE DEF IInv
<1>1. /\ focus' = "entry" /\ entered' = "logout" /\ stranded' \subseteq Login
      /\ sessID' \in Unset /\ sessKey' \in Unset /\ bucPass' \in Unset
      /\ crossed' = (crossed \/ Writing # {})
      /\ UNCHANGED <<loginVars, jobVars, serverVars, crashed>> /\ Disturb
    BY ClearedUnset DEF Logout, DelSession, EnterEntry, Cross
<1>2. FieldsOK'
    BY <1>1, WriteJobs DEF FieldsOK, loginVars, jobVars, serverVars, Key, Unset
<1>3. LoginInv' /\ FocusInv' /\ StageInv'
    BY <1>1 DEF LoginInv, FocusInv, StageInv, Stage, loginVars, serverVars
<1>4. WriterInv'
  <2>1. Writing' = Writing
      BY <1>1 DEF Writing, loginVars
  <2> QED
      BY <1>1, <2>1 DEF WriterInv
<1>5. LogoutWipes'
    BY <1>1 DEF LogoutWipes, HoldsNoSecrets, Unset
<1> QED
    BY <1>1, <1>2, <1>3, <1>4, <1>5, WriteJobs

-----------------------------------------------------------------------------
(* A login between its writes. *)

\* What a login that writes no secret does to the uploads, and to who writes.
LEMMA BetweenWrites ==
    ASSUME IInv, NEW l \in Login,
           UNCHANGED <<coreVars, jobVars, historyVars, upload, stored>>, crashed' \in BOOLEAN,
           entered' \in {"start", "login", "logout", "expired"},
           focus' \in {"entry", "interaction", "nobody"}, stranded' \subseteq Login,
           login' \in [Login -> LoginStates],
           \A m \in Login \ {l} : login'[m] = login[m] /\ granted'[m] = granted[m],
           \A m \in Login \ {l} : login[m] \in HasSession => target'[m] = target[m],
           target' \in [Login -> Bucket \cup {NilKey}],
           granted' \in [Login -> SessionId \cup {NilKey}],
           bucketOf' \in [SessionId -> Bucket \cup {NilKey}], live' \subseteq SessionId,
           \A s \in SessionId : bucketOf[s] \in Bucket => bucketOf'[s] = bucketOf[s],
           \A s \in live' : bucketOf'[s] \in Bucket
    PROVE  /\ FieldsOK' /\ seals' \in [Job -> Seq(Key)] /\ SealsInv' /\ ServerInv' /\ JobInv'
           /\ UndisturbedIsReadable'
           /\ Context => Context'
           /\ Writing' \ {l} = Writing \ {l}
           /\ \A m \in Writing \ {l} : Written(m) => Written(m)'
<1> USE DEF IInv
<1>1. FieldsOK'
    BY DEF FieldsOK, coreVars, jobVars, historyVars
<1>2. SealsInv' /\ ServerInv' /\ UndisturbedIsReadable' /\ seals' \in [Job -> Seq(Key)]
    BY DEF SealsInv, Running, ServerInv, UndisturbedIsReadable, jobVars
<1>3. Context => Context'
    BY DEF Context, coreVars
<1>4. JobInv'
    BY <1>3 DEF JobInv, Running, jobVars, coreVars, historyVars
<1>5. Writing' \ {l} = Writing \ {l}
    BY DEF Writing
<1>6. \A m \in Writing \ {l} : Written(m) => Written(m)'
    BY DEF Writing, Written, HasSession, coreVars
<1> QED
    BY <1>1, <1>2, <1>3, <1>4, <1>5, <1>6

\* A login before its first write, or after its last request failed.
LEMMA LoginIInv ==
    ASSUME IInv, NEW l \in Login,
           \/ \E b \in Bucket : PressOpen(l, b)
           \/ TakeFocus(l) \/ Exchange(l) \/ LoginUnauthorised(l) \/ LoginFails(l)
           \/ LoginFinish(l) \/ LoginLost(l) \/ LoginPanics(l)
    PROVE  IInv'
<1> USE DEF IInv
<1>1. /\ UNCHANGED <<coreVars, jobVars, historyVars, upload, stored>>
      /\ crashed' \in BOOLEAN
      /\ \/ UNCHANGED entered \/ entered' = "expired"
      /\ focus' \in {"entry", "nobody"} \/ UNCHANGED <<entered, focus>>
      /\ stranded' \subseteq Login
    BY DEF PressOpen, TakeFocus, Exchange, LoginUnauthorised, LoginFails, LoginFinish, LoginLost,
           LoginPanics, SessionOpened, EnterEntry, LoginEnds, stageVars, loginVars, serverVars,
           FieldsOK
<1>2. /\ login[l] \notin HasSession /\ login'[l] \in LoginStates
      /\ login'[l] \in HasSession => login'[l] = "clearSession" /\ LoginFinish(l)
      /\ login' \in [Login -> LoginStates]
      /\ \A m \in Login \ {l} : login'[m] = login[m]
    BY DEF PressOpen, TakeFocus, Exchange, LoginUnauthorised, LoginFails, LoginFinish, LoginLost,
           LoginPanics, LoginStep, LoginEnds, loginVars, FieldsOK, LoginStates, HasSession
<1>3. /\ granted' \in [Login -> SessionId \cup {NilKey}]
      /\ target' \in [Login -> Bucket \cup {NilKey}]
      /\ \A m \in Login \ {l} : granted'[m] = granted[m]
      /\ \A m \in Login \ {l} : login[m] # "press" => target'[m] = target[m]
      /\ \A m \in Login : login'[m] # "off" => target'[m] \in Bucket
  <2>1. CASE \E b \in Bucket : PressOpen(l, b)
    <3>1. PICK b \in Bucket : PressOpen(l, b)
        BY <2>1
    <3>2. granted' = granted /\ \A m \in Login : login[m] # "off" => target[m] \in Bucket
        BY <3>1 DEF PressOpen, LoginInv
    <3>3. /\ target' \in [Login -> Bucket \cup {NilKey}]
          /\ target'[l] = b
          /\ \A m \in Login : target'[m] \in {target[m], b}
          /\ \A m \in Login \ {l} : login[m] # "press" => target'[m] = target[m]
        BY <3>1 DEF PressOpen, FieldsOK
    <3> QED
        BY <1>2, <3>2, <3>3 DEF FieldsOK
  <2>2. CASE LoginFails(l)
      BY <1>2, <2>2 DEF LoginFails, LoginEnds, LoginInv, FieldsOK
  <2>3. CASE LoginFinish(l)
      BY <1>2, <2>3 DEF LoginFinish, LoginStep, LoginInv, FieldsOK
  <2>4. CASE TakeFocus(l) \/ Exchange(l) \/ LoginUnauthorised(l) \/ LoginLost(l)
      BY <1>2, <2>4 DEF TakeFocus, Exchange, LoginUnauthorised, LoginLost, LoginStep, LoginInv,
                        FieldsOK
  <2>5. CASE LoginPanics(l)
      BY <2>5 DEF LoginPanics, loginVars, LoginInv, FieldsOK
  <2> QED
      BY <2>1, <2>2, <2>3, <2>4, <2>5
<1>4. /\ bucketOf' \in [SessionId -> Bucket \cup {NilKey}] /\ live' \subseteq SessionId
      /\ \A s \in SessionId : bucketOf[s] \in Bucket => bucketOf'[s] = bucketOf[s]
      /\ \A s \in live' : bucketOf'[s] \in Bucket
      /\ LoginFinish(l) => granted'[l] \in SessionId /\ bucketOf'[granted'[l]] = target'[l]
  <2>1. CASE LoginFinish(l) \/ LoginLost(l)
    <3>1. PICK s \in SessionId :
            /\ bucketOf[s] = NilKey /\ bucketOf' = [bucketOf EXCEPT ![s] = target[l]]
            /\ live' = live \cup {s}
            /\ LoginFinish(l) => granted' = [granted EXCEPT ![l] = s]
        BY <2>1 DEF LoginFinish, LoginLost, SessionOpened, LoginStep, FieldsOK
    <3>2. target[l] \in Bucket /\ target' = target
        BY <2>1 DEF LoginFinish, LoginLost, LoginStep, LoginInv
    <3> QED
        BY <3>1, <3>2, NilIsNone DEF FieldsOK, ServerInv
  <2>2. CASE UNCHANGED <<bucketOf, live>> /\ ~LoginFinish(l)
      BY <2>2 DEF FieldsOK, ServerInv
  <2> QED
      BY <2>1, <2>2 DEF PressOpen, TakeFocus, Exchange, LoginUnauthorised, LoginFails, LoginPanics,
                        serverVars
<1>5. /\ FieldsOK' /\ seals' \in [Job -> Seq(Key)] /\ SealsInv' /\ ServerInv' /\ JobInv'
      /\ UndisturbedIsReadable' /\ (Context => Context')
      /\ Writing' \ {l} = Writing \ {l}
      /\ \A m \in Writing \ {l} : Written(m) => Written(m)'
  <2>1. /\ entered' \in {"start", "login", "logout", "expired"}
        /\ focus' \in {"entry", "interaction", "nobody"}
      BY <1>1 DEF FieldsOK
  <2>2. \A m \in Login \ {l} : login[m] \in HasSession => target'[m] = target[m]
      BY <1>3 DEF HasSession
  <2> QED
      BY <1>1, <1>2, <1>3, <1>4, <2>1, <2>2, BetweenWrites
<1>6. Writing' = Writing /\ l \notin Writing
    BY <1>2 DEF Writing, HasSession
<1>7. LoginInv'
  <2> SUFFICES ASSUME NEW m \in Login, login'[m] \in HasSession
               PROVE  granted'[m] \in SessionId /\ bucketOf'[granted'[m]] = target'[m]
      BY <1>3 DEF LoginInv
  <2>1. CASE m = l
      BY <1>2, <1>4, <2>1
  <2>2. CASE m # l
    <3>1. /\ login[m] \in HasSession /\ granted'[m] = granted[m] /\ target'[m] = target[m]
          /\ target[m] \in Bucket /\ granted[m] \in SessionId /\ bucketOf[granted[m]] = target[m]
        BY <1>2, <1>3, <2>2 DEF LoginInv, HasSession
    <3> QED
        BY <1>4, <3>1
  <2> QED
      BY <2>1, <2>2
<1>8. WriterInv'
    BY <1>1, <1>5, <1>6 DEF WriterInv, historyVars
<1>9. StageInv' /\ FocusInv'
    BY <1>1, <1>5, <1>6 DEF StageInv, FocusInv, Stage, historyVars
<1>10. LogoutWipes'
    BY <1>1, <1>2 DEF LogoutWipes, HoldsNoSecrets, HasSession, coreVars
<1> QED
    BY <1>5, <1>7, <1>8, <1>9, <1>10

\* A login that shows the files page.
LEMMA EnterIInv == \A l \in Login : IInv /\ EnterInteraction(l) => IInv'
<1> SUFFICES ASSUME NEW l \in Login, IInv, EnterInteraction(l) PROVE IInv'
    OBVIOUS
<1> USE DEF IInv
<1>1. /\ login[l] = "switch" /\ login' = [login EXCEPT ![l] = "off"]
      /\ target' = [target EXCEPT ![l] = NilKey] /\ granted' = [granted EXCEPT ![l] = NilKey]
      /\ stranded' = stranded \ {l} /\ focus' = "interaction" /\ entered' = "login"
      /\ UNCHANGED <<coreVars, jobVars, historyVars, serverVars, crashed>>
    BY DEF EnterInteraction, LoginEnds
<1>2. /\ FieldsOK' /\ seals' \in [Job -> Seq(Key)] /\ SealsInv' /\ ServerInv' /\ JobInv'
      /\ UndisturbedIsReadable' /\ (Context => Context')
      /\ Writing' \ {l} = Writing \ {l}
      /\ \A m \in Writing \ {l} : Written(m) => Written(m)'
  <2>1. /\ login' \in [Login -> LoginStates] /\ target' \in [Login -> Bucket \cup {NilKey}]
        /\ granted' \in [Login -> SessionId \cup {NilKey}]
        /\ \A m \in Login \ {l} : /\ login'[m] = login[m] /\ granted'[m] = granted[m]
                                  /\ target'[m] = target[m]
      BY <1>1 DEF FieldsOK, LoginStates
  <2>2. /\ stranded' \subseteq Login /\ crashed' \in BOOLEAN /\ live' \subseteq SessionId
        /\ bucketOf' \in [SessionId -> Bucket \cup {NilKey}] /\ bucketOf' = bucketOf
        /\ \A s \in live' : bucketOf'[s] \in Bucket
      BY <1>1 DEF FieldsOK, ServerInv, serverVars
  <2> QED
      BY <1>1, <2>1, <2>2, BetweenWrites DEF serverVars
<1>3. l \in Writing /\ l \notin Writing' /\ \A m \in Writing' : m \in Writing \ {l}
    BY <1>1 DEF Writing, FieldsOK
<1>4. LoginInv' /\ LogoutWipes' /\ FocusInv'
    BY <1>1 DEF LoginInv, LogoutWipes, FocusInv, Stage, HasSession, FieldsOK, serverVars
<1>5. WriterInv'
    BY <1>1, <1>3 DEF WriterInv, historyVars
<1>6. StageInv'
  <2> SUFFICES ASSUME ~crossed PROVE Context
      BY <1>1, <1>2 DEF StageInv, historyVars
  <2>1. Written(l)
      BY <1>3 DEF WriterInv
  <2>2. target[l] \in Bucket /\ granted[l] \in SessionId /\ bucketOf[granted[l]] = target[l]
      BY <1>1 DEF LoginInv, HasSession
  <2> QED
      BY <1>1, <2>1, <2>2 DEF Written, Context
<1> QED
    BY <1>2, <1>4, <1>5, <1>6

-----------------------------------------------------------------------------
(* Uploads, and the server. *)

\* An upload, or the server's forgetting, writes no secret and is no login; it
\* may show the entry stage.
LEMMA ContextStays ==
    ASSUME IInv, UNCHANGED <<coreVars, loginVars, crossed, bucketOf>>,
           UNCHANGED stageVars \/ EnterEntry("expired")
    PROVE  /\ LoginInv' /\ WriterInv' /\ StageInv' /\ FocusInv' /\ LogoutWipes'
           /\ Context' = Context
           /\ entered' \in {"start", "login", "logout", "expired"}
           /\ focus' \in {"entry", "interaction", "nobody"} /\ stranded' \subseteq Login
<1> USE DEF IInv
<1>1. Context' = Context
    BY DEF Context, coreVars
<1>2. LoginInv'
    BY DEF LoginInv, loginVars
<1>3. Writing' = Writing /\ \A l \in Login : Written(l)' = Written(l)
    BY DEF Writing, Written, coreVars, loginVars
<1>4. WriterInv'
    BY <1>3 DEF WriterInv, Writing
<1>5. StageInv' /\ FocusInv' /\ LogoutWipes'
    BY <1>1, <1>3 DEF StageInv, FocusInv, Stage, LogoutWipes, HoldsNoSecrets, coreVars, loginVars,
                      stageVars, EnterEntry
<1>6. /\ entered' \in {"start", "login", "logout", "expired"}
      /\ focus' \in {"entry", "interaction", "nobody"} /\ stranded' \subseteq Login
    BY DEF FieldsOK, stageVars, EnterEntry
<1> QED
    BY <1>1, <1>2, <1>4, <1>5, <1>6

\* An upload that ends takes its locals with it.
LEMMA EndsIInv ==
    ASSUME IInv, NEW j \in Job, Ends(j),
           UNCHANGED <<coreVars, loginVars, crossed, bucketOf, live, upload, crashed>>,
           UNCHANGED stageVars \/ EnterEntry("expired"),
           UndisturbedIsReadable', \A f \in stored' : f.bucket \in Bucket
    PROVE  IInv'
<1> USE DEF IInv
<1>1. FieldsOK'
    BY ContextStays DEF FieldsOK, Ends, RequestEnds, coreVars, loginVars, Unset
<1>2. seals' \in [Job -> Seq(Key)] /\ SealsInv'
  <2>1. <<>> \in Seq(Key)
      OBVIOUS
  <2> QED
      BY <2>1 DEF Ends, SealsInv, Running, FieldsOK
<1>3. ServerInv'
    BY DEF ServerInv, Ends, FieldsOK
<1>4. JobInv'
    BY ContextStays DEF JobInv, Ends, RequestEnds, Running, FieldsOK, coreVars
<1> QED
    BY <1>1, <1>2, <1>3, <1>4, ContextStays

LEMMA StartUploadIInv ==
    ASSUME IInv, NEW j \in Job, StartUpload(j)
    PROVE  IInv'
<1> USE DEF IInv
<1>1. /\ focus = "interaction" /\ job[j] = "off" /\ job' = [job EXCEPT ![j] = "seal"]
      /\ disturbed' = [disturbed EXCEPT ![j] = crossed \/ Writing # {}]
      /\ UNCHANGED <<stageVars, coreVars, loginVars, seals, hashKey, sentID, crossed, serverVars,
                     crashed>>
    BY DEF StartUpload, JobStep
<1>2. (~disturbed'[j] => Context) /\ seals[j] = <<>>
    BY <1>1 DEF FocusInv, StageInv, SealsInv, FieldsOK
<1>3. FieldsOK'
    BY <1>1 DEF FieldsOK, stageVars, coreVars, loginVars, serverVars
<1>4. SealsInv' /\ seals' \in [Job -> Seq(Key)]
    BY <1>1, <1>2 DEF SealsInv, Running, FieldsOK
<1>5. ServerInv' /\ UndisturbedIsReadable'
    BY <1>1 DEF ServerInv, UndisturbedIsReadable, FieldsOK, serverVars
<1>6. LoginInv' /\ WriterInv' /\ StageInv' /\ FocusInv' /\ LogoutWipes' /\ Context' = Context
    BY <1>1, ContextStays DEF serverVars, historyVars
<1>7. JobInv'
    BY <1>1, <1>2, <1>6 DEF JobInv, Running, FieldsOK, coreVars, serverVars
<1> QED
    BY <1>1, <1>3, <1>4, <1>5, <1>6, <1>7

LEMMA SealIInv ==
    ASSUME IInv, NEW j \in Job, Seal(j)
    PROVE  IInv'
<1> USE DEF IInv
<1> DEFINE to == IF Len(seals[j]) < 2 THEN "seal" ELSE "initSign"
           s  == seals[j]
<1>1. /\ job[j] = "seal" /\ job' = [job EXCEPT ![j] = to]
      /\ seals' = [seals EXCEPT ![j] = Append(s, bucPass)]
      /\ UNCHANGED <<stageVars, coreVars, loginVars, hashKey, sentID, historyVars, serverVars,
                     crashed>>
    BY DEF Seal, JobStep
<1>2. /\ s \in Seq(Key) /\ Len(s) \in 0 .. 2 /\ bucPass \in Key
      /\ Append(s, bucPass) \in Seq(Key) /\ Len(Append(s, bucPass)) = Len(s) + 1
  <2>1. s \in Seq(Key) /\ Len(s) <= 2 /\ bucPass \in Key
      BY <1>1 DEF SealsInv, FieldsOK
  <2> HIDE DEF s
  <2>2. Len(s) \in Nat
      BY <2>1, LenProperties
  <2>3. Append(s, bucPass) \in Seq(Key) /\ Len(Append(s, bucPass)) = Len(s) + 1
      BY <2>1, AppendProperties
  <2> DEFINE len == Len(s)
  <2>4. len \in Nat /\ len <= 2
      BY <2>1, <2>2
  <2> HIDE DEF len
  <2>5. len \in 0 .. 2
      BY <2>4
  <2> QED
      BY <2>1, <2>3, <2>5 DEF len
<1>3. FieldsOK'
    BY <1>1 DEF FieldsOK, stageVars, coreVars, loginVars, historyVars, serverVars
<1>4. seals' \in [Job -> Seq(Key)] /\ seals'[j] = Append(s, bucPass) /\ job'[j] = to
    BY <1>1, <1>2 DEF FieldsOK
<1>5. \A i \in Job \ {j} : seals'[i] = seals[i] /\ job'[i] = job[i]
    BY <1>1 DEF FieldsOK
<1>6. SealsInv'
  <2> SUFFICES ASSUME NEW i \in Job
               PROVE  /\ seals'[i] \in Seq(Key)
                      /\ job'[i] \in {"off", "done"} => seals'[i] = <<>>
                      /\ job'[i] = "seal" => Len(seals'[i]) <= 2
                      /\ Running(i)' /\ job'[i] # "seal" => Len(seals'[i]) = 3
      BY DEF SealsInv
  <2>1. CASE i = j
    <3>1. seals'[i] \in Seq(Key) /\ Len(seals'[i]) = Len(s) + 1
        BY <1>2, <1>4, <2>1
    <3> DEFINE len == Len(s)
    <3>2. /\ len \in 0 .. 2 /\ Len(seals'[i]) = len + 1
          /\ job'[i] = IF len < 2 THEN "seal" ELSE "initSign"
        BY <1>2, <1>4, <2>1, <3>1
    <3> HIDE DEF len
    <3> QED
        BY <3>1, <3>2
  <2>2. CASE i # j
      BY <1>5, <2>2 DEF SealsInv, Running
  <2> QED
      BY <2>1, <2>2
<1>7. ServerInv' /\ UndisturbedIsReadable'
    BY <1>1 DEF ServerInv, UndisturbedIsReadable, FieldsOK, serverVars
<1>8. LoginInv' /\ WriterInv' /\ StageInv' /\ FocusInv' /\ LogoutWipes' /\ Context' = Context
    BY <1>1, ContextStays DEF serverVars, historyVars
<1>9. JobInv'
  <2> SUFFICES ASSUME NEW i \in Job, Running(i)', ~disturbed[i]
               PROVE  /\ Context
                      /\ \A n \in DOMAIN seals'[i] : seals'[i][n] = bucPass
                      /\ job'[i] \in {"initSent", "completeSent"} => sentID[i] = sessID
                      /\ job'[i] \in {"completeSign", "completeSend", "completeSent"} =>
                            upload[i] = bucPass
      BY <1>1, <1>8 DEF JobInv, coreVars, historyVars, serverVars
  <2>1. CASE i = j
    <3>1. Context /\ \A n \in DOMAIN s : s[n] = bucPass
        BY <1>1, <2>1 DEF JobInv, Running
    <3>2. \A n \in DOMAIN Append(s, bucPass) : Append(s, bucPass)[n] = bucPass
        BY <1>2, <3>1
    <3> QED
        BY <1>4, <2>1, <3>1, <3>2
  <2>2. CASE i # j
      BY <1>5, <2>2 DEF JobInv, Running
  <2> QED
      BY <2>1, <2>2
<1> QED
    BY <1>1, <1>3, <1>4, <1>6, <1>7, <1>8, <1>9

\* A request: signed, sent, and the first one accepted.
LEMMA RequestIInv ==
    ASSUME IInv, NEW j \in Job,
           \/ Sign(j, "initSign", "initSend") \/ Send(j, "initSend", "initSent")
           \/ Sign(j, "completeSign", "completeSend") \/ Send(j, "completeSend", "completeSent")
           \/ InitAccepted(j)
    PROVE  IInv'
<1> USE DEF IInv
<1>1. /\ UNCHANGED <<stageVars, coreVars, loginVars, seals, historyVars, bucketOf, live, stored,
                     crashed>>
      /\ Running(j) /\ job[j] # "seal"
      /\ \A i \in Job \ {j} : job'[i] = job[i] /\ sentID'[i] = sentID[i] /\ upload'[i] = upload[i]
      /\ job' \in [Job -> {"off", "seal", "initSign", "initSend", "initSent", "completeSign",
                           "completeSend", "completeSent", "done"}]
      /\ job'[j] \in {"initSend", "initSent", "completeSign", "completeSend", "completeSent"}
    BY DEF Sign, Send, InitAccepted, RequestEnds, JobStep, serverVars, FieldsOK, Running
<1>2. /\ hashKey' \in [Job -> SessionId \cup Unset] /\ sentID' \in [Job -> SessionId \cup Unset]
    BY DEF Sign, Send, InitAccepted, RequestEnds, FieldsOK, Unset
<1>3. CASE InitAccepted(j)
  <2>1. /\ sentID[j] \in live /\ bucketOf[sentID[j]] \in Bucket /\ sentID[j] \in SessionId
        /\ upload' = [upload EXCEPT ![j] = bucketOf[sentID[j]]]
        /\ job[j] = "initSent" /\ job'[j] = "completeSign"
      BY <1>3 DEF InitAccepted, Authorised, ServerInv, FieldsOK, JobStep
  <2>2. upload'[j] \in Bucket /\ upload' \in [Job -> Bucket \cup {NilKey}]
      BY <2>1 DEF FieldsOK
  <2>3. ~disturbed[j] => Context /\ sentID[j] = sessID
      BY <1>1, <2>1 DEF JobInv
  <2>4. ~disturbed[j] => upload'[j] = bucPass
      BY <2>1, <2>3 DEF Context, FieldsOK
  <2> QED
    <3>1. FieldsOK' /\ SealsInv' /\ ServerInv' /\ UndisturbedIsReadable'
        BY <1>1, <1>2, <2>1, <2>2 DEF FieldsOK, SealsInv, Running, ServerInv, UndisturbedIsReadable,
            stageVars, coreVars, loginVars, historyVars
    <3>2. LoginInv' /\ WriterInv' /\ StageInv' /\ FocusInv' /\ LogoutWipes' /\ Context' = Context
        BY <1>1, ContextStays DEF historyVars
    <3>3. JobInv'
        BY <1>1, <2>1, <2>3, <2>4, <3>2 DEF JobInv, Running, coreVars, historyVars
    <3> QED
        BY <1>1, <3>1, <3>2, <3>3
<1>4. CASE ~InitAccepted(j)
  <2>1. /\ upload' = upload
        /\ job'[j] \in {"initSend", "initSent", "completeSend", "completeSent"}
        /\ job'[j] \in {"initSent", "completeSent"} => sentID'[j] = sessID
        /\ job'[j] \in {"completeSend", "completeSent"} =>
              job[j] \in {"completeSign", "completeSend"}
      BY <1>4 DEF Sign, Send, JobStep, serverVars, FieldsOK
  <2>2. FieldsOK' /\ SealsInv' /\ ServerInv' /\ UndisturbedIsReadable'
      BY <1>1, <1>2, <2>1 DEF FieldsOK, SealsInv, Running, ServerInv, UndisturbedIsReadable,
          stageVars, coreVars, loginVars, historyVars
  <2>3. LoginInv' /\ WriterInv' /\ StageInv' /\ FocusInv' /\ LogoutWipes' /\ Context' = Context
      BY <1>1, ContextStays DEF historyVars
  <2>4. JobInv'
      BY <1>1, <2>1, <2>3 DEF JobInv, Running, coreVars, historyVars
  <2> QED
      BY <1>1, <2>2, <2>3, <2>4
<1> QED
    BY <1>3, <1>4

LEMMA CompleteIInv ==
    ASSUME IInv, NEW j \in Job, CompleteAccepted(j)
    PROVE  IInv'
<1> USE DEF IInv
<1> DEFINE new == [bucket |-> upload[j], seals |-> seals[j], disturbed |-> disturbed[j]]
<1>1. /\ Ends(j) /\ job[j] = "completeSent" /\ stored' = stored \cup {new}
      /\ UNCHANGED <<stageVars, coreVars, loginVars, crossed, bucketOf, live, upload, crashed>>
    BY DEF CompleteAccepted
<1>2. upload[j] \in Bucket
    BY <1>1 DEF ServerInv
<1>3. ASSUME ~disturbed[j] PROVE seals[j] = <<upload[j], upload[j], upload[j]>>
  <2>1. /\ seals[j] \in Seq(Key) /\ Len(seals[j]) = 3 /\ upload[j] = bucPass
        /\ \A i \in DOMAIN seals[j] : seals[j][i] = bucPass
      BY <1>1, <1>3 DEF SealsInv, JobInv, Running
  <2> QED
      BY <2>1
<1>4. UndisturbedIsReadable' /\ \A f \in stored' : f.bucket \in Bucket
    BY <1>1, <1>2, <1>3 DEF UndisturbedIsReadable, FieldsOK
<1> QED
    BY <1>1, <1>4, EndsIInv

LEMMA EndIInv ==
    ASSUME IInv, NEW j \in Job, Unauthorised(j) \/ GiveUp(j)
    PROVE  IInv'
<1>1. /\ Ends(j) /\ UNCHANGED <<coreVars, loginVars, crossed, serverVars, crashed>>
      /\ UNCHANGED stageVars \/ EnterEntry("expired")
    BY DEF Unauthorised, GiveUp
<1>2. UndisturbedIsReadable' /\ \A f \in stored' : f.bucket \in Bucket
    BY <1>1 DEF IInv, FieldsOK, UndisturbedIsReadable, serverVars
<1> QED
    BY <1>1, <1>2, EndsIInv DEF serverVars

LEMMA ExpireIInv ==
    ASSUME IInv, (\E s \in live : SessionExpires(s)) \/ UNCHANGED vars
    PROVE  IInv'
<1> USE DEF IInv
<1>1. /\ UNCHANGED <<stageVars, coreVars, loginVars, jobVars, historyVars, bucketOf, upload, stored,
                     crashed>>
      /\ live' \subseteq live
    BY DEF SessionExpires, vars, serverVars
<1>2. FieldsOK' /\ SealsInv' /\ ServerInv' /\ UndisturbedIsReadable'
    BY <1>1 DEF FieldsOK, SealsInv, Running, ServerInv, UndisturbedIsReadable, stageVars, coreVars,
        loginVars, jobVars, historyVars
<1>3. LoginInv' /\ WriterInv' /\ StageInv' /\ FocusInv' /\ LogoutWipes' /\ Context' = Context
    BY <1>1, ContextStays DEF historyVars
<1>4. JobInv'
    BY <1>1, <1>3 DEF JobInv, Running, jobVars, coreVars, historyVars
<1> QED
    BY <1>1, <1>2, <1>3, <1>4 DEF jobVars

-----------------------------------------------------------------------------
(* The theorems. *)

LEMMA NextIInv == IInv /\ [Next]_vars => IInv'
<1> SUFFICES ASSUME IInv, [Next]_vars PROVE IInv'
    OBVIOUS
<1>1. ASSUME NEW l \in Login, LoginNext(l) PROVE IInv'
    BY <1>1, SecretLoginIInv, LoginIInv, EnterIInv DEF LoginNext
<1>2. ASSUME NEW j \in Job, JobNext(j) PROVE IInv'
    BY <1>2, StartUploadIInv, SealIInv, RequestIInv, CompleteIInv, EndIInv DEF JobNext
<1>3. CASE Logout
    BY <1>3, LogoutIInv
<1>4. CASE (\E s \in live : SessionExpires(s)) \/ UNCHANGED vars
    BY <1>4, ExpireIInv
<1> QED
    BY <1>1, <1>2, <1>3, <1>4 DEF Next, Stopped

\* The inductive invariant holds throughout.
THEOREM Inductive == Spec => []IInv
<1>1. IInv /\ [Next]_vars => IInv'
    BY NextIInv
<1> QED
    BY InitIInv, <1>1, PTL DEF Spec

\* Every state is well formed: no step leaves a field with something that is no
\* secret of its kind, and an upload seals three values (encryptFile).
THEOREM SessionTypeCorrect == Spec => []TypeOK
<1>1. Spec => []IInv
    BY Inductive
<1> QED
    BY <1>1, IInvType, PTL

\* While the files page is shown and no login writes, the id, the signing key
\* and the bucket key are of one session, unless the login that wrote last was
\* crossed by another or by a logout (SetSession, OpenBucket, DelSession,
\* Expired): logins that overlap without crossing leave one context.
THEOREM ContextIsOne == Spec => []OneContext
<1>1. Spec => []IInv
    BY Inductive
<1>2. IInv => OneContext
    BY DEF IInv, StageInv, OneContext
<1> QED
    BY <1>1, <1>2, PTL

\* A file whose upload no login and no logout met, and that was not started on
\* crossed secrets, is sealed under its bucket's key in all its parts
\* (encryptFile, prepareReq).
THEOREM UndisturbedReadable == Spec => []UndisturbedIsReadable
<1>1. Spec => []IInv
    BY Inductive
<1>2. IInv => UndisturbedIsReadable
    BY DEF IInv
<1> QED
    BY <1>1, <1>2, PTL

\* No secret outlives a logout, however many logins it meets (DelSession, Clear).
THEOREM LogoutWipesAll == Spec => []LogoutWipes
<1>1. Spec => []IInv
    BY Inductive
<1>2. IInv => LogoutWipes
    BY DEF IInv
<1> QED
    BY <1>1, <1>2, PTL
=============================================================================
