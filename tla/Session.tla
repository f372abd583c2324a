------------------------------ MODULE Session ------------------------------
(***************************************************************************)
(* The secrets that core.Core holds for the whole program - the session id *)
(* and key that sign requests and the bucket key that seals files - and    *)
(* everyone who writes or reads them without a lock: login goroutines      *)
(* (entry's OpenBucket), Logout in the event loop, and uploads, which go   *)
(* on in the background when the user leaves, read the secrets of the      *)
(* moment at every step, and throw the user out (core.Expired) on a 401.   *)
(*                                                                         *)
(* Logins overlap: the open page keeps the keys until a login has taken    *)
(* the focus away, and a 401 or another login that fails gives it back.    *)
(*                                                                         *)
(* A session's key is named by its id, a bucket's key by its bucket.  The  *)
(* server is external.  The bytes of the upload are Upload's subject: here *)
(* an upload is the three values it seals and its first and last request.  *)
(***************************************************************************)
EXTENDS Integers, Sequences

CONSTANTS Bucket,           \* buckets on the server
          SessionId,        \* session ids the server may hand out (a bound)
          Login, Job,       \* login goroutines, upload goroutines
          NilKey,           \* a field of core never assigned
          ZeroKey           \* a field of core overwritten with zeros

ASSUME SessionAssumption ==
    /\ NilKey # ZeroKey
    /\ {NilKey, ZeroKey} \cap (Bucket \cup SessionId) = {}

VARIABLES
    entered, focus,             \* router: how the stage shown was entered; who gets the keys
    stranded,                   \* the logins whose entry stage another has replaced
    sessID, sessKey, bucPass,   \* core.Core
    login, target, granted,     \* per login: step, bucket, the session it was given
    job, seals, hashKey, sentID,\* per upload: step, keys it sealed with, its signature
    disturbed,                  \* history: per upload, the secrets were not its bucket's all along
    crossed,                    \* history: who wrote the secrets last was not alone with them
    bucketOf, live,             \* server: each session's bucket, the sessions alive
    upload,                     \* server: the bucket an upload was initiated in
    stored,                     \* server: the files stored
    crashed

stageVars  == <<entered, focus, stranded>>
coreVars   == <<sessID, sessKey, bucPass>>
loginVars  == <<login, target, granted>>
historyVars == <<disturbed, crossed>>
jobVars    == <<job, seals, hashKey, sentID>>
serverVars == <<bucketOf, live, upload, stored>>
vars == <<stageVars, coreVars, loginVars, jobVars, historyVars, serverVars, crashed>>

Init ==
    /\ entered = "start" /\ focus = "entry" /\ stranded = {}
    /\ sessID = NilKey /\ sessKey = NilKey /\ bucPass = NilKey
    /\ login = [l \in Login |-> "off"]
    /\ target = [l \in Login |-> NilKey] /\ granted = [l \in Login |-> NilKey]
    /\ job = [j \in Job |-> "off"]
    /\ seals = [j \in Job |-> <<>>]
    /\ hashKey = [j \in Job |-> NilKey] /\ sentID = [j \in Job |-> NilKey]
    /\ disturbed = [j \in Job |-> FALSE] /\ crossed = FALSE
    /\ bucketOf = [s \in SessionId |-> NilKey] /\ live = {}
    /\ upload = [j \in Job |-> NilKey]
    /\ stored = {}
    /\ crashed = FALSE

Running(j) == job[j] \notin {"off", "done"}

\* The logins between their first write of a secret and the switch of the stage.
Writing == {l \in Login : login[l] \in {"setID", "setKey", "clearBucket", "setBucket", "switch"}}

\* History: whoever writes a secret disturbs the uploads under way, and crosses
\* the logins that are writing.
Disturb == disturbed' = [j \in Job |-> disturbed[j] \/ Running(j)]
Cross(others) == crossed' = (crossed \/ others # {})

\* The stage that is shown gets the keys.  The entry stage is made anew, and
\* the logins under way belong to the old one.
Stage == IF entered = "login" THEN "interaction" ELSE "entry"
EnterEntry(how) ==
    /\ focus' = "entry" /\ entered' = how
    /\ stranded' = {l \in Login : login[l] # "off"}

-----------------------------------------------------------------------------
(* Logging in: entry's OpenBucket, in goroutines of their own. *)

LoginStep(l, from, to) == login[l] = from /\ login' = [login EXCEPT ![l] = to]

\* The goroutine returns, its locals are gone.
LoginEnds(l) ==
    /\ login' = [login EXCEPT ![l] = "off"]
    /\ target' = [target EXCEPT ![l] = NilKey]
    /\ granted' = [granted EXCEPT ![l] = NilKey]
    /\ stranded' = stranded \ {l}

\* The Open button, its shortcut, and Enter Bucket on the Create page.  The keys
\* go to the page until the goroutine has its turn: they may change the form for
\* every login that has still to read it, and press again.
PressOpen(l, b) ==
    /\ focus = "entry"
    /\ LoginStep(l, "off", "press")
    /\ LET reads(m) == m = l \/ (login[m] = "press" /\ m \notin stranded)
       IN  target' = [m \in Login |-> IF reads(m) THEN b ELSE target[m]]
    /\ UNCHANGED <<stageVars, coreVars, granted, jobVars, historyVars, serverVars, crashed>>

\* The event loop takes the focus away, and the form is read.
TakeFocus(l) ==
    /\ LoginStep(l, "press", "exchange")
    /\ focus' = "nobody"
    /\ UNCHANGED <<entered, stranded, coreVars, target, granted, jobVars, historyVars, serverVars,
                   crashed>>

\* The configs and the first OPAQUE message.
Exchange(l) ==
    /\ LoginStep(l, "exchange", "finish")
    /\ UNCHANGED <<stageVars, coreVars, target, granted, jobVars, historyVars, serverVars,
                   crashed>>

\* A 401 to a request of the login shows a new entry stage.
LoginUnauthorised(l) ==
    /\ LoginStep(l, "exchange", "refused") \/ LoginStep(l, "finish", "empty")
    /\ EnterEntry("expired")
    /\ UNCHANGED <<coreVars, target, granted, jobVars, historyVars, serverVars, crashed>>

\* A login that fails shows the menu of its own entry stage and gives it the
\* keys, whatever stage is shown by now; if another entry stage has taken its
\* place, nobody gets them.
LoginFails(l) ==
    /\ login[l] \in {"exchange", "finish", "refused", "empty"}
    /\ LoginEnds(l)
    /\ focus' = IF l \in stranded THEN "nobody" ELSE "entry"
    /\ UNCHANGED <<entered, coreVars, jobVars, historyVars, serverVars, crashed>>

\* External: the server opens a session.
SessionOpened(l, s) ==
    /\ bucketOf[s] = NilKey
    /\ bucketOf' = [bucketOf EXCEPT ![s] = target[l]]
    /\ live' = live \cup {s}
    /\ UNCHANGED <<upload, stored>>

LoginFinish(l) ==
    /\ LoginStep(l, "finish", "clearSession")
    /\ \E s \in SessionId : SessionOpened(l, s) /\ granted' = [granted EXCEPT ![l] = s]
    /\ UNCHANGED <<stageVars, coreVars, target, jobVars, historyVars, crashed>>

\* The answer is lost.
LoginLost(l) ==
    /\ LoginStep(l, "finish", "refused")
    /\ \E s \in SessionId : SessionOpened(l, s)
    /\ UNCHANGED <<stageVars, coreVars, target, granted, jobVars, historyVars, crashed>>

\* An answer that is not a 200: its status is not looked at, and
\* core.OpenBucket of the empty answer panics.
LoginPanics(l) ==
    /\ login[l] \in {"finish", "empty"}
    /\ crashed' = TRUE
    /\ UNCHANGED <<stageVars, coreVars, loginVars, jobVars, historyVars, serverVars>>

\* Clear writes zeros into the slice: a field never assigned stays nil, the
\* others keep their length.
Cleared(key) == IF key = NilKey THEN NilKey ELSE ZeroKey

\* core.SetSession zeroes the old id and key, and then sets the new ones.  A
\* login that begins to write alone leaves nothing of those before it.
ClearSession(l) ==
    /\ LoginStep(l, "clearSession", "setID")
    /\ sessID' = Cleared(sessID) /\ sessKey' = Cleared(sessKey)
    /\ Disturb /\ crossed' = (Writing # {})
    /\ UNCHANGED <<stageVars, bucPass, target, granted, jobVars, serverVars, crashed>>

SetSessionID(l) ==
    /\ LoginStep(l, "setID", "setKey")
    /\ sessID' = granted[l]
    /\ Disturb /\ Cross(Writing \ {l})
    /\ UNCHANGED <<stageVars, sessKey, bucPass, target, granted, jobVars, serverVars, crashed>>

SetSessionKey(l) ==
    /\ LoginStep(l, "setKey", "clearBucket")
    /\ sessKey' = granted[l]
    /\ Disturb /\ Cross(Writing \ {l})
    /\ UNCHANGED <<stageVars, sessID, bucPass, target, granted, jobVars, serverVars, crashed>>

\* core.OpenBucket unwraps the bucket's key; setBucket zeroes the old one, and
\* then keeps the new.
ClearBucket(l) ==
    /\ LoginStep(l, "clearBucket", "setBucket")
    /\ bucPass' = Cleared(bucPass)
    /\ Disturb /\ Cross(Writing \ {l})
    /\ UNCHANGED <<stageVars, sessID, sessKey, target, granted, jobVars, serverVars, crashed>>

\* Mutant of OpenBucket: a key that is there already is kept.
OpenBucketOnce(l) ==
    /\ LoginStep(l, "setBucket", "switch")
    /\ bucPass' = IF bucPass = NilKey THEN target[l] ELSE bucPass
    /\ Disturb /\ Cross(Writing \ {l})
    /\ UNCHANGED <<stageVars, sessID, sessKey, target, granted, jobVars, serverVars, crashed>>

OpenBucket(l) ==
    /\ LoginStep(l, "setBucket", "switch")
    /\ bucPass' = target[l]
    /\ Disturb /\ Cross(Writing \ {l})
    /\ UNCHANGED <<stageVars, sessID, sessKey, target, granted, jobVars, serverVars, crashed>>

EnterInteraction(l) ==
    /\ login[l] = "switch"
    /\ LoginEnds(l)
    /\ focus' = "interaction" /\ entered' = "login"
    /\ UNCHANGED <<coreVars, jobVars, historyVars, serverVars, crashed>>

-----------------------------------------------------------------------------
(* Logging out. *)

\* Mutant of DelSession: the bucket's key is forgotten.
DelSessionOnly ==
    sessID' = Cleared(sessID) /\ sessKey' = Cleared(sessKey) /\ UNCHANGED bucPass

DelSession ==
    sessID' = Cleared(sessID) /\ sessKey' = Cleared(sessKey) /\ bucPass' = Cleared(bucPass)

\* Alt-L on the files page.  The server is not told.
Logout ==
    /\ focus = "interaction"
    /\ DelSession
    /\ EnterEntry("logout")
    /\ Disturb /\ Cross(Writing)
    /\ UNCHANGED <<loginVars, jobVars, serverVars, crashed>>

-----------------------------------------------------------------------------
(* An upload, in a goroutine of its own. *)

JobStep(j, from, to) == job[j] = from /\ job' = [job EXCEPT ![j] = to]

\* A request has had its answer, its signature is gone.
RequestEnds(j) ==
    /\ hashKey' = [hashKey EXCEPT ![j] = NilKey]
    /\ sentID' = [sentID EXCEPT ![j] = NilKey]

\* The goroutine returns, its locals are gone.
Ends(j) ==
    /\ job' = [job EXCEPT ![j] = "done"]
    /\ seals' = [seals EXCEPT ![j] = <<>>]
    /\ RequestEnds(j)
    /\ disturbed' = [disturbed EXCEPT ![j] = FALSE]

\* An upload that is started on secrets that logins are writing, or have
\* crossed, is disturbed from the first.
StartUpload(j) ==
    /\ focus = "interaction"
    /\ JobStep(j, "off", "seal")
    /\ disturbed' = [disturbed EXCEPT ![j] = crossed \/ Writing # {}]
    /\ UNCHANGED <<stageVars, coreVars, loginVars, seals, hashKey, sentID, crossed, serverVars,
                   crashed>>

\* Mutant of Seal: the file's key is wrapped again and again.
SealForEver(j) ==
    /\ job[j] = "seal"
    /\ seals' = [seals EXCEPT ![j] = Append(@, bucPass)]
    /\ UNCHANGED <<stageVars, coreVars, loginVars, job, hashKey, sentID, historyVars, serverVars,
                   crashed>>

\* Mutant of Seal: the file info is encrypted with the session's key.
SealInfoForSession(j) ==
    /\ bucPass # NilKey \/ Len(seals[j]) = 0
    /\ JobStep(j, "seal", IF Len(seals[j]) < 2 THEN "seal" ELSE "initSign")
    /\ seals' = [seals EXCEPT ![j] = Append(@, IF Len(@) < 2 THEN bucPass ELSE sessKey)]
    /\ UNCHANGED <<stageVars, coreVars, loginVars, hashKey, sentID, historyVars, serverVars,
                   crashed>>

\* encryptFile reads the bucket's key three times: to wrap the file's key
\* (GetKEK), to encrypt the metadata and to encrypt the file info (Encrypt,
\* which refuses a key of length 0).
Seal(j) ==
    /\ bucPass # NilKey \/ Len(seals[j]) = 0
    /\ JobStep(j, "seal", IF Len(seals[j]) < 2 THEN "seal" ELSE "initSign")
    /\ seals' = [seals EXCEPT ![j] = Append(@, bucPass)]
    /\ UNCHANGED <<stageVars, coreVars, loginVars, hashKey, sentID, historyVars, serverVars,
                   crashed>>

\* prepareReq reads the key for the signatures, then the id.  A nil key or id
\* is refused ("used before assignment").
Sign(j, from, to) ==
    /\ sessKey # NilKey /\ sessID # NilKey
    /\ JobStep(j, from, to)
    /\ hashKey' = [hashKey EXCEPT ![j] = sessKey]
    /\ UNCHANGED <<stageVars, coreVars, loginVars, seals, sentID, historyVars, serverVars, crashed>>

Send(j, from, to) ==
    /\ JobStep(j, from, to)
    /\ sentID' = [sentID EXCEPT ![j] = sessID]
    /\ UNCHANGED <<stageVars, coreVars, loginVars, seals, hashKey, historyVars, serverVars,
                   crashed>>

\* External: the server accepts a live session's id with that session's key.
Authorised(j) == sentID[j] = hashKey[j] /\ sentID[j] \in live

InitAccepted(j) ==
    /\ Authorised(j)
    /\ JobStep(j, "initSent", "completeSign")
    /\ upload' = [upload EXCEPT ![j] = bucketOf[sentID[j]]]
    /\ RequestEnds(j)
    /\ UNCHANGED <<stageVars, coreVars, loginVars, seals, historyVars, bucketOf, live, stored,
                   crashed>>

\* External: a file is stored in the bucket its upload was initiated in, by a
\* session of that bucket.
CompleteAccepted(j) ==
    /\ Authorised(j) /\ bucketOf[sentID[j]] = upload[j]
    /\ job[j] = "completeSent"
    /\ Ends(j)
    /\ stored' = stored \cup
         {[bucket |-> upload[j], seals |-> seals[j], disturbed |-> disturbed[j]]}
    /\ UNCHANGED <<stageVars, coreVars, loginVars, crossed, bucketOf, live, upload, crashed>>

\* A 401: checkStatus calls Expired, which shows the entry stage, from the
\* upload's goroutine.  What becomes of the upload is Upload's subject.
Unauthorised(j) ==
    /\ ~Authorised(j)
    /\ job[j] \in {"initSent", "completeSent"}
    /\ Ends(j)
    /\ EnterEntry("expired")
    /\ UNCHANGED <<coreVars, loginVars, crossed, serverVars, crashed>>

\* Any other end: a secret refused as unassigned, an error of the file system,
\* the network or the server.
GiveUp(j) ==
    /\ Running(j)
    /\ Ends(j)
    /\ UNCHANGED <<stageVars, coreVars, loginVars, crossed, serverVars, crashed>>

\* External: the server forgets a session.
SessionExpires(s) ==
    /\ live' = live \ {s}
    /\ UNCHANGED <<stageVars, coreVars, loginVars, jobVars, historyVars, bucketOf, upload,
                   stored, crashed>>

-----------------------------------------------------------------------------
LoginNext(l) ==
    \/ \E b \in Bucket : PressOpen(l, b)
    \/ TakeFocus(l) \/ Exchange(l) \/ LoginUnauthorised(l) \/ LoginFails(l)
    \/ LoginFinish(l) \/ LoginLost(l) \/ LoginPanics(l)
    \/ ClearSession(l) \/ SetSessionID(l) \/ SetSessionKey(l)
    \/ ClearBucket(l) \/ OpenBucket(l) \/ EnterInteraction(l)

JobNext(j) ==
    \/ StartUpload(j) \/ Seal(j)
    \/ Sign(j, "initSign", "initSend") \/ Send(j, "initSend", "initSent") \/ InitAccepted(j)
    \/ Sign(j, "completeSign", "completeSend") \/ Send(j, "completeSend", "completeSent")
    \/ CompleteAccepted(j) \/ Unauthorised(j) \/ GiveUp(j)

\* The program has ended, or nobody gets the keys any more and nothing is under
\* way that could change it.
Stopped ==
    /\ \/ crashed
       \/ focus = "nobody" /\ (\A l \in Login : login[l] = "off") /\ (\A j \in Job : ~Running(j))
    /\ UNCHANGED vars

Next ==
    \/ /\ ~crashed
       /\ \/ \E l \in Login : LoginNext(l)
          \/ Logout
          \/ \E j \in Job : JobNext(j)
          \/ \E s \in live : SessionExpires(s)
    \/ Stopped

Spec == Init /\ [][Next]_vars

-----------------------------------------------------------------------------
(* Properties. *)

Key == Bucket \cup {NilKey, ZeroKey}

\* The state is well formed: the session fields hold sessions, the bucket key
\* is a bucket's, an upload seals three values.
TypeOK ==
    /\ entered \in {"start", "login", "logout", "expired"}
    /\ focus \in {"entry", "interaction", "nobody"} /\ stranded \subseteq Login
    /\ sessID \in SessionId \cup {NilKey, ZeroKey} /\ sessKey \in SessionId \cup {NilKey, ZeroKey}
    /\ bucPass \in Key
    /\ login \in [Login -> {"off", "press", "exchange", "finish", "refused", "empty",
                          "clearSession", "setID", "setKey", "clearBucket", "setBucket", "switch"}]
    /\ target \in [Login -> Bucket \cup {NilKey}]
    /\ granted \in [Login -> SessionId \cup {NilKey}]
    /\ job \in [Job -> {"off", "seal", "initSign", "initSend", "initSent",
                        "completeSign", "completeSend", "completeSent", "done"}]
    /\ seals \in [Job -> UNION {[1 .. n -> Key] : n \in 0 .. 3}]
    /\ hashKey \in [Job -> SessionId \cup {NilKey, ZeroKey}]
    /\ sentID \in [Job -> SessionId \cup {NilKey, ZeroKey}]
    /\ disturbed \in [Job -> BOOLEAN] /\ crossed \in BOOLEAN
    /\ bucketOf \in [SessionId -> Bucket \cup {NilKey}] /\ live \subseteq SessionId
    /\ upload \in [Job -> Bucket \cup {NilKey}]
    /\ \A f \in stored : f.bucket \in Bucket
    /\ crashed \in BOOLEAN

\* The id and the key are one session's, and the bucket key is that session's
\* bucket's.
Context ==
    /\ sessID \in SessionId /\ sessKey = sessID
    /\ bucPass \in Bucket /\ bucPass = bucketOf[sessID]

\* While the files page is shown and no login is writing the secrets, they are of
\* one session and its bucket, whatever logins failed, were refused or replaced
\* one another before, across logouts, late 401s and uploads left behind; unless
\* the login that wrote last was not alone: another login, or a logout, wrote
\* between its first write and its switch of the stage.
OneContext == Stage = "interaction" /\ Writing = {} /\ ~crossed => Context

\* A file is sealed, in all its parts, under the key of the bucket it is stored
\* in, and its owner can open it, if no secret was written while its upload ran,
\* and its upload was not started on secrets half written or crossed.
UndisturbedIsReadable ==
    \A f \in stored : ~f.disturbed => f.seals = <<f.bucket, f.bucket, f.bucket>>

HoldsNoSecrets == {sessID, sessKey, bucPass} \subseteq {NilKey, ZeroKey}

\* After a logout, until a login sets its session, no secret is left for the
\* uploads still running to sign or seal with, also if the logout came between
\* the writes of a login.
LogoutWipes ==
    /\ entered = "logout"
    /\ \A l \in Login : login[l] \notin {"setKey", "clearBucket", "setBucket", "switch"}
    => HoldsNoSecrets

-----------------------------------------------------------------------------
(* What the program says of itself and does not do. *)

\* "Encrypt encrypts using the bucket password": a stored file is sealed under
\* the key of the bucket it is stored in.
SealedUnderItsBucket == \A f \in stored : f.seals = <<f.bucket, f.bucket, f.bucket>>
=============================================================================
