-------------------------------- MODULE Entry --------------------------------
(***************************************************************************)
(* The entry stage: creating a bucket and entering it (CreateBucket and    *)
(* OpenBucket of stages/entry/service.go, the forms of entry/tui/create.go *)
(* and the keys of core.go).  Save starts a goroutine; the forms keep the  *)
(* keys until it has taken the focus away.  The goroutines read the forms  *)
(* that are there when they get to it, not those the key was pressed in.   *)
(*                                                                         *)
(* OPAQUE is external: the server accepts a login with the password that   *)
(* was registered.  Session has the login request by request.              *)
(***************************************************************************)
EXTENDS Integers, Sequences, Cipher

CONSTANTS Password, NoPassword, \* passwords that are typed; an empty field
          Char, Class,          \* characters, and which class each is of
          Spelling,             \* how a password is spelled
          Creation              \* creations of buckets (a bound)

Classes == {"upper", "lower", "digit", "symbol", "blank", "control", "foreign"}

ASSUME EntryAssumption ==
    /\ NoPassword \notin Password
    /\ Class \in [Char -> Classes]
    /\ \A p \in Password : Spelling[p] \in Seq(Char)

VARIABLES focus,            \* what gets the keys: menu, new, created, none, bucket
          form,             \* the password of newForm, the key of createdForm
          creation, typed,  \* per goroutine of createBucket: step, password it read
          granted,          \* per goroutine: the bucket key of the last answer
          attached,         \* per goroutine: is its entry stage still the one shown?
          entering,         \* the goroutine of enterBucket: off, begin, login
          buckets,          \* server: password and BucketCipher of each bucket
          bucket, bucPass,  \* core: the bucket entered and its key
          overlapped        \* history: two of them used the forms at the same time

entryVars == <<focus, form, creation, typed, granted, attached, entering, buckets,
               bucket, bucPass, overlapped>>

NoKey   == 0                \* an empty Bucket ID
NewForm == [pwd |-> NoPassword, key |-> NoKey]

EntryInit ==
    /\ focus = "menu" /\ form = NewForm
    /\ creation = [c \in Creation |-> "off"] /\ typed = [c \in Creation |-> NoPassword]
    /\ granted = [c \in Creation |-> NoKey] /\ attached = [c \in Creation |-> TRUE]
    /\ entering = "off" /\ buckets = <<>>
    /\ bucket = NoKey /\ bucPass = Zeros /\ overlapped = FALSE

-----------------------------------------------------------------------------
(* Formats (utils/utils.go). *)

\* Mutant of RunCount: a run begins with 0.
RunFromZero(s) ==
    LET run[i \in DOMAIN s] == IF i > 1 /\ s[i] = s[i - 1] THEN run[i - 1] + 1 ELSE 0
    IN  run

\* How many equal characters end at each.
RunCount(s) ==
    LET run[i \in DOMAIN s] == IF i > 1 /\ s[i] = s[i - 1] THEN run[i - 1] + 1 ELSE 1
    IN  run

Has(s, class) == \E i \in DOMAIN s : Class[s[i]] = class

VerifyPassFormat(s) ==
    /\ 12 <= Len(s) /\ Len(s) <= 64
    /\ \A i \in DOMAIN s :
        Class[s[i]] \notin {"foreign", "control", "blank"} /\ RunCount(s)[i] <= 3
    /\ Has(s, "upper") /\ Has(s, "lower") /\ Has(s, "digit") /\ Has(s, "symbol")

\* Keys that the server gave have the format; an empty one has not.
VerifyBucKeyFormat(key) == key # NoKey

-----------------------------------------------------------------------------
(* Keys. *)

Press(from, to) == focus = from /\ focus' = to

OpenCreatePage ==
    /\ Press("menu", "new") /\ form' = NewForm
    /\ UNCHANGED <<creation, typed, granted, attached, entering, buckets, bucket, bucPass,
                   overlapped>>

LeaveForm ==
    /\ Press("new", "menu") \/ Press("created", "menu")
    /\ UNCHANGED <<form, creation, typed, granted, attached, entering, buckets, bucket,
                   bucPass, overlapped>>

\* It matters while there is a creation to come.
TypePassword(p) ==
    /\ focus = "new" /\ \E c \in Creation : creation[c] = "off"
    /\ form' = [form EXCEPT !.pwd = p]
    /\ UNCHANGED <<focus, creation, typed, granted, attached, entering, buckets, bucket,
                   bucPass, overlapped>>

Active(c) == creation[c] \notin {"off", "done"}
Busy      == entering # "off" \/ \E c \in Creation : Active(c) /\ attached[c]

Save(c) ==
    /\ focus = "new" /\ creation[c] = "off"
    /\ creation' = [creation EXCEPT ![c] = "begin"]
    /\ overlapped' = (overlapped \/ Busy)
    /\ UNCHANGED <<focus, form, typed, granted, attached, entering, buckets, bucket, bucPass>>

EnterBucket ==
    /\ focus = "created" /\ entering = "off"
    /\ entering' = "begin"
    /\ overlapped' = (overlapped \/ Busy)
    /\ UNCHANGED <<focus, form, creation, typed, granted, attached, buckets, bucket, bucPass>>

-----------------------------------------------------------------------------
(* createBucket *)

Goto(c, pc) == creation' = [creation EXCEPT ![c] = pc]

\* The goroutine ends and its variables with it.
Ends(c) ==
    /\ Goto(c, "done")
    /\ typed' = [typed EXCEPT ![c] = NoPassword] /\ granted' = [granted EXCEPT ![c] = NoKey]
    /\ attached' = [attached EXCEPT ![c] = TRUE]

\* Where a goroutine of a stage that is gone sets the focus is left out.
SetFocus(c, to) == focus' = IF attached[c] THEN to ELSE focus

\* The focus is taken away and the form read; a password that does not have
\* the format, or a box not ticked, gives it back.
Begin(c) ==
    /\ creation[c] = "begin"
    /\ \/ /\ form.pwd # NoPassword /\ VerifyPassFormat(Spelling[form.pwd])
          /\ typed' = [typed EXCEPT ![c] = form.pwd]
          /\ Goto(c, "init") /\ focus' = "none" /\ UNCHANGED <<granted, attached>>
       \/ Ends(c) /\ focus' = "new"
    /\ UNCHANGED <<form, entering, buckets, bucket, bucPass, overlapped>>

CreateFails(c) == Ends(c) /\ SetFocus(c, "menu")

\* RegistrationInit.
RegistrationInit(c) ==
    /\ creation[c] = "init"
    /\ \/ Goto(c, "final") /\ UNCHANGED <<focus, typed, granted, attached>>
       \/ CreateFails(c)
    /\ UNCHANGED <<form, entering, buckets, bucket, bucPass, overlapped>>

\* Core.NewBucket: a new key wrapped under the password.
NewBucket(c, pwd) ==
    LET salt  == Random(c, "bucketSalt")
        nonce == Random(c, "bucketNonce")
    IN  [KEKSalt |-> salt, WEKNonce |-> nonce,
         WEK |-> Wrap(GetKEKWithSalt(pwd, salt), nonce, Random(c, "bucketKey"))]

\* Mutant of Registered: the password is cleared while OPAQUE still uses it.
RegisteredCleared(c) ==
    Append(buckets, [pwd |-> NoPassword, cipher |-> NewBucket(c, Typed(typed[c]))])

\* A new bucket on the server.
Registered(c) ==
    Append(buckets, [pwd |-> typed[c], cipher |-> NewBucket(c, Typed(typed[c]))])

\* RegistrationFinal: the status is not looked at, so the body of a refusal is
\* an answer with an empty key; an answer may be lost after the bucket is there.
RegistrationFinal(c) ==
    /\ creation[c] = "final"
    /\ \/ /\ buckets' = Registered(c)
          /\ \/ /\ granted' = [granted EXCEPT ![c] = Len(buckets) + 1]
                /\ Goto(c, "show") /\ UNCHANGED <<focus, typed, attached>>
             \/ CreateFails(c)
       \/ Goto(c, "show") /\ UNCHANGED <<buckets, granted, focus, typed, attached>>
       \/ CreateFails(c) /\ UNCHANGED buckets
    /\ UNCHANGED <<form, entering, bucket, bucPass, overlapped>>

\* "Bucket Created", on the forms of the moment.
ShowCreated(c) ==
    /\ creation[c] = "show" /\ Ends(c)
    /\ form' = IF attached[c] THEN [form EXCEPT !.key = granted[c]] ELSE form
    /\ SetFocus(c, "created")
    /\ UNCHANGED <<entering, buckets, bucket, bucPass, overlapped>>

-----------------------------------------------------------------------------
(* Service.OpenBucket and Core.OpenBucket *)

\* The bucket's key for a password, or Fail.
BucketKey(k, pwd) ==
    LET cipher == buckets[k].cipher
    IN  UnWrap(GetKEKWithSalt(pwd, cipher.KEKSalt), cipher.WEKNonce, cipher.WEK)

\* OPAQUE: is the login accepted?
Accepted(k, pwd) == VerifyBucKeyFormat(k) /\ k \in DOMAIN buckets /\ buckets[k].pwd = pwd

\* The login goes through, and the stage with its forms is left behind; it has
\* taken several requests, so what was started before has begun.
Enter(k, pwd) ==
    /\ \A c \in Creation : creation[c] # "begin"
    /\ bucket' = k /\ bucPass' = BucketKey(k, Typed(pwd))
    /\ focus' = "bucket" /\ entering' = "off"
    /\ form' = NewForm /\ overlapped' = FALSE
    /\ attached' = [c \in Creation |-> ~Active(c)]
    /\ UNCHANGED <<creation, typed, granted, buckets>>

LoginFails ==
    /\ focus' = "menu" /\ entering' = "off"
    /\ UNCHANGED <<form, creation, typed, granted, attached, buckets, bucket, bucPass, overlapped>>

\* enterBucket takes the focus away, and then uses what the forms hold.
EnterCreated ==
    \/ /\ entering = "begin" /\ entering' = "login" /\ focus' = "none"
       /\ UNCHANGED <<form, creation, typed, granted, attached, buckets, bucket, bucPass,
                      overlapped>>
    \/ /\ entering = "login"
       /\ \/ Accepted(form.key, form.pwd) /\ Enter(form.key, form.pwd)
          \/ LoginFails

\* openBucket, with a key and a password that were typed.
OpenBucket(k, pwd) ==
    /\ focus = "menu" /\ entering = "off"
    /\ Accepted(k, pwd) /\ Enter(k, pwd)

\* DelSession, and a new entry stage.
Logout ==
    /\ focus = "bucket" /\ entering = "off"
    /\ focus' = "menu" /\ bucPass' = Zeros /\ bucket' = NoKey
    /\ UNCHANGED <<form, creation, typed, granted, attached, entering, buckets, overlapped>>

Create(c) ==
    Save(c) \/ Begin(c) \/ RegistrationInit(c) \/ RegistrationFinal(c) \/ ShowCreated(c)

EntryNext ==
    \/ OpenCreatePage \/ LeaveForm \/ EnterBucket \/ EnterCreated
    \/ \E p \in Password : TypePassword(p)
    \/ \E c \in Creation : Create(c)
    \/ \E k \in DOMAIN buckets, p \in Password : OpenBucket(k, p)

-----------------------------------------------------------------------------
(* Properties. *)

AnyPassword == Password \cup {NoPassword}

EntryTypeOK ==
    /\ focus \in {"menu", "new", "created", "none", "bucket"}
    /\ form \in [pwd : AnyPassword, key : {NoKey} \cup DOMAIN buckets]
    /\ creation \in [Creation -> {"off", "begin", "init", "final", "show", "done"}]
    /\ typed \in [Creation -> AnyPassword]
    /\ granted \in [Creation -> {NoKey} \cup DOMAIN buckets]
    /\ attached \in [Creation -> BOOLEAN] /\ entering \in {"off", "begin", "login"}
    /\ \A k \in DOMAIN buckets : buckets[k].pwd \in AnyPassword
    /\ bucket \in {NoKey} \cup DOMAIN buckets /\ bucPass # Fail
    /\ overlapped \in BOOLEAN

\* The rules 1 to 4 of the five on the page (create.go:41-44).
FollowsFirstFourRules(s) ==
    /\ Len(s) \in 12 .. 64 /\ ~Has(s, "foreign")
    /\ \A class \in {"upper", "lower", "digit", "symbol"} : Has(s, class)
    /\ ~Has(s, "blank") /\ ~Has(s, "control")
    /\ ~\E i \in 1 .. Len(s) - 3 : \A j \in 1 .. 3 : s[i + j] = s[i]

\* Every bucket that exists has a password that follows the rules 1 to 4 on the
\* page, whatever was typed, pressed or refused on the way.  The fifth, "Avoid
\* common weak patterns" (create.go:45), is not kept: nothing in the program looks
\* for any.
PasswordsFollowFirstFourRules ==
    \A k \in DOMAIN buckets :
        buckets[k].pwd # NoPassword => FollowsFirstFourRules(Spelling[buckets[k].pwd])

\* The password that the server accepts for a bucket also unwraps its key, so a
\* login never ends in the panic after it (service.go:277); and the key that the
\* page shows goes with the password the form still holds, unless another
\* creation ran at the same time.
CreatedOpens ==
    /\ \A k \in DOMAIN buckets : BucketKey(k, Typed(buckets[k].pwd)) # Fail
    /\ focus = "created" /\ form.key # NoKey /\ ~overlapped => Accepted(form.key, form.pwd)
=============================================================================
