-------------------------------- MODULE Codes --------------------------------
(***************************************************************************)
(* The one-time codes sent to one address, in Redis: to bind an e-mail     *)
(* address, to bind a telephone number, and to let an administrator in.    *)
(* The three are copies of one protocol; Channel tells them apart where    *)
(* they differ.  A code is checked under a lock that expires; it is stored *)
(* by the request that sends it without the lock.  Every step is one Redis *)
(* command, one SQL statement or one call of the mail or SMS service.      *)
(***************************************************************************)
EXTENDS Integers

CONSTANTS
    Users,
    Sessions,       \* requests at the same time
    MaxAttempts,    \* EMAIL_VERIFY_MAX_ATTEMPTS, and 3 in sms_service
    MaxSent,        \* bound: codes that are generated
    MaxGuesses,     \* bound: wrong guesses at a code where the code sets no limit
    MaxMishaps,     \* bound: locks that expire under their holder, and stops
    NoUser, Nobody, Orphan

ASSUME NamesAssumption ==
    /\ NoUser \notin Users
    /\ Nobody \notin Sessions /\ Orphan \notin Sessions /\ Nobody # Orphan

ASSUME BoundsAssumption ==
    MaxAttempts \in Nat /\ MaxSent \in Nat \ {0} /\ MaxGuesses \in Nat /\ MaxMishaps \in Nat

Channels == {"email", "sms", "admin"}
Numbers == 1 .. MaxSent
NoCode == 0         \* no such key; also what a wrong guess is

VARIABLES
    channel,
    code,       \* the code stored for the address, numbered in the order stored
    tries,      \* its "attempts"
    owner,      \* its "user_id"
    rate,       \* whether the key that limits sending is there
    lock,       \* lock:{code_key}
    holder,     \* the user with this address in the user table
    sent,       \* the number of codes stored so far
    at, kind,   \* the step each session is at, and what it is doing
    who,        \* the user it acts for
    guess,      \* the code it was given
    mine,       \* the code it has read, and
    seen,       \*   the attempts it has read
    wrong,      \* history: wrong guesses compared with every code
    used,       \* history: how often every code has been accepted
    unspent,    \* history: acceptances whose request ended before the code was deleted
    crossed,    \* history: a code was stored while another one was checked
    overtaken,  \* history: locks that expired under their holder
    stopped     \* history: sessions that ended between two steps

codeVars == <<code, tries, owner>>
sessionVars == <<at, kind, who, guess, mine, seen>>
historyVars == <<wrong, used, unspent, crossed, overtaken, stopped>>
vars == <<channel, code, tries, owner, rate, lock, holder, sent, at, kind, who, guess, mine, seen,
          wrong, used, unspent, crossed, overtaken, stopped>>

Init ==
    /\ channel \in Channels
    /\ code = NoCode /\ tries = 0 /\ owner = NoUser
    /\ rate = FALSE /\ lock = Nobody /\ sent = 0
    /\ holder = NoUser
    /\ at = [s \in Sessions |-> "idle"]
    /\ kind = [s \in Sessions |-> "none"]
    /\ who = [s \in Sessions |-> NoUser]
    /\ guess = [s \in Sessions |-> NoCode]
    /\ mine = [s \in Sessions |-> NoCode]
    /\ seen = [s \in Sessions |-> 0]
    /\ wrong = [n \in Numbers |-> 0]
    /\ used = [n \in Numbers |-> 0]
    /\ unspent = [n \in Numbers |-> 0]
    /\ crossed = FALSE /\ overtaken = 0 /\ stopped = 0

At(s, step) == at[s] = step
GoTo(s, step) == at' = [at EXCEPT ![s] = step] /\ UNCHANGED <<kind, who, guess, mine, seen>>

Begin(s, k, u, g, step) ==
    /\ at[s] = "idle"
    /\ at' = [at EXCEPT ![s] = step]
    /\ kind' = [kind EXCEPT ![s] = k]
    /\ who' = [who EXCEPT ![s] = u]
    /\ guess' = [guess EXCEPT ![s] = g]
    /\ UNCHANGED <<mine, seen>>

End(s) ==
    /\ at' = [at EXCEPT ![s] = "idle"]
    /\ kind' = [kind EXCEPT ![s] = "none"]
    /\ who' = [who EXCEPT ![s] = NoUser]
    /\ guess' = [guess EXCEPT ![s] = NoCode]
    /\ mine' = [mine EXCEPT ![s] = NoCode]
    /\ seen' = [seen EXCEPT ![s] = 0]

\* The sessions that have read a code and not yet done with it.
Checking == {s \in Sessions : at[s] \in {"note", "discard", "bind", "consume"} /\ kind[s] = "verify"}

-----------------------------------------------------------------------------
(* Sending *)

Send(s, u) ==
    /\ sent < MaxSent
    /\ channel = "email" => holder \in {u, NoUser}
    /\ Begin(s, "send", u, NoCode, "rate")
    /\ UNCHANGED <<channel, codeVars, rate, lock, holder, sent, historyVars>>

TakeRate(s) ==
    /\ At(s, "rate")
    /\ rate' = TRUE
    /\ IF rate THEN End(s) ELSE GoTo(s, "store")
    /\ UNCHANGED <<channel, codeVars, lock, holder, sent, historyVars>>

Store(s) ==
    /\ At(s, "store")
    /\ sent < MaxSent
    /\ sent' = sent + 1
    /\ code' = sent' /\ tries' = 0 /\ owner' = who[s]
    /\ crossed' = (crossed \/ Checking # {})
    /\ GoTo(s, "mail")
    /\ UNCHANGED <<channel, rate, lock, holder, wrong, used, unspent, overtaken, stopped>>

\* The administrator's mail is sent after the answer, and nobody looks whether
\* it was; an SMS service without templates ends the request with the code kept.
Mail(s) ==
    /\ At(s, "mail")
    /\ \/ End(s)
       \/ channel # "admin" /\ GoTo(s, "withdraw")
    /\ UNCHANGED <<channel, codeVars, rate, lock, holder, sent, historyVars>>

DropCode == code' = NoCode /\ tries' = 0 /\ owner' = NoUser

\* What could not be sent is taken back; the limit on sending stays.
Withdraw(s) ==
    /\ At(s, "withdraw")
    /\ DropCode
    /\ End(s)
    /\ UNCHANGED <<channel, rate, lock, holder, sent, historyVars>>

-----------------------------------------------------------------------------
(* Checking *)

Verify(s, u, g) ==
    /\ Begin(s, "verify", u, g, "acquire")
    /\ UNCHANGED <<channel, codeVars, rate, lock, holder, sent, historyVars>>

Acquire(s) ==
    /\ At(s, "acquire")
    /\ lock = Nobody
    /\ lock' = s
    /\ GoTo(s, "look")
    /\ UNCHANGED <<channel, codeVars, rate, holder, sent, historyVars>>

GiveUp(s) ==
    /\ At(s, "acquire")
    /\ lock # Nobody
    /\ End(s)
    /\ UNCHANGED <<channel, codeVars, rate, lock, holder, sent, historyVars>>

Counted == channel # "admin"
Readable(s) == code # NoCode /\ (channel = "email" => owner = who[s])

Judge(s, step) ==
    /\ mine' = [mine EXCEPT ![s] = code]
    /\ seen' = [seen EXCEPT ![s] = tries]
    /\ at' = [at EXCEPT ![s] = step]
    /\ UNCHANGED <<kind, who, guess>>

LookRefused(s) ==
    /\ At(s, "look")
    /\ ~Readable(s)
    /\ GoTo(s, "release")
    /\ UNCHANGED <<channel, codeVars, rate, lock, holder, sent, historyVars>>

\* Too many attempts, or the code is older than its key, which a wrong guess renews.
LookSpent(s) ==
    /\ At(s, "look")
    /\ Readable(s) /\ Counted
    /\ Judge(s, "discard")
    /\ UNCHANGED <<channel, codeVars, rate, lock, holder, sent, historyVars>>

\* Slip: the comparison comes before the attempts are counted.
LookWrong_Unlimited(s) ==
    /\ At(s, "look")
    /\ Readable(s) /\ guess[s] # code /\ (Counted => tries <= MaxAttempts)
    /\ Counted \/ wrong[code] < MaxGuesses
    /\ IF Counted THEN Judge(s, "note") ELSE GoTo(s, "release")
    /\ wrong' = [wrong EXCEPT ![code] = @ + 1]
    /\ UNCHANGED <<channel, codeVars, rate, lock, holder, sent, used, unspent, crossed, overtaken,
                   stopped>>

\* The administrator's code has no attempts: nothing but its expiry ends the guessing.
LookWrong(s) ==
    /\ At(s, "look")
    /\ Readable(s) /\ guess[s] # code /\ (Counted => tries < MaxAttempts)
    /\ Counted \/ wrong[code] < MaxGuesses
    /\ IF Counted THEN Judge(s, "note") ELSE GoTo(s, "release")
    /\ wrong' = [wrong EXCEPT ![code] = @ + 1]
    /\ UNCHANGED <<channel, codeVars, rate, lock, holder, sent, used, unspent, crossed, overtaken,
                   stopped>>

LookRight(s) ==
    /\ At(s, "look")
    /\ Readable(s) /\ guess[s] = code /\ (Counted => tries < MaxAttempts)
    /\ Judge(s, IF channel = "email" THEN "bind" ELSE "consume")
    /\ UNCHANGED <<channel, codeVars, rate, lock, holder, sent, historyVars>>

\* Slip: the attempts that are left are counted down, from no attempts at all.
Note_Down(s) ==
    /\ At(s, "note")
    /\ code' = mine[s] /\ tries' = seen[s] - 1
    /\ owner' = who[s]
    /\ GoTo(s, "release")
    /\ UNCHANGED <<channel, rate, lock, holder, sent, historyVars>>

\* The record that was read is written back whole, with one more attempt.
Note(s) ==
    /\ At(s, "note")
    /\ code' = mine[s] /\ tries' = seen[s] + 1
    /\ owner' = who[s]
    /\ GoTo(s, "release")
    /\ UNCHANGED <<channel, rate, lock, holder, sent, historyVars>>

\* The request is refused, whatever it has guessed.
Discard(s) ==
    /\ At(s, "discard")
    /\ DropCode
    /\ at' = [at EXCEPT ![s] = "release"]
    /\ mine' = [mine EXCEPT ![s] = NoCode]
    /\ UNCHANGED <<channel, rate, lock, holder, sent, kind, who, guess, seen, historyVars>>

\* The address is unique in the user table: it is refused when another user has
\* it, and the code is kept then.  The code is accepted here: the binding is
\* committed before the code is deleted.
BindEmail(s) ==
    /\ channel = "email" /\ At(s, "bind")
    /\ IF holder \in {who[s], NoUser}
       THEN /\ holder' = who[s] /\ GoTo(s, "consume")
            /\ used' = [used EXCEPT ![mine[s]] = @ + 1]
       ELSE UNCHANGED <<holder, used>> /\ GoTo(s, "release")
    /\ UNCHANGED <<channel, codeVars, rate, lock, sent, wrong, unspent, crossed, overtaken, stopped>>

\* A number is bound after the code was used up and the lock given back.
BindPhone(s) ==
    /\ channel = "sms" /\ At(s, "bind")
    /\ holder' = IF holder = NoUser THEN who[s] ELSE holder
    /\ End(s)
    /\ UNCHANGED <<channel, codeVars, rate, lock, sent, historyVars>>

\* The other two channels accept a code by deleting it.
Accepted(s) == IF channel = "email" THEN used ELSE [used EXCEPT ![mine[s]] = @ + 1]

\* Slip: the code is left to expire.
Consume_Kept(s) ==
    /\ At(s, "consume")
    /\ used' = Accepted(s)
    /\ GoTo(s, IF channel = "sms" THEN "release" ELSE "free")
    /\ UNCHANGED <<channel, codeVars, rate, lock, holder, sent, wrong, unspent, crossed, overtaken,
                   stopped>>

Consume(s) ==
    /\ At(s, "consume")
    /\ DropCode
    /\ used' = Accepted(s)
    /\ GoTo(s, IF channel = "sms" THEN "release" ELSE "free")
    /\ UNCHANGED <<channel, rate, lock, holder, sent, wrong, unspent, crossed, overtaken, stopped>>

FreeRate(s) ==
    /\ At(s, "free")
    /\ rate' = FALSE
    /\ GoTo(s, "release")
    /\ UNCHANGED <<channel, codeVars, lock, holder, sent, historyVars>>

\* An administrator's login goes on as Login of module Tokens does.
Release(s) ==
    /\ At(s, "release")
    /\ lock' = IF lock = s THEN Nobody ELSE lock
    /\ IF channel = "sms" /\ mine[s] # NoCode /\ guess[s] = mine[s]
       THEN GoTo(s, "bind")
       ELSE End(s)
    /\ UNCHANGED <<channel, codeVars, rate, holder, sent, historyVars>>

-----------------------------------------------------------------------------
(* Time and failures *)

ExpireCode ==
    /\ code # NoCode
    /\ DropCode
    /\ UNCHANGED <<channel, rate, lock, holder, sent, sessionVars, historyVars>>

ExpireRate ==
    /\ rate
    /\ rate' = FALSE
    /\ UNCHANGED <<channel, codeVars, lock, holder, sent, sessionVars, historyVars>>

MoreMishaps == overtaken + stopped < MaxMishaps

ExpireLock ==
    /\ lock # Nobody
    /\ IF lock = Orphan THEN UNCHANGED overtaken
       ELSE MoreMishaps /\ overtaken' = overtaken + 1
    /\ lock' = Nobody
    /\ UNCHANGED <<channel, codeVars, rate, holder, sent, sessionVars, wrong, used, unspent, crossed,
                   stopped>>

Stop(s) ==
    /\ ~At(s, "idle")
    /\ MoreMishaps
    /\ stopped' = stopped + 1
    /\ lock' = IF lock = s THEN Orphan ELSE lock
    /\ unspent' = IF channel = "email" /\ At(s, "consume")
                  THEN [unspent EXCEPT ![mine[s]] = @ + 1] ELSE unspent
    /\ End(s)
    /\ UNCHANGED <<channel, codeVars, rate, holder, sent, wrong, used, crossed, overtaken>>

Next ==
    \/ \E s \in Sessions :
          \/ \E u \in Users : Send(s, u) \/ \E g \in 0 .. sent : Verify(s, u, g)
          \/ TakeRate(s) \/ Store(s) \/ Mail(s) \/ Withdraw(s)
          \/ Acquire(s) \/ GiveUp(s)
          \/ LookRefused(s) \/ LookSpent(s) \/ LookWrong(s) \/ LookRight(s)
          \/ Note(s) \/ Discard(s) \/ BindEmail(s) \/ BindPhone(s) \/ Consume(s) \/ FreeRate(s) \/ Release(s)
          \/ Stop(s)
    \/ ExpireCode \/ ExpireRate \/ ExpireLock

Spec == Init /\ [][Next]_vars

-----------------------------------------------------------------------------
(* Properties *)

Steps == {"idle", "rate", "store", "mail", "withdraw", "acquire", "look", "note", "discard",
          "bind", "consume", "free", "release"}

TypeOK ==
    /\ channel \in Channels
    /\ code \in Numbers \cup {NoCode}
    /\ tries \in Nat
    /\ owner \in Users \cup {NoUser}
    /\ rate \in BOOLEAN
    /\ lock \in Sessions \cup {Nobody, Orphan}
    /\ holder \in Users \cup {NoUser}
    /\ sent \in 0 .. MaxSent
    /\ at \in [Sessions -> Steps]
    /\ kind \in [Sessions -> {"none", "send", "verify"}]
    /\ who \in [Sessions -> Users \cup {NoUser}]
    /\ guess \in [Sessions -> 0 .. MaxSent]
    /\ mine \in [Sessions -> 0 .. MaxSent]
    /\ seen \in [Sessions -> Nat]
    /\ wrong \in [Numbers -> Nat]
    /\ used \in [Numbers -> Nat] /\ unspent \in [Numbers -> Nat]
    /\ crossed \in BOOLEAN
    /\ overtaken \in Nat /\ stopped \in Nat

(* A code that binds an address or a number is not guessed at more often than
   allowed, although a guess is compared before it is counted.  A request that
   ends in between is not counted, and one whose lock expires under it writes an
   old count back: all attempts again.  The code that lets an administrator in has
   no such limit (verify_admin_login_code counts nothing), so nothing is said of it. *)
GuessesBounded ==
    Counted => \A n \in Numbers : wrong[n] <= MaxAttempts * (1 + overtaken) + stopped

(* The code that works is the one sent last, and it is accepted once, unless it
   was checked under a lost lock or another code was stored meanwhile.  A wrong
   guess writes back the record it has read, which brings an earlier code back
   when the next one was stored in between: sending does not take the lock.  An
   address is bound before its code is deleted, so each request that ends between
   the two leaves a code that may be accepted once more. *)
LatestCodeOnce ==
    ~crossed /\ overtaken = 0 =>
        /\ code \in {NoCode, sent}
        /\ \A n \in Numbers : used[n] <= 1 + unspent[n]
=============================================================================
