------------------------------ MODULE AdminAuth ------------------------------
(***************************************************************************)
(* The administrator's password and the tokens it is worth: Login and      *)
(* ChangePassword of internal/handlers/handlers.go and the check of        *)
(* internal/middleware/auth.go that every admin request passes first. The  *)
(* server keeps one password hash and no sessions: a token is good for     *)
(* Lifetime from its login on, whatever becomes of the password.           *)
(*                                                                         *)
(* Several browsers log in, change the password and do other admin         *)
(* requests at once. A request takes time: between the reading of the hash *)
(* and the issue of the token, and between the check of a token and the    *)
(* effect of the request, others come in and the clock goes on.            *)
(***************************************************************************)
EXTENDS Integers

CONSTANTS
  Browsers,   \* the browsers in use
  Passwords,  \* the passwords of 6 to 72 bytes in use
  TooLong,    \* one above 72 bytes, for which bcrypt returns an error
  Nothing,    \* the empty hash, which no password matches; no token
  Lifetime,   \* the lifetime of a token (24 h), in ticks
  Stall       \* the most ticks that a request takes

ASSUME AuthAssumption ==
  /\ Lifetime \in Nat /\ Stall \in Nat
  /\ {TooLong, Nothing} \cap Passwords = {}

VARIABLES
  hash,    \* the password that the stored hash is of, or Nothing
  token,   \* token[b]: the token that browser b holds, or Nothing
  job,     \* job[b]: the request that b is waiting for
  retired  \* history: retired[w]: ticks since w was the stored password

vars == <<hash, token, job, retired>>

(* The number of ticks beyond which nothing depends on retired. *)
Horizon == Lifetime + 2 * Stall

(* from: the password of the login that the token comes from. *)
Token == [from : Passwords, left : 0 .. Lifetime]

(* A login, with the password sent, and whether the hash read was of it;   *)
(* an admin request, with the login of its token, and the new password if  *)
(* it is a change of it; since: the ticks since the hash was read or the   *)
(* token was checked.                                                      *)
Idle == [op |-> "idle"]
Job ==
  {Idle}
    \cup [op : {"login"}, from : Passwords, matches : BOOLEAN, since : 0 .. Stall]
    \cup [op : {"change"}, from : Passwords, new : Passwords \cup {TooLong},
          since : 0 .. Stall]
    \cup [op : {"other"}, from : Passwords, since : 0 .. Stall]

TypeOK ==
  /\ hash \in Passwords \cup {Nothing}
  /\ token \in [Browsers -> Token \cup {Nothing}]
  /\ job \in [Browsers -> Job]
  /\ retired \in [Passwords -> 0 .. Horizon]

Doing(b, op) == job[b].op = op

Answer(b) == job' = [job EXCEPT ![b] = Idle]

-----------------------------------------------------------------------------
(* Wrong variants of operations below, in no specification. *)

(* The check renews the token, as sliding sessions do. *)
CheckRenews(b, request) ==
  /\ Doing(b, "idle") /\ token[b] # Nothing /\ token[b].left > 0
  /\ job' = [job EXCEPT ![b] = request]
  /\ token' = [token EXCEPT ![b].left = Lifetime]
  /\ UNCHANGED <<hash, retired>>

(* The signature is checked and the expiry is not. *)
CheckSignature(b, request) ==
  /\ Doing(b, "idle") /\ token[b] # Nothing
  /\ job' = [job EXCEPT ![b] = request]
  /\ UNCHANGED <<hash, token, retired>>

(* The hash is stored as it comes, of whatever length the password is. *)
HashRaw(w) == w

-----------------------------------------------------------------------------
Init ==
  /\ hash \in Passwords
  /\ token = [b \in Browsers |-> Nothing]
  /\ job = [b \in Browsers |-> Idle]
  /\ retired = [w \in Passwords |-> IF w = hash THEN 0 ELSE Horizon]

-----------------------------------------------------------------------------
(* Login: GetAdminPasswordHash; an error of it is a wrong password, too. *)
ReadHash(b, w) ==
  /\ Doing(b, "idle")
  /\ \E m \in {hash = w, FALSE} :
       job' = [job EXCEPT ![b] =
                 [op |-> "login", from |-> w, matches |-> m, since |-> 0]]
  /\ UNCHANGED <<hash, token, retired>>

(* bcrypt agrees: a token is issued. *)
Issue(b) ==
  /\ Doing(b, "login") /\ job[b].matches
  /\ token' = [token EXCEPT ![b] = [from |-> job[b].from, left |-> Lifetime]]
  /\ Answer(b)
  /\ UNCHANGED <<hash, retired>>

(* 401, after a pause. The browser keeps the token it may have. *)
Reject(b) ==
  /\ Doing(b, "login") /\ ~job[b].matches
  /\ Answer(b)
  /\ UNCHANGED <<hash, token, retired>>

-----------------------------------------------------------------------------
(* Auth: the token's signature and expiry, then the handler. *)
Check(b, request) ==
  /\ Doing(b, "idle") /\ token[b] # Nothing /\ token[b].left > 0
  /\ job' = [job EXCEPT ![b] = request]
  /\ UNCHANGED <<hash, token, retired>>

(* 401, at which the panel throws its token away; so does a logout. *)
Forget(b) ==
  /\ Doing(b, "idle") /\ token[b] # Nothing
  /\ token' = [token EXCEPT ![b] = Nothing]
  /\ UNCHANGED <<hash, job, retired>>

AskChange(b, w) ==
  /\ token[b] # Nothing
  /\ Check(b, [op |-> "change", from |-> token[b].from, new |-> w, since |-> 0])

AskOther(b) ==
  /\ token[b] # Nothing
  /\ Check(b, [op |-> "other", from |-> token[b].from, since |-> 0])

(* What bcrypt.GenerateFromPassword leaves, its error being ignored. *)
Hash(w) == IF w = TooLong THEN Nothing ELSE w

(* ChangePassword: the update takes effect. *)
Change(b) ==
  /\ Doing(b, "change")
  /\ hash' = Hash(job[b].new)
  /\ retired' = [w \in Passwords |-> IF w = hash' THEN 0 ELSE retired[w]]
  /\ Answer(b)
  /\ UNCHANGED token

(* The update fails, which is answered 200 as well. *)
ChangeFails(b) ==
  /\ Doing(b, "change")
  /\ Answer(b)
  /\ UNCHANGED <<hash, token, retired>>

(* Any other admin request is done. *)
Done(b) ==
  /\ Doing(b, "other")
  /\ Answer(b)
  /\ UNCHANGED <<hash, token, retired>>

-----------------------------------------------------------------------------
(* A tick passes. No request takes more than Stall of them. *)
Tick ==
  /\ \A b \in {c \in Browsers : ~Doing(c, "idle")} : job[b].since < Stall
  /\ job' = [b \in Browsers |->
               IF Doing(b, "idle") THEN Idle ELSE [job[b] EXCEPT !.since = @ + 1]]
  /\ token' = [b \in Browsers |->
                 IF token[b] = Nothing \/ token[b].left = 0 THEN token[b]
                 ELSE [token[b] EXCEPT !.left = @ - 1]]
  /\ retired' = [w \in Passwords |->
                   IF w = hash \/ retired[w] = Horizon THEN retired[w]
                   ELSE retired[w] + 1]
  /\ UNCHANGED hash

Next ==
  \/ \E b \in Browsers :
       \/ \E w \in Passwords : ReadHash(b, w)
       \/ Issue(b)
       \/ Reject(b)
       \/ \E w \in Passwords \cup {TooLong} : AskChange(b, w)
       \/ AskOther(b)
       \/ Change(b)
       \/ ChangeFails(b)
       \/ Done(b)
       \/ Forget(b)
  \/ Tick

Spec == Init /\ [][Next]_vars

-----------------------------------------------------------------------------
(* A token runs out at most Lifetime after its password was changed, but   *)
(* for a login that had read the old hash: no use of it, and no other      *)
(* browser, makes it last longer (handlers.go, Login between the reading   *)
(* of the hash and the exp of the token).                                  *)
OldTokensEnd ==
  \A b \in Browsers :
    token[b] # Nothing =>
      \/ token[b].left = 0
      \/ token[b].left + retired[token[b].from] <= Lifetime + Stall

(* Whatever an admin request still changes, it does for someone who gave   *)
(* a password that was the stored one less than Lifetime, the duration of  *)
(* a login and that of the request ago (auth.go, the check that comes      *)
(* before the handler; handlers.go, the handlers).                         *)
EffectsJustified ==
  \A b \in Browsers :
    Doing(b, "change") \/ Doing(b, "other")
      => retired[job[b].from] < Lifetime + 2 * Stall
=============================================================================
