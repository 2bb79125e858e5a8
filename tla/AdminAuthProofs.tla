-------------------------- MODULE AdminAuthProofs --------------------------
(***************************************************************************)
(* What a token is worth after its password was changed, for any number of *)
(* browsers, any passwords, any lifetime of tokens and any duration of     *)
(* requests.                                                               *)
(***************************************************************************)
EXTENDS AdminAuth, TLAPS

Logins == [op : {"login"}, from : Passwords, matches : BOOLEAN, since : 0 .. Stall]
Changes == [op : {"change"}, from : Passwords, new : Passwords \cup {TooLong},
            since : 0 .. Stall]
Others == [op : {"other"}, from : Passwords, since : 0 .. Stall]

(* What is known of a request by its kind. *)
LEMMA JobKinds ==
  ASSUME TypeOK, NEW b \in Browsers
  PROVE  /\ Doing(b, "login") => job[b] \in Logins
         /\ Doing(b, "change") => job[b] \in Changes
         /\ Doing(b, "other") => job[b] \in Others
         /\ ~Doing(b, "idle") => job[b] \in Logins \cup Changes \cup Others
<1>1. job[b] \in Job
  BY DEF TypeOK
<1>2. Idle.op = "idle"
  BY DEF Idle
<1>. QED
  BY <1>1, <1>2 DEF Job, Logins, Changes, Others, Doing

LEMMA KindsAreJobs == Logins \cup Changes \cup Others \cup {Idle} = Job
BY DEF Logins, Changes, Others, Job

LEMMA TokensTyped ==
  ASSUME TypeOK, NEW b \in Browsers, token[b] # Nothing
  PROVE  token[b] \in Token
BY DEF TypeOK

(* A password that a login has found to match was the stored one when it   *)
(* read the hash.                                                          *)
LoginsRecent ==
  \A b \in Browsers :
    Doing(b, "login") /\ job[b].matches => retired[job[b].from] <= job[b].since

(* And one whose token a request has shown was so before the token's life, *)
(* the login and the request so far.                                       *)
RequestsRecent ==
  \A b \in Browsers :
    Doing(b, "change") \/ Doing(b, "other")
      => retired[job[b].from] < Lifetime + Stall + job[b].since

StoredNow == hash \in Passwords => retired[hash] = 0

Inv == TypeOK /\ StoredNow /\ LoginsRecent /\ RequestsRecent /\ OldTokensEnd

-----------------------------------------------------------------------------
(* A step after which browser b holds the token it held or none, waits for *)
(* the request it waited for or for none, and no password is older.        *)
Settles(b) ==
  /\ token'[b] \in {token[b], Nothing}
  /\ job'[b] \in {job[b], Idle}

NoOlder == \A w \in Passwords : retired'[w] <= retired[w]

LEMMA Settled ==
  ASSUME Inv, TypeOK', StoredNow', NoOlder, \A b \in Browsers : Settles(b)
  PROVE  Inv'
<1>. USE AuthAssumption DEF Inv
<1>1. \A w \in Passwords : retired[w] \in Int /\ retired'[w] \in Int
  BY DEF TypeOK, Horizon
<1>2. Idle.op = "idle"
  BY DEF Idle
<1>3. LoginsRecent'
  <2>. SUFFICES ASSUME NEW b \in Browsers, Doing(b, "login")', job'[b].matches
                PROVE  retired'[job'[b].from] <= job'[b].since
    BY DEF LoginsRecent
  <2>1. job'[b] = job[b] /\ Doing(b, "login")
    BY <1>2 DEF Settles, Doing
  <2>2. job[b] \in Logins
    BY <2>1, JobKinds
  <2>3. retired[job[b].from] <= job[b].since
    BY <2>1 DEF LoginsRecent
  <2>. QED
    BY <1>1, <2>1, <2>2, <2>3 DEF NoOlder, Logins
<1>4. RequestsRecent'
  <2>. SUFFICES ASSUME NEW b \in Browsers, Doing(b, "change")' \/ Doing(b, "other")'
                PROVE  retired'[job'[b].from] < Lifetime + Stall + job'[b].since
    BY DEF RequestsRecent
  <2>1. job'[b] = job[b] /\ (Doing(b, "change") \/ Doing(b, "other"))
    BY <1>2 DEF Settles, Doing
  <2>2. job[b] \in Changes \cup Others
    BY <2>1, JobKinds
  <2>3. retired[job[b].from] < Lifetime + Stall + job[b].since
    BY <2>1 DEF RequestsRecent
  <2>4. job[b].from \in Passwords /\ job[b].since \in Int
    BY <2>2 DEF Changes, Others
  <2>. QED
    BY <1>1, <2>1, <2>3, <2>4 DEF NoOlder
<1>5. OldTokensEnd'
  <2>. SUFFICES ASSUME NEW b \in Browsers, token'[b] # Nothing, token'[b].left # 0
                PROVE  token'[b].left + retired'[token'[b].from] <= Lifetime + Stall
    BY DEF OldTokensEnd
  <2>1. token'[b] = token[b]
    BY DEF Settles
  <2>2. token[b] \in Token
    BY <2>1, TokensTyped
  <2>3. token[b].left + retired[token[b].from] <= Lifetime + Stall
    BY <2>1 DEF OldTokensEnd
  <2>4. token[b].from \in Passwords /\ token[b].left \in Int
    BY <2>2 DEF Token
  <2>. QED
    BY <1>1, <2>1, <2>3, <2>4 DEF NoOlder
<1>. QED
  BY <1>3, <1>4, <1>5

-----------------------------------------------------------------------------
LEMMA InitInv == Init => Inv
<1>. SUFFICES ASSUME Init PROVE Inv
  OBVIOUS
<1>. USE AuthAssumption DEF Init
<1>1. \A b \in Browsers : job[b].op = "idle"
  BY DEF Idle
<1>2. TypeOK
  BY DEF TypeOK, Job, Horizon
<1>. QED
  BY <1>1, <1>2
  DEF Inv, StoredNow, LoginsRecent, RequestsRecent, OldTokensEnd, Doing

(* A login finds a match only if the password is the stored one. *)
LEMMA ReadHashInv ==
  ASSUME Inv, NEW b \in Browsers, NEW w \in Passwords, ReadHash(b, w)
  PROVE  Inv'
<1>. USE AuthAssumption DEF Inv
<1>1. PICK m \in {hash = w, FALSE} :
        job' = [job EXCEPT ![b] =
                  [op |-> "login", from |-> w, matches |-> m, since |-> 0]]
  BY DEF ReadHash
<1>2. UNCHANGED <<hash, token, retired>>
  BY DEF ReadHash
<1>3. m \in BOOLEAN /\ (m => hash = w)
  OBVIOUS
<1>4. [op |-> "login", from |-> w, matches |-> m, since |-> 0] \in Logins
  BY <1>3 DEF Logins
<1>5. TypeOK'
  BY <1>1, <1>2, <1>4, KindsAreJobs DEF TypeOK
<1>6. LoginsRecent'
  <2>. SUFFICES ASSUME NEW c \in Browsers, Doing(c, "login")', job'[c].matches
                PROVE  retired[job'[c].from] <= job'[c].since
    BY <1>2 DEF LoginsRecent
  <2>1. CASE c = b
    <3>1. job'[b] = [op |-> "login", from |-> w, matches |-> m, since |-> 0]
      BY <1>1 DEF TypeOK
    <3>2. retired[w] = 0
      BY <1>3, <2>1, <3>1 DEF StoredNow
    <3>. QED
      BY <2>1, <3>1, <3>2
  <2>2. CASE c # b
    BY <1>1, <2>2 DEF LoginsRecent, Doing, TypeOK
  <2>. QED
    BY <2>1, <2>2
<1>7. RequestsRecent'
  <2>. SUFFICES ASSUME NEW c \in Browsers,
                       Doing(c, "change")' \/ Doing(c, "other")'
                PROVE  retired[job'[c].from] < Lifetime + Stall + job'[c].since
    BY <1>2 DEF RequestsRecent
  <2>1. job'[c] = job[c]
    BY <1>1 DEF Doing, TypeOK
  <2>. QED
    BY <2>1 DEF RequestsRecent, Doing
<1>. QED
  BY <1>2, <1>5, <1>6, <1>7 DEF StoredNow, OldTokensEnd

(* The token's life begins when the request that read the hash ends. *)
LEMMA IssueInv ==
  ASSUME Inv, NEW b \in Browsers, Issue(b)
  PROVE  Inv'
<1>. USE AuthAssumption DEF Inv
<1>1. /\ token' = [token EXCEPT ![b] = [from |-> job[b].from, left |-> Lifetime]]
      /\ job' = [job EXCEPT ![b] = Idle]
      /\ UNCHANGED <<hash, retired>>
  BY DEF Issue, Answer
<1>2. job[b] \in Logins /\ retired[job[b].from] <= job[b].since
  BY JobKinds DEF Issue, LoginsRecent
<1>3. Idle.op = "idle" /\ Idle \in Job
  BY DEF Idle, Job
<1>4. [from |-> job[b].from, left |-> Lifetime] \in Token
  BY <1>2 DEF Token, Logins
<1>5. TypeOK'
  BY <1>1, <1>3, <1>4 DEF TypeOK
<1>6. LoginsRecent' /\ RequestsRecent'
  BY <1>1, <1>3 DEF LoginsRecent, RequestsRecent, Doing, TypeOK
<1>7. OldTokensEnd'
  <2>. SUFFICES ASSUME NEW c \in Browsers, token'[c] # Nothing, token'[c].left # 0
                PROVE  token'[c].left + retired[token'[c].from] <= Lifetime + Stall
    BY <1>1 DEF OldTokensEnd
  <2>1. CASE c = b
    <3>1. token'[c].left = Lifetime /\ token'[c].from = job[b].from
      BY <1>1, <2>1 DEF TypeOK
    <3>2. job[b].since \in 0 .. Stall /\ retired[job[b].from] \in Int
      BY <1>2 DEF Logins, TypeOK, Horizon
    <3>. QED
      BY <1>2, <3>1, <3>2
  <2>2. CASE c # b
    BY <1>1, <2>2 DEF OldTokensEnd, TypeOK
  <2>. QED
    BY <2>1, <2>2
<1>. QED
  BY <1>1, <1>5, <1>6, <1>7 DEF StoredNow

(* The check lets a token pass only during its life. *)
LEMMA CheckInv ==
  ASSUME Inv, NEW b \in Browsers, token[b] # Nothing,
         NEW request \in Changes \cup Others,
         request.from = token[b].from, request.since = 0, Check(b, request)
  PROVE  Inv'
<1>. USE AuthAssumption DEF Inv
<1>1. /\ job' = [job EXCEPT ![b] = request]
      /\ UNCHANGED <<hash, token, retired>>
      /\ token[b].left > 0
  BY DEF Check
<1>2. TypeOK'
  BY <1>1, KindsAreJobs DEF TypeOK
<1>3. request.op \in {"change", "other"}
  BY DEF Changes, Others
<1>4. LoginsRecent'
  BY <1>1, <1>3 DEF LoginsRecent, Doing, TypeOK
<1>5. RequestsRecent'
  <2>. SUFFICES ASSUME NEW c \in Browsers,
                       Doing(c, "change")' \/ Doing(c, "other")'
                PROVE  retired[job'[c].from] < Lifetime + Stall + job'[c].since
    BY <1>1 DEF RequestsRecent
  <2>1. CASE c = b
    <3>1. token[b].left \in Nat /\ token[b].from \in Passwords
      BY TokensTyped DEF Token
    <3>2. token[b].left + retired[token[b].from] <= Lifetime + Stall
      BY <1>1, <3>1 DEF OldTokensEnd
    <3>3. job'[c] = request /\ retired[token[b].from] \in Int
      BY <1>1, <2>1, <3>1 DEF TypeOK, Horizon
    <3>. QED
      BY <1>1, <3>1, <3>2, <3>3
  <2>2. CASE c # b
    BY <1>1, <2>2 DEF RequestsRecent, Doing, TypeOK
  <2>. QED
    BY <2>1, <2>2
<1>. QED
  BY <1>1, <1>2, <1>4, <1>5 DEF StoredNow, OldTokensEnd

LEMMA ChangeInv ==
  ASSUME Inv, NEW b \in Browsers, Change(b)
  PROVE  Inv'
<1>. USE AuthAssumption DEF Inv
<1>1. /\ hash' = Hash(job[b].new)
      /\ retired' = [w \in Passwords |-> IF w = hash' THEN 0 ELSE retired[w]]
      /\ job' = [job EXCEPT ![b] = Idle]
      /\ token' = token
  BY DEF Change, Answer
<1>2. job[b] \in Changes
  BY JobKinds DEF Change
<1>3. hash' \in Passwords \cup {Nothing}
  BY <1>1, <1>2 DEF Hash, Changes
<1>4. TypeOK'
  BY <1>1, <1>3 DEF TypeOK, Horizon, Job
<1>5. NoOlder /\ StoredNow'
  BY <1>1 DEF NoOlder, StoredNow, TypeOK, Horizon
<1>6. \A c \in Browsers : Settles(c)
  BY <1>1 DEF Settles, TypeOK
<1>. QED
  BY <1>4, <1>5, <1>6, Settled

(* Answers without an effect, and a token thrown away. *)
LEMMA SettlingInv ==
  ASSUME Inv, NEW b \in Browsers,
         Reject(b) \/ ChangeFails(b) \/ Done(b) \/ Forget(b)
  PROVE  Inv'
<1>. USE DEF Inv
<1>1. UNCHANGED <<hash, retired>>
  BY DEF Reject, ChangeFails, Done, Forget
<1>2. /\ job' \in {job, [job EXCEPT ![b] = Idle]}
      /\ token' \in {token, [token EXCEPT ![b] = Nothing]}
  BY DEF Reject, ChangeFails, Done, Forget, Answer
<1>3. TypeOK'
  BY <1>1, <1>2 DEF TypeOK, Job
<1>4. NoOlder /\ StoredNow'
  BY <1>1 DEF NoOlder, StoredNow, TypeOK, Horizon
<1>5. \A c \in Browsers : Settles(c)
  BY <1>2 DEF Settles, TypeOK
<1>. QED
  BY <1>3, <1>4, <1>5, Settled

(* Passwords grow old no faster than requests go on and tokens run out. *)
LEMMA TickInv ==
  ASSUME Inv, Tick
  PROVE  Inv'
<1>. USE AuthAssumption DEF Inv
<1>1. \A w \in Passwords :
        /\ retired[w] \in 0 .. Horizon /\ retired'[w] \in 0 .. Horizon
        /\ retired'[w] <= retired[w] + 1
        /\ w = hash => retired'[w] = retired[w]
  <2>. SUFFICES ASSUME NEW w \in Passwords
                PROVE  /\ retired[w] \in 0 .. Horizon /\ retired'[w] \in 0 .. Horizon
                       /\ retired'[w] <= retired[w] + 1
                       /\ w = hash => retired'[w] = retired[w]
    OBVIOUS
  <2>1. Horizon \in Nat
    BY DEF Horizon
  <2>2. retired[w] \in 0 .. Horizon
    BY DEF TypeOK
  <2>3. retired'[w] = IF w = hash \/ retired[w] = Horizon THEN retired[w]
                      ELSE retired[w] + 1
    BY DEF Tick
  <2>. QED
    BY <2>1, <2>2, <2>3
<1>2. ASSUME NEW b \in Browsers
      PROVE  \/ Doing(b, "idle") /\ job'[b] = Idle
             \/ /\ job[b] \in Logins \cup Changes \cup Others
                /\ job[b].since < Stall
                /\ job'[b] = [job[b] EXCEPT !.since = @ + 1]
  BY <1>2, JobKinds DEF Tick
<1>3. ASSUME NEW b \in Browsers
      PROVE  \/ token'[b] = token[b] /\ (token[b] = Nothing \/ token[b].left = 0)
             \/ /\ token[b] \in Token /\ token[b].left > 0
                /\ token'[b] = [token[b] EXCEPT !.left = @ - 1]
  BY <1>3, TokensTyped DEF Tick, Token
<1>4. ASSUME NEW b \in Browsers, NEW K \in {Logins, Changes, Others},
             job[b] \in K, job[b].since < Stall
      PROVE  [job[b] EXCEPT !.since = @ + 1] \in K
  <2>1. CASE K = Logins
    BY <1>4, <2>1 DEF Logins
  <2>2. CASE K = Changes
    BY <1>4, <2>2 DEF Changes
  <2>3. CASE K = Others
    BY <1>4, <2>3 DEF Others
  <2>. QED
    BY <2>1, <2>2, <2>3
<1>5. job' \in [Browsers -> Job]
  <2>1. job' = [b \in Browsers |-> job'[b]]
    BY DEF Tick
  <2>2. ASSUME NEW b \in Browsers
        PROVE  job'[b] \in Job
    BY <1>2, <1>4, KindsAreJobs
  <2>. QED
    BY <2>1, <2>2
<1>6. token' \in [Browsers -> Token \cup {Nothing}]
  <2>1. token' = [b \in Browsers |-> token'[b]]
    BY DEF Tick
  <2>2. ASSUME NEW b \in Browsers
        PROVE  token'[b] \in Token \cup {Nothing}
    <3>1. token[b] \in Token /\ token[b].left > 0
            => [token[b] EXCEPT !.left = @ - 1] \in Token
      BY DEF Token
    <3>. QED
      BY <1>3, <3>1 DEF TypeOK
  <2>. QED
    BY <2>1, <2>2
<1>7. TypeOK'
  BY <1>1, <1>5, <1>6 DEF Tick, TypeOK
<1>8. StoredNow'
  BY <1>1 DEF StoredNow, Tick
<1>9. LoginsRecent'
  <2>. SUFFICES ASSUME NEW b \in Browsers, Doing(b, "login")', job'[b].matches
                PROVE  retired'[job'[b].from] <= job'[b].since
    BY DEF LoginsRecent
  <2>1. /\ job[b] \in Logins \cup Changes \cup Others
        /\ job'[b] = [job[b] EXCEPT !.since = @ + 1]
    BY <1>2 DEF Doing, Idle
  <2>2. /\ job'[b].op = job[b].op /\ job'[b].from = job[b].from
        /\ job[b].from \in Passwords
        /\ job[b].since \in Int /\ job'[b].since = job[b].since + 1
    BY <2>1 DEF Logins, Changes, Others
  <2>3. Doing(b, "login") /\ job[b] \in Logins
    BY <2>2, JobKinds DEF Doing
  <2>4. job[b].matches
    BY <2>1, <2>3 DEF Logins
  <2>5. retired[job[b].from] <= job[b].since
    BY <2>3, <2>4 DEF LoginsRecent
  <2>. QED
    BY <1>1, <2>2, <2>5
<1>10. RequestsRecent'
  <2>. SUFFICES ASSUME NEW b \in Browsers, Doing(b, "change")' \/ Doing(b, "other")'
                PROVE  retired'[job'[b].from] < Lifetime + Stall + job'[b].since
    BY DEF RequestsRecent
  <2>1. /\ job[b] \in Logins \cup Changes \cup Others
        /\ job'[b] = [job[b] EXCEPT !.since = @ + 1]
    BY <1>2 DEF Doing, Idle
  <2>2. /\ job'[b].op = job[b].op /\ job'[b].from = job[b].from
        /\ job[b].from \in Passwords
        /\ job[b].since \in Int /\ job'[b].since = job[b].since + 1
    BY <2>1 DEF Logins, Changes, Others
  <2>3. retired[job[b].from] < Lifetime + Stall + job[b].since
    BY <2>2 DEF RequestsRecent, Doing
  <2>. QED
    BY <1>1, <2>2, <2>3
<1>11. OldTokensEnd'
  <2>. SUFFICES ASSUME NEW b \in Browsers, token'[b] # Nothing, token'[b].left # 0
                PROVE  token'[b].left + retired'[token'[b].from] <= Lifetime + Stall
    BY DEF OldTokensEnd
  <2>1. /\ token[b] \in Token /\ token[b].left > 0
        /\ token'[b] = [token[b] EXCEPT !.left = @ - 1]
    BY <1>3
  <2>2. token[b] # Nothing => token[b].left + retired[token[b].from] <= Lifetime + Stall
    BY <2>1 DEF OldTokensEnd
  <2>3. CASE token[b] = Nothing
    BY <1>3, <2>3 DEF Tick, TypeOK
  <2>4. CASE token[b] # Nothing
    BY <1>1, <2>1, <2>2, <2>4 DEF Token
  <2>. QED
    BY <2>3, <2>4
<1>. QED
  BY <1>7, <1>8, <1>9, <1>10, <1>11

LEMMA AuthInv == Spec => []Inv
<1>1. Inv /\ [Next]_vars => Inv'
  <2>. SUFFICES ASSUME Inv, [Next]_vars PROVE Inv'
    OBVIOUS
  <2>1. ASSUME NEW b \in Browsers, NEW w \in Passwords \cup {TooLong}, AskChange(b, w)
        PROVE  Inv'
    <3>1. token[b] \in Token /\ token[b] # Nothing
      BY <2>1, TokensTyped DEF AskChange, Inv
    <3>2. [op |-> "change", from |-> token[b].from, new |-> w, since |-> 0] \in Changes
      BY <3>1, AuthAssumption DEF Token, Changes
    <3>. QED
      BY <2>1, <3>1, <3>2, CheckInv DEF AskChange
  <2>2. ASSUME NEW b \in Browsers, AskOther(b)
        PROVE  Inv'
    <3>1. token[b] \in Token /\ token[b] # Nothing
      BY <2>2, TokensTyped DEF AskOther, Inv
    <3>2. [op |-> "other", from |-> token[b].from, since |-> 0] \in Others
      BY <3>1, AuthAssumption DEF Token, Others
    <3>. QED
      BY <2>2, <3>1, <3>2, CheckInv DEF AskOther
  <2>3. CASE UNCHANGED vars
    BY <2>3
    DEF vars, Inv, TypeOK, StoredNow, LoginsRecent, RequestsRecent, OldTokensEnd, Doing
  <2>. QED
    BY <2>1, <2>2, <2>3, ReadHashInv, IssueInv, ChangeInv, SettlingInv, TickInv DEF Next
<1>. QED
  BY InitInv, <1>1, PTL DEF Spec

-----------------------------------------------------------------------------
(* Every variable keeps its type: no request and no token is counted below *)
(* zero, and no more than the empty hash comes of a password that bcrypt   *)
(* refuses (handlers.go, ChangePassword).                                  *)
THEOREM AuthTypeOK == Spec => []TypeOK
BY AuthInv, PTL DEF Inv

(* A token of a password that was changed runs out at most the lifetime of *)
(* a token and the duration of a login after the change (handlers.go,      *)
(* Login).                                                                 *)
THEOREM AuthOldTokensEnd == Spec => []OldTokensEnd
BY AuthInv, PTL DEF Inv

(* And nothing is changed for its holder later than the duration of one    *)
(* more request after that (auth.go, Auth).                                *)
THEOREM AuthEffectsJustified == Spec => []EffectsJustified
<1>1. Inv => EffectsJustified
  <2>. SUFFICES ASSUME Inv, NEW b \in Browsers,
                       Doing(b, "change") \/ Doing(b, "other")
                PROVE  retired[job[b].from] < Lifetime + 2 * Stall
    BY DEF EffectsJustified
  <2>1. job[b] \in Changes \cup Others
    BY JobKinds DEF Inv
  <2>2. job[b].since \in 0 .. Stall /\ job[b].from \in Passwords
    BY <2>1 DEF Changes, Others
  <2>3. retired[job[b].from] < Lifetime + Stall + job[b].since
    BY DEF Inv, RequestsRecent
  <2>4. retired[job[b].from] \in Int
    BY <2>2 DEF Inv, TypeOK, Horizon
  <2>. QED
    BY <2>2, <2>3, <2>4, AuthAssumption
<1>. QED
  BY AuthInv, <1>1, PTL
=============================================================================
