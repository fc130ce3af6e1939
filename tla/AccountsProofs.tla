--------------------------- MODULE AccountsProofs ---------------------------
(***************************************************************************)
(* Proofs about Accounts: type correctness, that the users' cache and the  *)
(* settings' cache agree with their rows but where a race explains it, and *)
(* that tokens end with the password they were given out under, for any    *)
(* number of requests at a time, passwords, keys and values.               *)
(***************************************************************************)
EXTENDS Accounts, TLAPS

-----------------------------------------------------------------------------
(* Type correctness.                                                       *)

\* What kind of request is at a point.
KindAt(o) ==
    /\ o.pc = "swrite" => o.kind = "set"
    /\ o.pc = "change" => o.kind \in {"passwd", "validate"}
    /\ o.pc = "find" => o.kind = "update"
    /\ o.pc = "write" => o.kind \in {"passwd", "validate", "update"}
    /\ o.pc = "sput" => o.kind \in {"get", "getPrefs", "set"}
    /\ o.pc \in {"sget", "squery"} => o.kind \in {"get", "getPrefs"}

Typed == TypeOK /\ \A p \in Procs : KindAt(op[p])

LEMMA Numbers ==
    /\ MaxClock \in Nat /\ Second \in Nat /\ Second > 0
    /\ MaxOps \in Nat /\ MaxFaults \in Nat
    /\ 0 \in Times
BY AccountsAssumption DEF Times

LEMMA Claims == ASSUME NEW t \in Times PROVE IssuedAt(t) \in Times /\ IssuedAt(t) <= t
BY Numbers DEF Times, IssuedAt

LEMMA TokenType == clock \in Times => Token \in Tokens
BY Claims DEF Token, Tokens

LEMMA ConstantTypes ==
    /\ NoUser \in Records /\ NoEntry \in Entries
    /\ \A w \in Passwords \cup {Blank}, t \in Times : User(w, t, 0) \in Records
BY Numbers DEF NoUser, NoEntry, Entries, Records, User

\* A request begins, goes on, or ends with the type of a request.
LEMMA IdleOK == RequestOK(Idle) /\ KindAt(Idle)
BY Numbers, ConstantTypes DEF RequestOK, Idle, KindAt, Kinds, Points, ArgsOf

LEMMA StepOK ==
    ASSUME Typed, NEW p \in Procs, NEW o, RequestOK(o), KindAt(o),
           op' = [op EXCEPT ![p] = o]
    PROVE  DOMAIN op' = Procs /\ \A q \in Procs : RequestOK(op'[q]) /\ KindAt(op'[q])
BY DEF Typed, TypeOK

LEMMA BeginsOK ==
    ASSUME Typed, NEW p \in Procs, NEW kind \in Kinds, NEW pc \in Points,
           NEW arg \in ArgsOf(kind), Begins(p, kind, pc, arg),
           pc = "swrite" => kind = "set", pc = "find" => kind = "update",
           pc = "sget" => kind \in {"get", "getPrefs"},
           pc \notin {"change", "write", "sput", "squery"}
    PROVE  Typed'
<1> DEFINE o == [kind |-> kind, pc |-> pc, arg |-> arg, rec |-> NoUser, ent |-> NoEntry,
                 since |-> row.setAt]
<1>1. RequestOK(o) /\ KindAt(o)
  BY ConstantTypes DEF RequestOK, KindAt, Typed, TypeOK, Records
<1>2. DOMAIN op' = Procs /\ \A q \in Procs : RequestOK(op'[q]) /\ KindAt(op'[q])
  BY <1>1, StepOK DEF Begins
<1>3. QED
  BY <1>2, Numbers DEF Begins, Typed, TypeOK, users, setting

LEMMA TokensOK == Typed => tokens \subseteq Tokens
BY DEF Typed, TypeOK

LEMMA BeginTyped == ASSUME Typed, NEW p \in Procs, Begin(p) PROVE Typed'
<1> USE BeginsOK DEF Kinds, Points, ArgsOf
<1>1. CASE BeginRead(p)
  BY <1>1 DEF BeginRead
<1>2. CASE BeginRefresh(p)
  BY <1>2, TokensOK DEF BeginRefresh
<1>3. CASE BeginLogin(p)
  BY <1>3 DEF BeginLogin
<1>4. CASE BeginPasswd(p)
  BY <1>4 DEF BeginPasswd
<1>5. CASE BeginUpdate(p)
  BY <1>5 DEF BeginUpdate
<1>6. CASE BeginNewKey(p)
  BY <1>6 DEF BeginNewKey
<1>7. CASE BeginUseKey(p)
  BY <1>7 DEF BeginUseKey
<1>8. CASE BeginGet(p)
  BY <1>8 DEF BeginGet
<1>9. CASE BeginGetPrefs(p)
  BY <1>9 DEF BeginGetPrefs
<1>10. CASE BeginSet(p)
  BY <1>10 DEF BeginSet
<1>11. CASE BeginDelete(p)
  BY <1>11 DEF BeginDelete
<1>12. QED
  BY <1>1, <1>2, <1>3, <1>4, <1>5, <1>6, <1>7, <1>8, <1>9, <1>10, <1>11 DEF Begin

LEMMA GoesOK ==
    ASSUME Typed, NEW p \in Procs, NEW pc \in Points, Goes(p, pc),
           KindAt([op[p] EXCEPT !.pc = pc])
    PROVE  DOMAIN op' = Procs /\ \A q \in Procs : RequestOK(op'[q]) /\ KindAt(op'[q])
<1> DEFINE o == [op[p] EXCEPT !.pc = pc]
<1>1. RequestOK(o)
  BY DEF Typed, TypeOK, RequestOK
<1>2. op' = [op EXCEPT ![p] = o]
  BY DEF Goes
<1>3. QED
  BY <1>1, <1>2, StepOK

LEMMA EndsOK ==
    ASSUME Typed, NEW p \in Procs, Ends(p)
    PROVE  DOMAIN op' = Procs /\ \A q \in Procs : RequestOK(op'[q]) /\ KindAt(op'[q])
BY IdleOK, StepOK DEF Ends

\* The types of everything but the requests.
DataOK ==
    /\ clock \in Times /\ ops \in 0 .. MaxOps /\ faults \in 0 .. MaxFaults
    /\ row \in Records /\ cache \in Records /\ lock \in Procs \cup {Nobody}
    /\ suspect \in BOOLEAN /\ ssuspect \in BOOLEAN
    /\ tokens \subseteq Tokens /\ key \in Keys \cup {NoKey}
    /\ srow \in Values \cup {NoValue} /\ scache \in Entries

LEMMA Parts ==
    Typed <=> /\ DataOK
              /\ DOMAIN op = Procs /\ \A p \in Procs : RequestOK(op[p]) /\ KindAt(op[p])
BY DEF Typed, TypeOK, DataOK

LEMMA PartsNext ==
    Typed' <=> /\ DataOK'
               /\ DOMAIN op' = Procs /\ \A p \in Procs : RequestOK(op'[p]) /\ KindAt(op'[p])
BY DEF Typed, TypeOK, DataOK

LEMMA FaultOK == ASSUME DataOK, Fault \/ UNCHANGED faults PROVE faults' \in 0 .. MaxFaults
BY Numbers DEF DataOK, Fault

LEMMA StepTyped == ASSUME Typed, NEW p \in Procs, Step(p) PROVE Typed'
<1> SUFFICES /\ DataOK'
             /\ DOMAIN op' = Procs /\ \A q \in Procs : RequestOK(op'[q]) /\ KindAt(op'[q])
  BY PartsNext
<1>a. DataOK /\ DOMAIN op = Procs /\ RequestOK(op[p]) /\ KindAt(op[p])
  BY Parts
<1> USE DEF At, Doing, users, setting
<1>1. CASE Hit(p)
  <2> DEFINE since == IF suspect THEN 0 ELSE op[p].since
             o == [op[p] EXCEPT !.rec = cache, !.pc = "got", !.since = since]
  <2>1. since \in Times /\ cache \in Records
    BY <1>a, Numbers DEF RequestOK, DataOK
  <2>2. RequestOK(o) /\ KindAt(o)
    <3> HIDE DEF since
    <3> QED  BY <1>a, <2>1 DEF RequestOK, KindAt, Points
  <2>3. op' = [op EXCEPT ![p] = o]
    BY <1>1 DEF Hit
  <2>4. DataOK'
    BY <1>a, <1>1 DEF Hit, DataOK
  <2>5. QED
    BY <2>2, <2>3, <2>4, StepOK
<1>2. CASE Miss(p)
  <2>1. DataOK'
    BY <1>a, <1>2, FaultOK, TokenType, Numbers DEF Miss, DataOK
  <2>2. QED
    BY <1>a, <1>2, <2>1, GoesOK, EndsOK DEF Miss, KindAt, Points
<1>3. CASE Query(p)
  <2>1. DataOK'
    BY <1>a, <1>3, FaultOK DEF Query, DataOK, GetUserByUsername
  <2>2. CASE Ends(p)
    BY <2>1, <2>2, EndsOK
  <2>3. CASE op' = [op EXCEPT ![p].rec = row, ![p].pc = "put"]
    <3> DEFINE o == [op[p] EXCEPT !.rec = row, !.pc = "put"]
    <3>1. RequestOK(o) /\ KindAt(o)
      BY <1>a DEF RequestOK, KindAt, Points, DataOK
    <3>2. op' = [op EXCEPT ![p] = o]
      BY <2>3
    <3>3. QED
      BY <2>1, <3>1, <3>2, StepOK
  <2>4. QED
    BY <1>3, <2>2, <2>3 DEF Query, GetUserByUsername
<1>4. CASE Put(p)
  <2>1. DataOK'
    BY <1>a, <1>4, FaultOK, TokenType, Numbers DEF Put, DataOK, RequestOK
  <2>2. QED
    BY <1>a, <1>4, <2>1, GoesOK, EndsOK DEF Put, KindAt, Points
<1>5. CASE Answer(p)
  <2>1. DataOK'
    BY <1>a, <1>5, FaultOK, TokenType, Numbers DEF Answer, DataOK
  <2>2. QED
    BY <1>a, <1>5, <2>1, GoesOK, EndsOK DEF Answer, KindAt, Points
<1>6. CASE Refresh(p)
  <2>1. DataOK'
    BY <1>a, <1>6, FaultOK, TokenType, Numbers DEF Refresh, DataOK
  <2>2. QED
    BY <1>a, <1>6, <2>1, GoesOK, EndsOK DEF Refresh, KindAt, Points
<1>7. CASE Login(p)
  <2>1. DataOK'
    BY <1>a, <1>7, FaultOK, TokenType, Numbers DEF Login, DataOK
  <2>2. QED
    BY <1>a, <1>7, <2>1, GoesOK, EndsOK DEF Login, KindAt, Points
<1>8. CASE RecordLogin(p)
  <2>1. DataOK'
    BY <1>a, <1>8, FaultOK, TokenType, Numbers DEF RecordLogin, DataOK, RecordUserLogin, Records
  <2>2. QED
    BY <1>a, <1>8, <2>1, GoesOK, EndsOK DEF RecordLogin, KindAt, Points
<1>9. CASE NewRefreshToken(p)
  <2>1. DataOK'
    BY <1>a, <1>9, FaultOK, TokenType, Numbers DEF NewRefreshToken, DataOK
  <2>2. QED
    BY <1>a, <1>9, <2>1, GoesOK, EndsOK DEF NewRefreshToken, KindAt, Points
<1>10. CASE Passwd(p)
  <2>1. DataOK'
    BY <1>a, <1>10, FaultOK DEF Passwd, DataOK
  <2>2. CASE Ends(p)
    BY <2>1, <2>2, EndsOK
  <2>3. CASE op' = [op EXCEPT ![p].kind = "validate", ![p].pc = "get"]
    <3> DEFINE o == [op[p] EXCEPT !.kind = "validate", !.pc = "get"]
    <3>1. RequestOK(o) /\ KindAt(o)
      BY <1>a, <1>10 DEF Passwd, RequestOK, KindAt, Points, Kinds, ArgsOf
    <3>2. op' = [op EXCEPT ![p] = o]
      BY <2>3
    <3>3. QED
      BY <2>1, <3>1, <3>2, StepOK
  <2>4. CASE Goes(p, "change")
    BY <1>a, <1>10, <2>1, <2>4, GoesOK DEF Passwd, KindAt, Points, RequestOK
  <2>5. QED
    BY <1>10, <2>2, <2>3, <2>4 DEF Passwd
<1>11. CASE Validate(p)
  <2>1. DataOK'
    BY <1>a, <1>11, FaultOK, TokenType, Numbers DEF Validate, DataOK
  <2>2. QED
    BY <1>a, <1>11, <2>1, GoesOK, EndsOK DEF Validate, KindAt, Points
<1>12. CASE ChangePassword(p)
  <2>1. DataOK'
    BY <1>a, <1>12, ConstantTypes DEF ChangePassword, DataOK, DeleteAndHoldLock
  <2>2. QED
    BY <1>a, <1>12, <2>1, GoesOK, EndsOK DEF ChangePassword, KindAt, Points
<1>13. CASE WritePassword(p)
  <2>a. row' \in Records
    BY <1>a, <1>13 DEF WritePassword, DataOK, UpdatePassword, Records, NewPlainPassword
  <2>1. DataOK'
    BY <1>a, <1>13, <2>a, FaultOK DEF WritePassword, DataOK, PutsPending
  <2>2. QED
    BY <1>a, <1>13, <2>1, GoesOK, EndsOK DEF WritePassword, KindAt, Points
<1>14. CASE FindUser(p)
  <2>1. DataOK'
    BY <1>a, <1>14, FaultOK, TokenType, Numbers DEF FindUser, DataOK
  <2>2. QED
    BY <1>a, <1>14, <2>1, GoesOK, EndsOK DEF FindUser, KindAt, Points
<1>15. CASE UpdateUser(p)
  <2>1. row' \in Records
    BY <1>a, <1>15 DEF UpdateUser, DataOK, Records, UpdateUserRow
  <2>2. DataOK'
    BY <1>a, <1>15, <2>1, FaultOK DEF UpdateUser, DataOK, PutsPending
  <2> DEFINE o == [op[p] EXCEPT !.rec = row', !.pc = "put"]
  <2>3. RequestOK(o) /\ KindAt(o)
    BY <1>a, <2>1 DEF RequestOK, KindAt, Points
  <2>4. op' = [op EXCEPT ![p] = o] \/ Ends(p)
    BY <1>15 DEF UpdateUser
  <2>5. QED
    BY <1>a, <2>2, <2>3, <2>4, StepOK, EndsOK
<1>16. CASE CreateAPIKey(p)
  <2>1. DataOK'
    BY <1>a, <1>16, FaultOK, TokenType, Numbers DEF CreateAPIKey, InsertKey, DataOK, RequestOK, ArgsOf
  <2>2. QED
    BY <1>a, <1>16, <2>1, GoesOK, EndsOK DEF CreateAPIKey, KindAt, Points
<1>17. CASE GetAPIKey(p)
  <2>1. DataOK'
    BY <1>a, <1>17, FaultOK, TokenType, Numbers DEF GetAPIKey, DataOK
  <2>2. QED
    BY <1>a, <1>17, <2>1, GoesOK, EndsOK DEF GetAPIKey, KindAt, Points
<1>18. CASE GetCached(p)
  <2>1. DataOK'
    BY <1>a, <1>18, FaultOK, TokenType, Numbers DEF GetCached, DataOK
  <2>2. QED
    BY <1>a, <1>18, <2>1, GoesOK, EndsOK DEF GetCached, KindAt, Points
<1>19. CASE FetchSetting(p)
  <2>1. DataOK'
    BY <1>a, <1>19, FaultOK DEF FetchSetting, DataOK
  <2>2. CASE Ends(p)
    BY <2>1, <2>2, EndsOK
  <2>3. ASSUME NEW val \in Values \cup {Nil}, Fetched(p, val)
        PROVE  DOMAIN op' = Procs /\ \A q \in Procs : RequestOK(op'[q]) /\ KindAt(op'[q])
    <3> DEFINE ent == Entry(val, op[p].kind = "getPrefs")
               o == [op[p] EXCEPT !.ent = ent, !.pc = "sput"]
    <3>1. ent \in Entries
      BY DEF Entry, Entries
    <3>2. RequestOK(o) /\ KindAt(o)
      <4> HIDE DEF ent
      <4> QED  BY <1>a, <1>19, <3>1 DEF FetchSetting, RequestOK, KindAt, Points
    <3>3. op' = [op EXCEPT ![p] = o]
      BY <2>3 DEF Fetched
    <3>4. QED
      BY <3>2, <3>3, StepOK
  <2>4. srow # NoValue => srow \in Values
    BY <1>a DEF DataOK
  <2>5. QED
    BY <1>19, <2>1, <2>2, <2>3, <2>4 DEF FetchSetting
<1>20. CASE PutSetting(p)
  <2>1. DataOK'
    BY <1>a, <1>20, FaultOK, TokenType, Numbers DEF PutSetting, DataOK, RequestOK
  <2>2. QED
    BY <1>a, <1>20, <2>1, GoesOK, EndsOK DEF PutSetting, KindAt, Points
<1>21. CASE SetSetting(p)
  <2>1. op[p].arg \in Values
    BY <1>a, <1>21 DEF SetSetting, KindAt, RequestOK, ArgsOf
  <2>2. DataOK'
    BY <1>a, <1>21, <2>1, FaultOK DEF SetSetting, DataOK
  <2>3. CASE Ends(p)
    BY <2>2, <2>3, EndsOK
  <2>4. CASE SetThenCaches(p)
    <3> DEFINE ent == Entry(op[p].arg, FALSE)
               o == [op[p] EXCEPT !.ent = ent, !.pc = "sput"]
    <3>1. ent \in Entries
      BY <2>1 DEF Entry, Entries
    <3>2. RequestOK(o) /\ KindAt(o)
      <4> HIDE DEF ent
      <4> QED  BY <1>a, <1>21, <3>1 DEF SetSetting, RequestOK, KindAt, Points
    <3>3. op' = [op EXCEPT ![p] = o]
      BY <2>4 DEF SetThenCaches
    <3>4. QED
      BY <2>2, <3>2, <3>3, StepOK
  <2>5. QED
    BY <1>21, <2>3, <2>4 DEF SetSetting
<1>22. CASE Uncache(p)
  <2>1. DataOK'
    BY <1>a, <1>22, FaultOK, TokenType, Numbers DEF Uncache, DataOK, NoEntry, Entries
  <2>2. QED
    BY <1>a, <1>22, <2>1, GoesOK, EndsOK DEF Uncache, KindAt, Points
<1>23. CASE DeleteSetting(p)
  <2>1. DataOK'
    BY <1>a, <1>23, FaultOK, TokenType, Numbers DEF DeleteSetting, DataOK
  <2>2. QED
    BY <1>a, <1>23, <2>1, GoesOK, EndsOK DEF DeleteSetting, KindAt, Points
<1>24. QED
  BY <1>1, <1>2, <1>3, <1>4, <1>5, <1>6, <1>7, <1>8, <1>9, <1>10, <1>11, <1>12, <1>13, <1>14, <1>15, <1>16, <1>17, <1>18, <1>19, <1>20, <1>21, <1>22, <1>23 DEF Step

LEMMA BesideTyped == ASSUME Typed, Beside PROVE Typed'
<1> SUFFICES /\ DataOK'
             /\ DOMAIN op' = Procs /\ \A q \in Procs : RequestOK(op'[q]) /\ KindAt(op'[q])
  BY PartsNext
<1> USE Parts, Numbers DEF DataOK, users, setting, vars
<1>1. CASE Tick
  BY <1>1 DEF Tick, Times
<1>2. CASE CLIAddUser
  <2>1. row' = User(Blank, clock, 0) /\ ops' \in 0 .. MaxOps
    BY <1>2 DEF CLIAddUser, AddUser, CreateUser, NewPlainPassword
  <2>2. row' \in Records
    BY <2>1, ConstantTypes
  <2>3. QED
    BY <1>2, <2>1, <2>2 DEF CLIAddUser
<1>3. CASE CLIPasswd
  <2>1. row' \in Records
    BY <1>3 DEF CLIPasswd, NewPlainPassword, UpdatePassword, Records
  <2>2. ops' \in 0 .. MaxOps /\ suspect' \in BOOLEAN
    BY <1>3 DEF CLIPasswd
  <2>3. QED
    BY <1>3, <2>1, <2>2 DEF CLIPasswd
<1>4. CASE HUP
  BY <1>4, ConstantTypes DEF HUP
<1>5. CASE Rest
  BY <1>5 DEF Rest
<1>6. QED
  BY <1>1, <1>2, <1>3, <1>4, <1>5 DEF Beside

LEMMA InitTyped == Init => Typed
<1> SUFFICES ASSUME Init PROVE Typed
  OBVIOUS
<1>1. DOMAIN op = Procs /\ \A p \in Procs : op[p] = Idle
  BY DEF Init
<1>2. DataOK
  <2>1. row \in Records
    BY ConstantTypes, Numbers, AccountsAssumption DEF Init
  <2>2. tokens \subseteq Tokens
    BY TokenType, Numbers DEF Init
  <2>3. cache \in Records /\ scache \in Entries
    BY ConstantTypes DEF Init
  <2>4. clock \in Times /\ ops \in 0 .. MaxOps /\ faults \in 0 .. MaxFaults
    BY Numbers DEF Init
  <2>5. QED
    BY <2>1, <2>2, <2>3, <2>4 DEF Init, DataOK
<1>3. QED
  BY <1>1, <1>2, IdleOK, Parts

LEMMA NextTyped == ASSUME Typed, [Next]_vars PROVE Typed'
<1>1. CASE Next
  BY <1>1, BesideTyped, BeginTyped, StepTyped DEF Next
<1>2. CASE UNCHANGED vars
  BY <1>2, Parts, PartsNext DEF vars, users, setting, DataOK
<1>3. QED
  BY <1>1, <1>2

LEMMA AlwaysTyped == Spec => []Typed
<1>1. QED
  BY InitTyped, NextTyped, PTL DEF Spec

\* Every variable keeps its type.
THEOREM TypeCorrect == Spec => []TypeOK
<1>1. Typed => TypeOK
  BY DEF Typed
<1>2. QED
  BY <1>1, AlwaysTyped, PTL

-----------------------------------------------------------------------------
(* The users' cache and the tokens.                                        *)

Same(r) == r.pw = row.pw /\ r.setAt = row.setAt /\ r.mail = row.mail
Changes(o) == o.pc = "write" /\ o.kind \in {"passwd", "validate"}

\* Who is to write a password holds the lock, over an empty cache.
LockHeld ==
    /\ \A p \in Procs : Changes(op[p]) <=> lock = p
    /\ lock # Nobody => ~cache.there

\* What was read of a row is of a row that is there, and rows stay.
RowThere ==
    /\ cache.there => row.there
    /\ \A p \in Procs : At(p, "put") \/ Doing(p, "update", "write") => row.there

\* What is about to be cached is the row, unless a write came between.
PutsAgree == \A p \in Procs : At(p, "put") => suspect \/ Same(op[p].rec)

\* Passwords are set at rising times, and a record that a request has was set no
\* earlier than the row's when the request began.
SinceAgrees ==
    /\ row.setAt <= clock
    /\ \A p \in Procs :
          /\ op[p].since <= row.setAt
          /\ op[p].pc \in {"put", "got"} => op[p].since <= op[p].rec.setAt

UsersInv ==
    Typed /\ LockHeld /\ RowThere /\ PutsAgree /\ UsersAgree /\ SinceAgrees

LEMMA Compare ==
    ASSUME Typed
    PROVE  /\ clock \in Nat /\ row.setAt \in Nat /\ cache.setAt \in Nat
           /\ \A p \in Procs : op[p].since \in Nat /\ op[p].rec.setAt \in Nat
BY Parts, Numbers DEF DataOK, RequestOK, Records, Times

\* A step that leaves the users and their cache alone, and neither reads a record
\* nor is about to write one.
Quiet(p) ==
    /\ UNCHANGED <<users, clock>>
    /\ \A q \in Procs \ {p} : op'[q] = op[q]
    /\ op'[p].pc \notin {"put", "got", "write"}
    /\ op'[p].since \in {0, op[p].since, row.setAt}
    /\ op[p].pc \notin {"put", "write"}

LEMMA QuietUsers == ASSUME UsersInv, Typed', NEW p \in Procs, Quiet(p) PROVE UsersInv'
<1> USE DEF UsersInv, Quiet, users, At, Doing
<1>1. LockHeld'
  <2>1. ~Changes(op[p]) /\ ~Changes(op'[p])
    BY DEF Changes
  <2>2. QED
    BY <2>1 DEF LockHeld
<1>2. RowThere' /\ PutsAgree' /\ UsersAgree'
  BY DEF RowThere, PutsAgree, UsersAgree, Same
<1>3. SinceAgrees'
  BY Compare DEF SinceAgrees
<1>4. QED
  BY <1>1, <1>2, <1>3

LEMMA GoesTo ==
    ASSUME Typed, NEW p \in Procs, NEW pc, Goes(p, pc)
    PROVE  /\ \A q \in Procs \ {p} : op'[q] = op[q]
           /\ op'[p] = [op[p] EXCEPT !.pc = pc]
           /\ op'[p].pc = pc /\ op'[p].kind = op[p].kind /\ op'[p].since = op[p].since
           /\ op'[p].rec = op[p].rec
BY Parts DEF Goes, RequestOK

LEMMA EndsAt ==
    ASSUME Typed, NEW p \in Procs, Ends(p)
    PROVE  /\ \A q \in Procs \ {p} : op'[q] = op[q]
           /\ op'[p].pc = "idle" /\ op'[p].since = 0 /\ op'[p].kind = "none"
BY Parts DEF Ends, Idle

LEMMA BeginsAt ==
    ASSUME Typed, NEW p \in Procs, NEW kind, NEW pc, NEW arg, Begins(p, kind, pc, arg),
           pc \notin {"put", "got", "write"}
    PROVE  Quiet(p)
BY Parts DEF Begins, Quiet, At

LEMMA BeginQuiet == ASSUME Typed, NEW p \in Procs, Begin(p) PROVE Quiet(p)
<1>1. CASE BeginRead(p)
  BY <1>1, BeginsAt DEF BeginRead
<1>2. CASE BeginRefresh(p)
  BY <1>2, BeginsAt DEF BeginRefresh
<1>3. CASE BeginLogin(p)
  BY <1>3, BeginsAt DEF BeginLogin
<1>4. CASE BeginPasswd(p)
  BY <1>4, BeginsAt DEF BeginPasswd
<1>5. CASE BeginUpdate(p)
  BY <1>5, BeginsAt DEF BeginUpdate
<1>6. CASE BeginNewKey(p)
  BY <1>6, BeginsAt DEF BeginNewKey
<1>7. CASE BeginUseKey(p)
  BY <1>7, BeginsAt DEF BeginUseKey
<1>8. CASE BeginGet(p)
  BY <1>8, BeginsAt DEF BeginGet
<1>9. CASE BeginGetPrefs(p)
  BY <1>9, BeginsAt DEF BeginGetPrefs
<1>10. CASE BeginSet(p)
  BY <1>10, BeginsAt DEF BeginSet
<1>11. CASE BeginDelete(p)
  BY <1>11, BeginsAt DEF BeginDelete
<1>12. QED
  BY <1>1, <1>2, <1>3, <1>4, <1>5, <1>6, <1>7, <1>8, <1>9, <1>10, <1>11 DEF Begin

QuietStep(p) ==
    \/ Miss(p) \/ Answer(p) \/ Refresh(p) \/ Login(p) \/ NewRefreshToken(p)
    \/ Passwd(p) \/ Validate(p) \/ CreateAPIKey(p) \/ GetAPIKey(p)
    \/ GetCached(p) \/ FetchSetting(p) \/ PutSetting(p)
    \/ SetSetting(p) \/ Uncache(p) \/ DeleteSetting(p)

LEMMA StepQuiet == ASSUME Typed, NEW p \in Procs, QuietStep(p) PROVE Quiet(p)
<1> USE DEF Quiet, At, Doing, users
<1>1. CASE Miss(p)
  BY <1>1, Parts DEF Miss, Goes, Ends, Idle, RequestOK
<1>2. CASE Answer(p)
  BY <1>2, Parts DEF Answer, Goes, Ends, Idle, RequestOK
<1>3. CASE Refresh(p)
  BY <1>3, Parts DEF Refresh, Goes, Ends, Idle, RequestOK
<1>4. CASE Login(p)
  BY <1>4, Parts DEF Login, Goes, Ends, Idle, RequestOK
<1>5. CASE NewRefreshToken(p)
  BY <1>5, Parts DEF NewRefreshToken, Goes, Ends, Idle, RequestOK
<1>6. CASE Passwd(p)
  BY <1>6, Parts DEF Passwd, RequestOK, Goes, Ends, Idle
<1>7. CASE Validate(p)
  BY <1>7, Parts DEF Validate, Goes, Ends, Idle, RequestOK
<1>8. CASE CreateAPIKey(p)
  BY <1>8, Parts DEF CreateAPIKey, Goes, Ends, Idle, RequestOK
<1>9. CASE GetAPIKey(p)
  BY <1>9, Parts DEF GetAPIKey, Goes, Ends, Idle, RequestOK
<1>10. CASE GetCached(p)
  BY <1>10, Parts DEF GetCached, Goes, Ends, Idle, RequestOK
<1>11. CASE FetchSetting(p)
  BY <1>11, Parts DEF FetchSetting, Fetched, Goes, Ends, Idle, RequestOK
<1>12. CASE PutSetting(p)
  BY <1>12, Parts DEF PutSetting, Goes, Ends, Idle, RequestOK
<1>13. CASE SetSetting(p)
  <2>1. CASE Ends(p)
    BY <1>13, <2>1, Parts DEF SetSetting, Ends, Idle
  <2>2. CASE SetThenCaches(p)
    <3> DEFINE ent == Entry(op[p].arg, FALSE)
    <3>1. op' = [op EXCEPT ![p].ent = ent, ![p].pc = "sput"]
      BY <2>2 DEF SetThenCaches
    <3> HIDE DEF ent
    <3>2. QED
      BY <1>13, <3>1, Parts DEF SetSetting, RequestOK
  <2>3. QED
    BY <1>13, <2>1, <2>2 DEF SetSetting
<1>14. CASE Uncache(p)
  BY <1>14, Parts DEF Uncache, Goes, Ends, Idle, RequestOK
<1>15. CASE DeleteSetting(p)
  BY <1>15, Parts DEF DeleteSetting, Goes, Ends, Idle, RequestOK
<1>16. QED
  BY <1>1, <1>2, <1>3, <1>4, <1>5, <1>6, <1>7, <1>8, <1>9, <1>10, <1>11, <1>12, <1>13, <1>14, <1>15 DEF QuietStep

LEMMA HitUsers == ASSUME UsersInv, Typed', NEW p \in Procs, Hit(p) PROVE UsersInv'
<1> USE DEF UsersInv, Hit, users, At, Doing
<1> DEFINE since == IF suspect THEN 0 ELSE op[p].since
<1>1. /\ \A q \in Procs \ {p} : op'[q] = op[q]
      /\ op'[p].pc = "got" /\ op'[p].rec = cache /\ op'[p].since = since
      /\ op'[p].kind = op[p].kind
  BY Parts DEF RequestOK
<1>2. LockHeld' /\ RowThere' /\ PutsAgree' /\ UsersAgree'
  <2>1. LockHeld' /\ RowThere'
    BY <1>1 DEF LockHeld, Changes, RowThere
  <2>2. PutsAgree'
    <3>1. ASSUME NEW q \in Procs, At(q, "put")' PROVE (suspect \/ Same(op[q].rec))'
      <4>1. q # p /\ op'[q] = op[q]
        BY <1>1, <3>1
      <4>2. At(q, "put")
        BY <3>1, <4>1
      <4>3. suspect \/ Same(op[q].rec)
        BY <4>2 DEF PutsAgree
      <4>4. row' = row /\ suspect' = suspect
        OBVIOUS
      <4>5. QED
        BY <4>1, <4>3, <4>4 DEF Same
    <3>2. QED
      BY <3>1 DEF PutsAgree
  <2>3. ASSUME NEW q \in Procs, Doing(q, "update", "put") PROVE Doing(q, "update", "put")'
    BY <1>1, <2>3
  <2>4. UsersAgree'
    BY <2>3 DEF UsersAgree
  <2>5. QED
    BY <2>1, <2>2, <2>4
<1>3. since <= cache.setAt /\ since <= row.setAt
  BY Compare DEF UsersAgree, SinceAgrees
<1>4. SinceAgrees'
  BY <1>1, <1>3 DEF SinceAgrees
<1>5. QED
  BY <1>2, <1>4

LEMMA QueryUsers == ASSUME UsersInv, Typed', NEW p \in Procs, Query(p) PROVE UsersInv'
<1>1. CASE Ends(p)
  <2>1. Quiet(p)
    BY <1>1, Parts DEF Query, Ends, Idle, Quiet, At, UsersInv
  <2>2. QED
    BY <2>1, QuietUsers
<1>2. CASE row.there /\ op' = [op EXCEPT ![p].rec = row, ![p].pc = "put"]
  <2> USE DEF UsersInv, Query, GetUserByUsername, users, At, Doing
  <2>1. /\ \A q \in Procs \ {p} : op'[q] = op[q]
        /\ op'[p].pc = "put" /\ op'[p].rec = row /\ op'[p].since = op[p].since
        /\ op'[p].kind = op[p].kind
    BY <1>2, Parts DEF RequestOK
  <2>2. LockHeld' /\ RowThere'
    BY <1>2, <2>1 DEF LockHeld, Changes, RowThere
  <2>3. PutsAgree'
    <3>1. ASSUME NEW q \in Procs, At(q, "put")' PROVE (suspect \/ Same(op[q].rec))'
      <4>1. CASE q = p
        BY <1>2, <2>1, <4>1 DEF Same
      <4>2. CASE q # p
        BY <2>1, <3>1, <4>2 DEF PutsAgree, Same
      <4>3. QED
        BY <4>1, <4>2
    <3>2. QED
      BY <3>1 DEF PutsAgree
  <2>4. ASSUME NEW q \in Procs, Doing(q, "update", "put") PROVE Doing(q, "update", "put")'
    BY <2>1, <2>4
  <2>5. UsersAgree'
    BY <2>4 DEF UsersAgree
  <2>6. SinceAgrees'
    BY <2>1 DEF SinceAgrees
  <2>7. QED
    BY <2>2, <2>3, <2>5, <2>6
<1>3. QED
  BY <1>1, <1>2 DEF Query, GetUserByUsername

LEMMA PutUsers == ASSUME UsersInv, Typed', NEW p \in Procs, Put(p) PROVE UsersInv'
<1> USE DEF UsersInv, Put, users, At, Doing
<1>1. /\ \A q \in Procs \ {p} : op'[q] = op[q]
      /\ op'[p].pc \in {"idle", "got"}
      /\ op'[p].pc = "got" => op'[p].rec = op[p].rec /\ op'[p].since = op[p].since
      /\ op'[p].since \in {0, op[p].since}
  BY Parts DEF RequestOK, Goes, Ends, Idle
<1>2. LockHeld'
  BY <1>1 DEF LockHeld, Changes
<1>3. RowThere' /\ PutsAgree'
  BY <1>1 DEF RowThere, PutsAgree, Same
<1>4. UsersAgree'
  BY DEF PutsAgree, UsersAgree, Same
<1>5. SinceAgrees'
  BY <1>1, Compare DEF SinceAgrees
<1>6. QED
  BY <1>2, <1>3, <1>4, <1>5

LEMMA RecordUsers == ASSUME UsersInv, Typed', NEW p \in Procs, RecordLogin(p) PROVE UsersInv'
<1> USE DEF UsersInv, RecordLogin, RecordUserLogin, users, At, Doing
<1>1. /\ \A q \in Procs \ {p} : op'[q] = op[q]
      /\ op'[p].pc = "issue" /\ op'[p].since = op[p].since
  BY Parts DEF RequestOK, Goes
<1>2. /\ row'.there = row.there /\ row'.pw = row.pw /\ row'.setAt = row.setAt
      /\ row'.mail = row.mail
  BY Parts DEF DataOK, Records
<1>3. LockHeld' /\ RowThere' /\ PutsAgree' /\ UsersAgree' /\ SinceAgrees'
  BY <1>1, <1>2 DEF LockHeld, Changes, RowThere, PutsAgree, UsersAgree, SinceAgrees, Same
<1>4. QED
  BY <1>3

LEMMA ChangeUsers ==
    ASSUME UsersInv, Typed', NEW p \in Procs, ChangePassword(p) PROVE UsersInv'
<1> USE DEF UsersInv, ChangePassword, DeleteAndHoldLock, users, At, Doing
<1>1. /\ \A q \in Procs \ {p} : op'[q] = op[q]
      /\ \/ op'[p].pc = "write" /\ op'[p].kind = op[p].kind /\ lock' = p
            /\ op'[p].since = op[p].since
         \/ op'[p].pc = "idle" /\ lock' = lock /\ op'[p].since = 0
  BY Parts DEF RequestOK, Goes, Ends, Idle
<1>2. ~cache'.there /\ Nobody \notin Procs /\ op[p].kind \in {"passwd", "validate"}
  BY Parts, AccountsAssumption DEF NoUser, KindAt
<1>3. LockHeld'
  BY <1>1, <1>2 DEF LockHeld, Changes
<1>4. RowThere' /\ PutsAgree' /\ UsersAgree'
  BY <1>1, <1>2 DEF RowThere, PutsAgree, UsersAgree, Same
<1>5. SinceAgrees'
  BY <1>1, Compare DEF SinceAgrees
<1>6. QED
  BY <1>3, <1>4, <1>5

LEMMA WriteUsers ==
    ASSUME UsersInv, Typed', NEW p \in Procs, WritePassword(p) PROVE UsersInv'
<1> USE DEF UsersInv, WritePassword, users, At, Doing
<1>1. /\ \A q \in Procs \ {p} : op'[q] = op[q]
      /\ op'[p].pc = "idle" /\ op'[p].since = 0
  BY Parts DEF RequestOK, Ends, Idle
<1>2. lock = p /\ ~cache.there /\ Nobody \notin Procs
  BY AccountsAssumption DEF LockHeld, Changes
<1>3. LockHeld'
  BY <1>1, <1>2 DEF LockHeld, Changes
<1>4. row'.there = row.there /\ row.setAt <= row'.setAt /\ row'.setAt <= clock
  <2>1. row \in Records /\ row.setAt <= clock /\ clock \in Nat /\ row.setAt \in Nat
    BY Parts, Compare DEF DataOK, SinceAgrees
  <2>2. row' \in {row, UpdatePassword(row, Blank)}
    BY DEF NewPlainPassword
  <2>3. CASE row' = row
    BY <2>1, <2>3
  <2>4. CASE row' = [row EXCEPT !.pw = Blank, !.setAt = clock]
    BY <2>1, <2>4 DEF Records
  <2>5. QED
    BY <2>2, <2>3, <2>4 DEF UpdatePassword
<1>5. PutsAgree'
  <2>1. CASE UNCHANGED <<row, suspect>>
    BY <1>1, <2>1 DEF PutsAgree, Same
  <2>2. CASE suspect' = PutsPending(p)
    BY <1>1, <2>2 DEF PutsAgree, PutsPending
  <2>3. QED
    BY <2>1, <2>2
<1>6. RowThere' /\ UsersAgree'
  BY <1>1, <1>2, <1>4 DEF RowThere, UsersAgree
<1>7. SinceAgrees'
  <2>1. ASSUME NEW q \in Procs
        PROVE  /\ op'[q].since <= row'.setAt
               /\ op'[q].pc \in {"put", "got"} => op'[q].since <= op'[q].rec.setAt
    <3>1. row.setAt \in Nat /\ op[q].since \in Nat /\ op[q].since <= row.setAt /\ row'.setAt \in Nat
      BY Compare, PartsNext DEF SinceAgrees, DataOK, Records, Times
    <3>2. CASE q = p
      BY <1>1, <1>4, <3>1, <3>2
    <3>3. CASE q # p
      <4>1. op'[q] = op[q]
        BY <1>1, <3>3
      <4>2. op'[q].since <= row'.setAt
        BY <4>1, <1>4, <3>1
      <4>3. QED
        BY <4>1, <4>2 DEF SinceAgrees
    <3>4. QED
      BY <3>2, <3>3
  <2>2. QED
    BY <1>4, <2>1 DEF SinceAgrees
<1>8. QED
  BY <1>3, <1>5, <1>6, <1>7

LEMMA FindUsers == ASSUME UsersInv, Typed', NEW p \in Procs, FindUser(p) PROVE UsersInv'
<1> USE DEF UsersInv, FindUser, users, At, Doing
<1>1. /\ \A q \in Procs \ {p} : op'[q] = op[q]
      /\ \/ op'[p].pc = "idle" /\ op'[p].since = 0
         \/ op'[p].pc = "write" /\ op'[p].kind = "update" /\ op'[p].since = op[p].since
            /\ row.there
  BY Parts DEF RequestOK, Goes, Ends, Idle, KindAt
<1>2. LockHeld' /\ RowThere'
  BY <1>1 DEF LockHeld, Changes, RowThere
<1>3. PutsAgree' /\ UsersAgree' /\ SinceAgrees'
  BY <1>1, Compare DEF PutsAgree, UsersAgree, SinceAgrees, Same
<1>4. QED
  BY <1>2, <1>3

\* An UPDATE that fails.
LEMMA UpdateFails ==
    ASSUME UsersInv, Typed', NEW p \in Procs, UpdateUser(p), Ends(p), row' = row,
           suspect' = suspect
    PROVE  UsersInv'
<1> USE DEF UsersInv, UpdateUser, users, At, Doing
<1>1. /\ \A q \in Procs \ {p} : op'[q] = op[q]
      /\ op'[p].pc = "idle" /\ op'[p].since = 0
  BY Parts DEF RequestOK, Ends, Idle, KindAt
<1>2. LockHeld' /\ RowThere'
  BY <1>1 DEF LockHeld, Changes, RowThere
<1>3. PutsAgree' /\ UsersAgree' /\ SinceAgrees'
  BY <1>1, Compare DEF PutsAgree, UsersAgree, SinceAgrees, Same
<1>4. QED
  BY <1>2, <1>3

\* One that succeeds: what it returns is the row.
LEMMA UpdateWrites ==
    ASSUME UsersInv, Typed', NEW p \in Procs, UpdateUser(p), row' = UpdateUserRow(row),
           op' = [op EXCEPT ![p].rec = row', ![p].pc = "put"],
           suspect' = (suspect \/ PutsPending(p))
    PROVE  UsersInv'
<1>1. /\ \A q \in Procs \ {p} : op'[q] = op[q]
      /\ op'[p].pc = "put" /\ op'[p].kind = "update" /\ op'[p].since = op[p].since
      /\ op'[p].rec = row'
  <2> DEFINE written == row'
  <2>1. op' = [op EXCEPT ![p].rec = written, ![p].pc = "put"]
    BY DEF UpdateUser
  <2>2. Doing(p, "update", "write") /\ Typed
    BY DEF UpdateUser, UsersInv
  <2> HIDE DEF written
  <2>3. /\ \A q \in Procs \ {p} : op'[q] = op[q]
        /\ op'[p].pc = "put" /\ op'[p].kind = "update" /\ op'[p].since = op[p].since
        /\ op'[p].rec = written
    BY <2>1, <2>2, Parts DEF RequestOK, Doing
  <2>4. QED
    BY <2>3 DEF written
<1>2. row'.there = row.there /\ row'.setAt = row.setAt /\ row'.pw = row.pw
  BY Parts DEF UpdateUser, UsersInv, DataOK, Records, UpdateUserRow
<1>3. /\ op[p].pc = "write" /\ op[p].kind = "update"
      /\ UNCHANGED <<clock, cache, lock>> /\ suspect' = (suspect \/ PutsPending(p))
      /\ Typed /\ LockHeld /\ RowThere /\ PutsAgree /\ UsersAgree /\ SinceAgrees
  <2>1. op[p].pc = "write" /\ op[p].kind = "update" /\ UNCHANGED <<clock, cache, lock>>
    BY Zenon DEF UpdateUser, Doing
  <2>2. Typed /\ LockHeld /\ RowThere /\ PutsAgree /\ UsersAgree /\ SinceAgrees
    BY Zenon DEF UsersInv
  <2>3. QED
    BY <2>1, <2>2
<1>4. LockHeld' /\ RowThere'
  <2>1. ASSUME NEW q \in Procs PROVE Changes(op[q])' <=> Changes(op[q])
    BY <1>1, <1>3 DEF Changes
  <2>2. LockHeld'
    BY <1>3, <2>1 DEF LockHeld
  <2>3. row.there
    BY <1>3 DEF RowThere, Doing
  <2>4. RowThere'
    BY <1>2, <2>3 DEF RowThere
  <2>5. QED
    BY <2>2, <2>4
<1>5. PutsAgree'
  <2>1. ASSUME NEW q \in Procs, At(q, "put")' PROVE (suspect \/ Same(op[q].rec))'
    <3>1. CASE q = p
      BY <1>1, <3>1 DEF Same
    <3>2. CASE q # p
      <4>1. op'[q] = op[q] /\ op[q].pc = "put"
        BY <1>1, <2>1, <3>2 DEF At
      <4>2. PutsPending(p)
        BY <4>1, <3>2 DEF PutsPending, At
      <4>3. suspect'
        BY <4>2, <1>3
      <4>4. QED
        BY <4>3
    <3>3. QED
      BY <3>1, <3>2
  <2>2. QED
    BY <2>1 DEF PutsAgree
<1>6. UsersAgree'
  BY <1>1, <1>2, <1>3 DEF UsersAgree, Doing
<1>7. SinceAgrees'
  <2>1. ASSUME NEW q \in Procs
        PROVE  /\ op'[q].since <= row'.setAt
               /\ op'[q].pc \in {"put", "got"} => op'[q].since <= op'[q].rec.setAt
    <3>1. CASE q = p
      BY <1>1, <1>2, <1>3, <3>1 DEF SinceAgrees
    <3>2. CASE q # p
      BY <1>1, <1>2, <1>3, <3>2 DEF SinceAgrees
    <3>3. QED
      BY <3>1, <3>2
  <2>2. QED
    BY <1>2, <1>3, <2>1 DEF SinceAgrees
<1>8. QED
  BY <1>4, <1>5, <1>6, <1>7 DEF UsersInv

LEMMA UpdateUsers ==
    ASSUME UsersInv, Typed', NEW p \in Procs, UpdateUser(p) PROVE UsersInv'
<1>1. CASE Ends(p) /\ row' = row /\ suspect' = suspect
  BY <1>1, UpdateFails
<1>2. CASE /\ row' = UpdateUserRow(row)
           /\ op' = [op EXCEPT ![p].rec = row', ![p].pc = "put"]
           /\ suspect' = (suspect \/ PutsPending(p))
  BY <1>2, UpdateWrites
<1>3. QED
  BY <1>1, <1>2 DEF UpdateUser

LEMMA BesideUsers == ASSUME UsersInv, Typed', Beside PROVE UsersInv'
<1> USE DEF UsersInv, users, vars, At, Doing
<1>1. CASE Tick
  <2>1. LockHeld' /\ RowThere' /\ PutsAgree' /\ UsersAgree'
    BY <1>1 DEF Tick, LockHeld, RowThere, PutsAgree, UsersAgree, Changes, Same
  <2>2. SinceAgrees'
    BY <1>1, Compare DEF Tick, SinceAgrees
  <2>3. QED
    BY <2>1, <2>2
<1>2. CASE CLIAddUser
  <2>1. /\ row'.setAt = clock /\ row'.there
        /\ UNCHANGED <<op, clock, cache, lock, suspect>> /\ ~row.there
    BY <1>2 DEF CLIAddUser, AddUser, CreateUser, User
  <2>2. LockHeld' /\ RowThere' /\ PutsAgree' /\ UsersAgree'
    BY <2>1 DEF LockHeld, RowThere, PutsAgree, UsersAgree, Changes
  <2>3. SinceAgrees'
    BY <2>1, Compare DEF SinceAgrees
  <2>4. QED
    BY <2>2, <2>3
<1>3. CASE CLIPasswd
  <2>1. /\ row'.setAt = clock /\ row'.there /\ row.there
        /\ UNCHANGED <<op, clock, cache, lock>>
    BY <1>3, Parts DEF CLIPasswd, UpdatePassword, DataOK, Records
  <2>2. LockHeld' /\ RowThere'
    BY <2>1 DEF LockHeld, RowThere, Changes
  <2>3. PutsAgree' /\ UsersAgree'
    BY <1>3, <2>1 DEF CLIPasswd, PutsAgree, UsersAgree
  <2>4. SinceAgrees'
    BY <2>1, Compare DEF SinceAgrees
  <2>5. QED
    BY <2>2, <2>3, <2>4
<1>4. CASE HUP
  <2>1. ~cache'.there /\ UNCHANGED <<row, lock, op, clock>>
    BY <1>4 DEF HUP, NoUser
  <2>2. LockHeld' /\ RowThere' /\ UsersAgree' /\ SinceAgrees'
    BY <2>1 DEF LockHeld, RowThere, UsersAgree, SinceAgrees, Changes
  <2>3. PutsAgree'
    BY <1>4, <2>1 DEF HUP, PutsAgree
  <2>4. QED
    BY <2>2, <2>3
<1>5. CASE Rest
  BY <1>5 DEF Rest, LockHeld, RowThere, PutsAgree, UsersAgree, SinceAgrees, Changes, Same
<1>6. QED
  BY <1>1, <1>2, <1>3, <1>4, <1>5 DEF Beside

LEMMA UsersInit == Init => UsersInv
<1> SUFFICES ASSUME Init PROVE UsersInv
  OBVIOUS
<1>1. /\ \A p \in Procs : op[p] = Idle
      /\ row.setAt = 0 /\ clock = 0 /\ cache = NoUser /\ lock = Nobody
  BY DEF Init, NoUser, User
<1>2. QED
  BY <1>1, InitTyped, AccountsAssumption
     DEF UsersInv, LockHeld, RowThere, PutsAgree, UsersAgree, SinceAgrees, Changes, Idle,
         NoUser, At, Doing

LEMMA UsersNext == ASSUME UsersInv, [Next]_vars PROVE UsersInv'
<1>0. Typed /\ Typed'
  BY NextTyped DEF UsersInv
<1>1. ASSUME NEW p \in Procs, Begin(p) PROVE UsersInv'
  BY <1>0, <1>1, BeginQuiet, QuietUsers
<1>2. ASSUME NEW p \in Procs, Step(p) PROVE UsersInv'
  <2>1. CASE QuietStep(p)
    BY <1>0, <2>1, StepQuiet, QuietUsers
  <2>2. QED
    BY <1>0, <1>2, <2>1, HitUsers, QueryUsers, PutUsers, RecordUsers, ChangeUsers,
       WriteUsers, FindUsers, UpdateUsers DEF Step, QuietStep
<1>3. CASE UNCHANGED vars
  BY <1>0, <1>3 DEF vars, users, UsersInv, LockHeld, RowThere, PutsAgree, UsersAgree,
                   SinceAgrees, Changes, Same, At, Doing
<1>4. QED
  BY <1>0, <1>1, <1>2, <1>3, BesideUsers DEF Next

\* A record in the users' cache agrees with its row, unless an overlap or another
\* process explains that it does not.
THEOREM UsersCacheAgrees == Spec => []UsersAgree
<1>1. UsersInv => UsersAgree
  BY DEF UsersInv
<1>2. QED
  BY <1>1, UsersInit, UsersNext, PTL DEF Spec

\* A request's steps are its own.
LEMMA Frame ==
    ASSUME Typed, NEW q \in Procs, Step(q) PROVE \A r \in Procs \ {q} : op'[r] = op[r]
<1>1. CASE QuietStep(q)
  BY <1>1, StepQuiet DEF Quiet
<1>2. CASE Hit(q) \/ Query(q) \/ Put(q) \/ RecordLogin(q)
  BY <1>2, Parts DEF Hit, Query, GetUserByUsername, Put, RecordLogin, Goes, Ends
<1>3. CASE ChangePassword(q) \/ WritePassword(q) \/ FindUser(q) \/ UpdateUser(q)
  BY <1>3, Parts DEF ChangePassword, WritePassword, FindUser, UpdateUser, Goes, Ends
<1>4. QED
  BY <1>1, <1>2, <1>3 DEF Step, QuietStep

\* What a refresh does with the record it has.
LEMMA OnlyRefresh ==
    ASSUME NEW p \in Procs, Doing(p, "refresh", "got"), Begin(p) \/ Step(p)
    PROVE  Refresh(p)
<1> USE DEF Doing, At
<1>1. ~Begin(p)
  BY DEF Begin, Begins, BeginRead, BeginRefresh, BeginLogin, BeginPasswd, BeginUpdate,
         BeginNewKey, BeginUseKey, BeginGet, BeginGetPrefs, BeginSet, BeginDelete
<1>2. ~Hit(p) /\ ~Miss(p) /\ ~Query(p) /\ ~Put(p) /\ ~Answer(p)
  BY DEF Hit, Miss, Query, Put, Answer
<1>3. ~Login(p) /\ ~RecordLogin(p) /\ ~NewRefreshToken(p) /\ ~Passwd(p) /\ ~Validate(p)
  BY DEF Login, RecordLogin, NewRefreshToken, Passwd, Validate
<1>4. ~ChangePassword(p) /\ ~WritePassword(p) /\ ~FindUser(p) /\ ~UpdateUser(p)
  BY DEF ChangePassword, WritePassword, FindUser, UpdateUser
<1>5. ~CreateAPIKey(p) /\ ~GetAPIKey(p) /\ ~GetCached(p) /\ ~FetchSetting(p)
  BY DEF CreateAPIKey, GetAPIKey, GetCached, FetchSetting
<1>6. ~PutSetting(p) /\ ~SetSetting(p) /\ ~Uncache(p) /\ ~DeleteSetting(p)
  BY DEF PutSetting, SetSetting, Uncache, DeleteSetting
<1>7. QED
  BY <1>1, <1>2, <1>3, <1>4, <1>5, <1>6 DEF Step

LEMMA RefreshesAreNewer ==
    ASSUME UsersInv, Next, NEW p \in Procs, Doing(p, "refresh", "got"),
           op'[p].pc = "record"
    PROVE  op[p].arg.at >= op[p].since
<1>1. Typed /\ op[p].pc = "got" /\ op[p].kind = "refresh"
  BY DEF UsersInv, Doing
<1>2. op[p].arg \in Tokens
  BY <1>1, Parts DEF RequestOK, ArgsOf
<1>3. op[p].since <= op[p].rec.setAt
  BY <1>1 DEF UsersInv, SinceAgrees
<1>4. Refresh(p)
  <2>1. op' # op
    BY <1>1
  <2>2. ~Beside
    BY <2>1 DEF Beside, Tick, CLIAddUser, CLIPasswd, HUP, Rest, vars
  <2>3. PICK q \in Procs : Begin(q) \/ Step(q)
    BY <2>2 DEF Next
  <2>4. q = p
    <3>1. q # p => op'[p] = op[p]
      BY <1>1, <2>3, BeginQuiet, Frame DEF Quiet
    <3>2. QED
      BY <1>1, <3>1
  <2>5. QED
    BY <2>3, <2>4, OnlyRefresh
<1>5. MayRefresh(op[p].arg, op[p].rec)
  <2>1. CASE Ends(p)
    BY <1>1, <2>1, Parts DEF Ends, Idle
  <2>2. QED
    BY <1>4, <2>1 DEF Refresh
<1>6. QED
  BY <1>1, <1>2, <1>3, <1>5, Compare DEF MayRefresh, Tokens, Times

\* A token from before the password was set is not refreshed.
THEOREM OldTokensAreRefused == Spec => OldTokensEnd
<1>1. ASSUME UsersInv, [Next]_vars
      PROVE  [\A p \in Procs :
                 Doing(p, "refresh", "got") /\ op'[p].pc = "record"
                     => op[p].arg.at >= op[p].since]_vars
  <2>1. CASE Next
    BY <1>1, <2>1, RefreshesAreNewer
  <2>2. CASE UNCHANGED vars
    BY <2>2
  <2>3. QED
    BY <1>1, <2>1, <2>2
<1>2. QED
  BY <1>1, UsersInit, UsersNext, PTL DEF Spec, OldTokensEnd

-----------------------------------------------------------------------------
(* The settings' cache.                                                    *)

\* What is about to be cached is the row, unless a write came between or the
\* query failed.
SetsAgree ==
    \A p \in Procs : At(p, "sput") =>
        op[p].ent.val = srow \/ ssuspect \/ op[p].ent.val = Nil

SettingsInv == Typed /\ SetsAgree /\ SettingsAgree

\* A step that leaves the setting and its cache alone and is not about to cache.
QuietSetting(p) ==
    /\ UNCHANGED setting
    /\ \A q \in Procs \ {p} : op'[q] = op[q]
    /\ op'[p].pc # "sput" /\ op[p].pc # "sput"

LEMMA QuietSettings ==
    ASSUME SettingsInv, Typed', NEW p \in Procs, QuietSetting(p) PROVE SettingsInv'
<1> USE DEF SettingsInv, QuietSetting, setting, At, Doing
<1>1. SetsAgree'
  BY DEF SetsAgree
<1>2. ASSUME NEW q \in Procs, Doing(q, "set", "sput") PROVE Doing(q, "set", "sput")'
  BY <1>2
<1>3. SettingsAgree'
  BY <1>2 DEF SettingsAgree
<1>4. QED
  BY <1>1, <1>3

LEMMA BeginsSetting ==
    ASSUME Typed, NEW p \in Procs, NEW kind, NEW pc, NEW arg, Begins(p, kind, pc, arg),
           pc # "sput"
    PROVE  QuietSetting(p)
BY Parts DEF Begins, QuietSetting, At

LEMMA BeginSettings == ASSUME Typed, NEW p \in Procs, Begin(p) PROVE QuietSetting(p)
<1>1. CASE BeginRead(p)
  BY <1>1, BeginsSetting DEF BeginRead
<1>2. CASE BeginRefresh(p)
  BY <1>2, BeginsSetting DEF BeginRefresh
<1>3. CASE BeginLogin(p)
  BY <1>3, BeginsSetting DEF BeginLogin
<1>4. CASE BeginPasswd(p)
  BY <1>4, BeginsSetting DEF BeginPasswd
<1>5. CASE BeginUpdate(p)
  BY <1>5, BeginsSetting DEF BeginUpdate
<1>6. CASE BeginNewKey(p)
  BY <1>6, BeginsSetting DEF BeginNewKey
<1>7. CASE BeginUseKey(p)
  BY <1>7, BeginsSetting DEF BeginUseKey
<1>8. CASE BeginGet(p)
  BY <1>8, BeginsSetting DEF BeginGet
<1>9. CASE BeginGetPrefs(p)
  BY <1>9, BeginsSetting DEF BeginGetPrefs
<1>10. CASE BeginSet(p)
  BY <1>10, BeginsSetting DEF BeginSet
<1>11. CASE BeginDelete(p)
  BY <1>11, BeginsSetting DEF BeginDelete
<1>12. QED
  BY <1>1, <1>2, <1>3, <1>4, <1>5, <1>6, <1>7, <1>8, <1>9, <1>10, <1>11 DEF Begin

SettingStep(p) ==
    FetchSetting(p) \/ PutSetting(p) \/ SetSetting(p) \/ Uncache(p) \/ DeleteSetting(p)

LEMMA OtherSteps ==
    ASSUME Typed, NEW p \in Procs, Step(p), ~SettingStep(p) PROVE QuietSetting(p)
<1>1. \A q \in Procs \ {p} : op'[q] = op[q]
  BY Frame
<1> USE <1>1, Parts DEF QuietSetting, At, Doing, Goes, Ends, Idle, setting, RequestOK
<1>2. CASE Hit(p)
  BY <1>2 DEF Hit
<1>3. CASE Miss(p)
  BY <1>3 DEF Miss
<1>4. CASE Query(p)
  BY <1>4 DEF Query
<1>5. CASE Put(p)
  BY <1>5 DEF Put
<1>6. CASE Answer(p)
  BY <1>6 DEF Answer
<1>7. CASE Refresh(p)
  BY <1>7 DEF Refresh
<1>8. CASE Login(p)
  BY <1>8 DEF Login
<1>9. CASE RecordLogin(p)
  BY <1>9 DEF RecordLogin
<1>10. CASE NewRefreshToken(p)
  BY <1>10 DEF NewRefreshToken
<1>11. CASE Passwd(p)
  BY <1>11 DEF Passwd
<1>12. CASE Validate(p)
  BY <1>12 DEF Validate
<1>13. CASE ChangePassword(p)
  BY <1>13 DEF ChangePassword
<1>14. CASE WritePassword(p)
  BY <1>14 DEF WritePassword
<1>15. CASE FindUser(p)
  BY <1>15 DEF FindUser
<1>16. CASE UpdateUser(p)
  BY <1>16 DEF UpdateUser
<1>17. CASE CreateAPIKey(p)
  BY <1>17 DEF CreateAPIKey
<1>18. CASE GetAPIKey(p)
  BY <1>18 DEF GetAPIKey
<1>19. CASE GetCached(p)
  BY <1>19 DEF GetCached
<1>20. QED
  BY <1>2, <1>3, <1>4, <1>5, <1>6, <1>7, <1>8, <1>9, <1>10, <1>11, <1>12, <1>13, <1>14, <1>15, <1>16, <1>17, <1>18, <1>19 DEF Step, SettingStep

LEMMA FetchSettings ==
    ASSUME SettingsInv, Typed', NEW p \in Procs, FetchSetting(p) PROVE SettingsInv'
<1>0. /\ Typed /\ SetsAgree /\ SettingsAgree /\ At(p, "squery") /\ UNCHANGED setting
      /\ \A q \in Procs \ {p} : op'[q] = op[q]
  BY Frame DEF SettingsInv, FetchSetting, Step
<1>1. op'[p].pc = "sput" => op'[p].ent.val \in {srow, Nil}
  <2>1. CASE Ends(p)
    BY <1>0, <2>1, Parts DEF Ends, Idle
  <2>2. ASSUME NEW val \in {srow, Nil}, Fetched(p, val) PROVE op'[p].ent.val \in {srow, Nil}
    <3> DEFINE raw == op[p].kind = "getPrefs"
    <3>1. op' = [op EXCEPT ![p].ent = Entry(val, raw), ![p].pc = "sput"]
      BY <2>2 DEF Fetched
    <3> HIDE DEF raw
    <3>2. op'[p].ent = Entry(val, raw)
      BY <1>0, <3>1, Parts DEF RequestOK
    <3>3. QED
      BY <3>2 DEF Entry
  <2>3. QED
    BY <2>1, <2>2 DEF FetchSetting
<1>2. SetsAgree'
  BY <1>0, <1>1 DEF SetsAgree, At, setting
<1>3. ASSUME NEW q \in Procs, Doing(q, "set", "sput") PROVE Doing(q, "set", "sput")'
  BY <1>0, <1>3 DEF Doing, At
<1>4. SettingsAgree'
  BY <1>0, <1>3 DEF SettingsAgree, setting
<1>5. QED
  BY <1>2, <1>4 DEF SettingsInv

LEMMA PutSettings ==
    ASSUME SettingsInv, Typed', NEW p \in Procs, PutSetting(p) PROVE SettingsInv'
<1>1. /\ Typed /\ SetsAgree /\ At(p, "sput") /\ srow' = srow
      /\ \A q \in Procs \ {p} : op'[q] = op[q]
      /\ scache' = op[p].ent /\ ssuspect' = (ssuspect \/ op[p].ent.val = Nil)
      /\ op'[p].pc = "idle"
  BY Frame, Parts DEF SettingsInv, PutSetting, Step, Ends, Idle
<1>2. SetsAgree'
  BY <1>1 DEF SetsAgree, At
<1>3. SettingsAgree'
  BY <1>1 DEF SetsAgree, SettingsAgree
<1>4. QED
  BY <1>2, <1>3 DEF SettingsInv

LEMMA SetSettings ==
    ASSUME SettingsInv, Typed', NEW p \in Procs, SetSetting(p) PROVE SettingsInv'
<1>1. CASE Ends(p) /\ UNCHANGED <<srow, ssuspect>>
  <2>1. QuietSetting(p)
    BY <1>1, Frame, Parts
       DEF SettingsInv, SetSetting, Step, QuietSetting, Ends, Idle, setting, At
  <2>2. QED
    BY <2>1, QuietSettings
<1>2. CASE /\ srow' = op[p].arg /\ SetThenCaches(p)
           /\ ssuspect' = (ssuspect \/ SetsPending(p))
  <2>1. /\ Typed /\ SetsAgree /\ op[p].kind = "set" /\ At(p, "swrite")
        /\ \A q \in Procs \ {p} : op'[q] = op[q]
    BY Frame, Parts DEF SettingsInv, SetSetting, Step, KindAt, At
  <2>2. op'[p].pc = "sput" /\ op'[p].kind = "set" /\ op'[p].ent.val = op[p].arg
    <3> DEFINE ent == Entry(op[p].arg, FALSE)
    <3>1. op' = [op EXCEPT ![p].ent = ent, ![p].pc = "sput"] /\ ent.val = op[p].arg
      BY <1>2 DEF SetThenCaches, Entry
    <3> HIDE DEF ent
    <3>2. QED
      BY <2>1, <3>1, Parts DEF RequestOK
  <2>3. SetsAgree'
    BY <1>2, <2>1, <2>2 DEF SetsAgree, SetsPending, At
  <2>4. SettingsAgree'
    BY <2>2 DEF SettingsAgree, Doing
  <2>5. QED
    BY <2>3, <2>4 DEF SettingsInv
<1>3. QED
  BY <1>1, <1>2 DEF SetSetting

LEMMA DropSettings ==
    ASSUME SettingsInv, Typed', NEW p \in Procs, Uncache(p) \/ DeleteSetting(p)
    PROVE  SettingsInv'
<1>1. CASE Uncache(p)
  <2>1. /\ Typed /\ SetsAgree /\ UNCHANGED <<srow, ssuspect>> /\ scache' = NoEntry
        /\ \A q \in Procs \ {p} : op'[q] = op[q]
        /\ op'[p].pc = "sdrop"
    BY <1>1, Frame, Parts DEF SettingsInv, Uncache, Step, Goes, RequestOK
  <2>2. SetsAgree' /\ SettingsAgree'
    BY <2>1 DEF SetsAgree, SettingsAgree, At
  <2>3. QED
    BY <2>2 DEF SettingsInv
<1>2. CASE DeleteSetting(p)
  <2>1. /\ Typed /\ SetsAgree /\ SettingsAgree /\ scache' = scache
        /\ \A q \in Procs \ {p} : op'[q] = op[q]
        /\ op[p].pc = "sdrop" /\ op'[p].pc = "idle"
    BY <1>2, Frame, Parts DEF SettingsInv, DeleteSetting, Step, Ends, Idle, At
  <2>2. CASE UNCHANGED <<srow, ssuspect>>
    <3>1. QuietSetting(p)
      BY <2>1, <2>2 DEF QuietSetting, setting
    <3>2. QED
      BY <3>1, QuietSettings
  <2>3. CASE srow' = NoValue /\ ssuspect' = (SetsPending(p) \/ scache # NoEntry)
    <3>1. SetsAgree' /\ SettingsAgree'
      BY <2>1, <2>3 DEF SetsAgree, SettingsAgree, SetsPending, At
    <3>2. QED
      BY <3>1 DEF SettingsInv
  <2>4. QED
    BY <1>2, <2>2, <2>3 DEF DeleteSetting
<1>3. QED
  BY <1>1, <1>2

LEMMA SettingsInit == Init => SettingsInv
<1> SUFFICES ASSUME Init PROVE SettingsInv
  OBVIOUS
<1>1. scache = NoEntry /\ \A p \in Procs : op[p] = Idle
  BY DEF Init
<1>2. QED
  BY <1>1, InitTyped DEF SettingsInv, SetsAgree, SettingsAgree, Idle, At

LEMMA SettingsNext == ASSUME SettingsInv, [Next]_vars PROVE SettingsInv'
<1>0. Typed /\ Typed'
  BY NextTyped DEF SettingsInv
<1>1. ASSUME NEW p \in Procs, Begin(p) PROVE SettingsInv'
  BY <1>0, <1>1, BeginSettings, QuietSettings
<1>2. ASSUME NEW p \in Procs, Step(p) PROVE SettingsInv'
  <2>1. CASE SettingStep(p)
    BY <1>0, <2>1, FetchSettings, PutSettings, SetSettings, DropSettings DEF SettingStep
  <2>2. QED
    BY <1>0, <1>2, <2>1, OtherSteps, QuietSettings
<1>3. CASE Beside \/ UNCHANGED vars
  <2>1. UNCHANGED <<setting, op>>
    BY <1>3 DEF Beside, Tick, CLIAddUser, CLIPasswd, HUP, Rest, vars
  <2>2. QED
    BY <1>0, <2>1 DEF SettingsInv, SetsAgree, SettingsAgree, setting, At, Doing
<1>4. QED
  BY <1>1, <1>2, <1>3 DEF Next

\* A setting in the cache is the row's, unless an overlap or a failed query
\* explains that it is not.
THEOREM SettingsCacheAgrees == Spec => []SettingsAgree
<1>1. SettingsInv => SettingsAgree
  BY DEF SettingsInv
<1>2. QED
  BY <1>1, SettingsInit, SettingsNext, PTL DEF Spec
=============================================================================
